------------------------------ MODULE TimerProofs ------------------------------
(***************************************************************************)
(* Proofs about TimerList, for any processes, any programs, any width of   *)
(* the clock, and any bounds on guards, ticks and lag: the list is linked  *)
(* and in the order of its deadlines, nobody who is due sleeps on, nobody  *)
(* wakes from tin early, and an alternative selects what is ready.         *)
(*                                                                         *)
(* The inductive invariant TimerInv reduces time to the ticks that are     *)
(* left until each time asked for, which say where the clock is (Asks).    *)
(* Every process is Fine on its own: its words are those its place in its  *)
(* program and its place in the list call for.  The list as a whole is     *)
(* Linked and InOrder, and Awake: nobody in it is due while alarms are on  *)
(* and the list is in its place.  Words are compared within half the range *)
(* of the clock only, which the bounds on Distance and MaxLag ensure.      *)
(***************************************************************************)
EXTENDS TimerList, NumberLemmas, SequenceTheorems, FiniteSetTheorems

(***************************************************************************)
(* What is known of one process, given the ticks that are left until its   *)
(* times, the list and the program; a process that is linked has no link   *)
(* of interest but the list's.                                             *)
(***************************************************************************)
\* It is in the list.
Holds(ws, p) == \E i \in 1 .. Len(ws) : ws[i] = p

\* The words of the program, a record as List is one.
Program == [pc |-> pc, temp |-> temp, guards |-> guards, armed |-> armed, sender |-> sender]

View(l, q, g, p) ==
  [pc |-> g.pc[p], temp |-> g.temp[p], guards |-> g.guards[p], armed |-> g.armed[p],
   sender |-> g.sender[p], left |-> l[p], time |-> q.time[p], state |-> q.state[p],
   turns |-> q.turns[p], listed |-> Holds(q.sleepers, p),
   link |-> IF Holds(q.sleepers, p) THEN NoProcess ELSE q.tlink[p]]

\* Ticks that are told apart from those of half the clock's range away.
Span == -MaxLag .. Half - MaxLag

\* The ticks left until the first of the times asked for.
Soonest(a) == CHOOSE n \in {a[t] : t \in DOMAIN a} : \A t \in DOMAIN a : n <= a[t]

\* What is left until a time says where the clock is.
Asks(c, a) ==
  /\ DOMAIN a \subseteq Time
  /\ \A t \in DOMAIN a : a[t] \in Span /\ t = (c + a[t] - 1) % Modulus

\* What its words are made of.
Kinds(v) ==
  /\ v.temp \in Time \union {NONE_SELECTED, CHANNEL} /\ v.guards \subseteq Time
  /\ v.time \in Time /\ v.state \in Mark /\ v.turns \in 0 .. 1
  /\ {v.armed, v.sender, v.listed} \subseteq BOOLEAN

\* An entry of the list has its first deadline in its word.
Deadline(c, v) == DOMAIN v.left # {} /\ v.time = (c + Soonest(v.left)) % Modulus

\* Outside of an alternative a process runs, or sleeps until its one time.
FreeFine(v) ==
  /\ v.guards = {} /\ ~v.armed /\ v.state # "waiting" /\ (v.listed <=> v.turns = 0)
  /\ v.turns = 0 => v.state = "enabling" /\ \E t \in DOMAIN v.left : DOMAIN v.left = {t}

\* While it enables guards its word has the earliest time.
EnablingFine(v) ==
  /\ v.turns = 1 /\ ~v.listed /\ v.state # "waiting" /\ DOMAIN v.left = v.guards
  /\ v.state = "ready" => v.armed /\ v.sender
  /\ \/ v.link = "notSet" /\ v.guards = {}
     \/ v.link = "set" /\ v.time \in v.guards /\ \A t \in v.guards : v.left[v.time] <= v.left[t]

\* The clock that was recorded when it became ready is now so many ticks ago.
Recorded(c, v) ==
  \E ago \in Nat :
    /\ v.time = (c - ago) % Modulus
    /\ \A t \in DOMAIN v.left : v.left[t] + ago \in Span

\* There is a guard left for it to select.
Promise(v) ==
  \/ v.armed /\ v.sender
  \/ v.link = "set" /\ \E t \in v.guards : After(v.time, t)

\* While it disables guards it is ready or waits, and what it has selected is ready.
DisablingFine(c, v) ==
  /\ v.guards \subseteq DOMAIN v.left
  /\ v.state # "enabling" /\ (v.turns = 0 <=> v.state = "waiting")
  /\ v.temp \in Time => v.temp \in DOMAIN v.left /\ v.left[v.temp] <= 0
  /\ v.temp = CHANNEL => v.sender
  /\ v.listed => v.guards = DOMAIN v.left
  /\ v.turns = 0 =>
       /\ v.temp = NONE_SELECTED /\ v.guards = DOMAIN v.left
       /\ ~v.listed => v.guards = {} /\ v.armed
  /\ v.turns = 1 /\ v.temp = NONE_SELECTED => Promise(v)
  /\ ~v.listed => v.link \in {"set", "notSet"}
  /\ v.link = "set" => DOMAIN v.left = {} \/ Recorded(c, v)

\* Its words are those its place in its program calls for.
Fine(c, v) ==
  /\ Kinds(v) /\ Asks(c, v.left)
  /\ v.listed => Deadline(c, v)
  /\ \/ v.pc = "free" /\ FreeFine(v)
     \/ v.pc = "enabling" /\ EnablingFine(v)
     \/ v.pc = "disabling" /\ DisablingFine(c, v)

(***************************************************************************)
(* The list: its links are the sleepers, each of them once, in the order   *)
(* of the ticks left until their times.                                    *)
(***************************************************************************)
Linked(link, front, ws) ==
  /\ front = IF Len(ws) = 0 THEN NoProcess ELSE ws[1]
  /\ \A i \in 1 .. Len(ws) : link[ws[i]] = IF i = Len(ws) THEN NoProcess ELSE ws[i + 1]
  /\ \A i, j \in 1 .. Len(ws) : ws[i] = ws[j] => i = j

\* Nobody sleeps longer than those behind.
InOrder(l, ws) ==
  \A i, j \in 1 .. Len(ws) : i < j => Soonest(l[ws[i]]) <= Soonest(l[ws[j]])

\* The head is in the hands of the program, or the list is in its place with its alarm set.
Listed(h, l, q) ==
  /\ h = NoProcess \/ q.tptr = NoProcess
  /\ Linked(q.tlink, IF h # NoProcess THEN h ELSE q.tptr, q.sleepers)
  /\ q.tptr # NoProcess => q.tnext = q.time[q.tptr]
  /\ InOrder(l, q.sleepers)

\* The types of the words of the list and of the program.
Lists ==
  [tptr : Proc \union {NoProcess}, tnext : Time, time : [Proc -> Time],
   tlink : [Proc -> Proc \union {NoProcess, "notSet", "set"}], state : [Proc -> Mark],
   turns : [Proc -> 0 .. 1], sleepers : Seq(Proc)]

ListTyped(q) == q \in Lists

ProgramTyped(g) ==
  /\ g.temp \in [Proc -> Time \union {NONE_SELECTED, CHANNEL}]
  /\ g.pc \in [Proc -> {"free", "enabling", "disabling"}]
  /\ g.guards \in [Proc -> SUBSET Time]
  /\ g.armed \in [Proc -> BOOLEAN] /\ g.sender \in [Proc -> BOOLEAN]

\* With the clock c, the list in the hands of the program from h on.
Good(c, h, l, q, g) ==
  /\ c \in Time /\ h \in Proc \union {NoProcess}
  /\ ListTyped(q) /\ ProgramTyped(g) /\ Listed(h, l, q)
  /\ \A p \in Proc : Fine(c, View(l, q, g, p))

\* Nobody in the list is due.
Awake(on, h, l, q) ==
  on /\ h = NoProcess => \A i \in 1 .. Len(q.sleepers) : Soonest(l[q.sleepers[i]]) > 0

\* A process that goes on has no times left.
Tidy(l, q, g) ==
  /\ l = [p \in Proc |-> l[p]]
  /\ \A p \in Proc : g.pc[p] = "free" /\ q.turns[p] > 0 => l[p] = Nothing

\* The inductive invariant.
TimerInv ==
  /\ roles \in Roles /\ alarms \in BOOLEAN
  /\ Good(clock, held, left, List, Program)
  /\ Awake(alarms, held, left, List)
  /\ Tidy(left, List, Program)
-----------------------------------------------------------------------------
(* Times *)

\* Half the range of the clock, and the bounds that keep times within it.
LEMMA ClockBounds ==
  /\ Half \in Nat /\ Half > 1 /\ Modulus = 2 * Half /\ Modulus \in Nat /\ Modulus > 0
  /\ MaxLag \in Nat /\ MaxLag + 1 < Half /\ Time = 0 .. Modulus - 1
BY TimerAssumption DEF Time

\* The clock so many ticks from c.
LEMMA TimeAt ==
  ASSUME NEW c \in Int
  PROVE  /\ (c % Modulus) \in Time
         /\ c \in Time => c % Modulus = c
<1>1. Modulus \in Nat /\ Modulus > 0 /\ Time = 0 .. Modulus - 1
  BY ClockBounds
<1>2. (c % Modulus) \in Time
  BY <1>1, IntRemainder
<1>3. c \in Time => c % Modulus = c
  BY <1>1, SMT
<1> QED BY <1>2, <1>3

\* Two times taken from the same clock are as far apart as that.
LEMMA TimesApart ==
  ASSUME NEW c \in Int, NEW x \in Int, NEW y \in Int
  PROVE  (((c + x) % Modulus) - ((c + y) % Modulus)) % Modulus = (x - y) % Modulus
<1> DEFINE K == Modulus
           t == (c + x) % K
           u == (c + y) % K
           i == (c + x) \div K
           j == (c + y) \div K
<1>1. K \in Nat /\ K > 0
  BY ClockBounds
<1> HIDE DEF K
<1>2. /\ c + x \in Int /\ c + y \in Int
  OBVIOUS
<1>3. /\ t \in Int /\ i \in Int /\ c + x = (K * i) + t
      /\ u \in Int /\ j \in Int /\ c + y = (K * j) + u
  BY <1>1, <1>2, IntRemainder
<1> HIDE DEF t, u, i, j
<1>4. t - u = (x - y) + (K * (j - i))
  <2>1. K * (j - i) = (K * j) - (K * i)
    BY <1>1, <1>3, SMT
  <2>2. (K * j) \in Int /\ (K * i) \in Int
    BY <1>1, <1>3
  <2> DEFINE m == K * j
             n == K * i
  <2> HIDE DEF m, n
  <2>3. m \in Int /\ n \in Int /\ c + x = n + t /\ c + y = m + u
    BY <1>3, <2>2 DEF m, n
  <2>4. t - u = (x - y) + (m - n)
    BY <1>3, <2>3
  <2> QED BY <2>1, <2>4 DEF m, n
<1>5. t - u \in Int /\ x - y \in Int /\ j - i \in Int
  BY <1>3
<1>6. (t - u) % K = (x - y) % K
  <2> DEFINE a == t - u
             b == x - y
             k == j - i
  <2>1. a \in Int /\ b \in Int /\ k \in Int /\ a = b + (K * k)
    BY <1>4, <1>5
  <2> HIDE DEF a, b, k
  <2>3. TimesKApart(a, b, K, k)
    BY <2>1 DEF TimesKApart
  <2>2. a % K = b % K
    BY <1>1, <2>3, SameRemainder
  <2> QED BY <2>2 DEF a, b
<1> QED BY <1>6 DEF t, u, K

\* A time taken from a time.
LEMMA TimeFrom ==
  ASSUME NEW c \in Int, NEW x \in Int
  PROVE  ((c % Modulus) + x) % Modulus = (c + x) % Modulus
BY ClockBounds, RemainderOfSum

\* What a difference within half the range says.
LEMMA WithinHalf ==
  ASSUME NEW z \in Int
  PROVE  /\ -Half <= z /\ z < Half => (z % Modulus \in 1 .. Half - 1 <=> z > 0)
         /\ -Half <= z /\ z < Half => (z % Modulus < Half <=> z >= 0)
         /\ 0 <= z /\ z < Modulus => z % Modulus = z
<1>1. Half \in Nat /\ Half > 1 /\ Modulus = 2 * Half /\ Modulus \in Nat /\ Modulus > 0
  BY ClockBounds
<1>2. 0 <= z /\ z < Modulus => z % Modulus = z
  BY <1>1, SMT
<1>3. -Half <= z /\ z < 0 => z % Modulus = z + Modulus
  <2> SUFFICES ASSUME -Half <= z, z < 0 PROVE z % Modulus = z + Modulus
    OBVIOUS
  <2>1. z + Modulus \in 0 .. Modulus - 1
    BY <1>1
  <2>2. (z + Modulus) % Modulus = z + Modulus
    BY <1>1, <2>1, SMT
  <2>3. z + Modulus = z + (Modulus * 1)
    BY <1>1
  <2>4. (z + Modulus) % Modulus = z % Modulus
    <3>1. TimesKApart(z + Modulus, z, Modulus, 1)
      BY <1>1, <2>3 DEF TimesKApart
    <3> QED BY <1>1, <3>1, SameRemainder
  <2> QED BY <2>2, <2>4
<1> DEFINE m == z % Modulus
<1>4. /\ 0 <= z /\ z < Modulus => m = z
      /\ -Half <= z /\ z < 0 => m = z + Modulus
  BY <1>2, <1>3
<1> HIDE DEF m
<1>5. /\ -Half <= z /\ z < Half => (m \in 1 .. Half - 1 <=> z > 0)
      /\ -Half <= z /\ z < Half => (m < Half <=> z >= 0)
  BY <1>1, <1>4
<1> QED BY <1>2, <1>5 DEF m

\* One time is after another.
LEMMA AfterIs ==
  ASSUME NEW c \in Int, NEW x \in Int, NEW y \in Int, -Half <= x - y, x - y < Half
  PROVE  After((c + x) % Modulus, (c + y) % Modulus) <=> x > y
<1>1. x - y \in Int
  OBVIOUS
<1>2. ((x - y) % Modulus \in 1 .. Half - 1) <=> x - y > 0
  BY <1>1, WithinHalf
<1>3. x - y > 0 <=> x > y
  OBVIOUS
<1> DEFINE t == (c + x) % Modulus
           u == (c + y) % Modulus
<1>4. (t - u) % Modulus = (x - y) % Modulus
  BY TimesApart
<1> HIDE DEF t, u
<1>5. After(t, u) <=> x > y
  BY <1>2, <1>3, <1>4 DEF After
<1> QED BY <1>5 DEF t, u

\* The clock reaches a deadline.
LEMMA DueIs ==
  ASSUME NEW c \in Time, NEW x \in Span, NEW ticks \in Nat
  PROVE  Due(c, ticks, (c + x) % Modulus) <=> x <= ticks
<1> DEFINE t == (c + x) % Modulus
<1>1. /\ Half \in Nat /\ Half > 1 /\ Modulus = 2 * Half /\ MaxLag \in Nat /\ MaxLag + 1 < Half
      /\ Time = 0 .. Modulus - 1
  BY ClockBounds
<1>2. c \in Int /\ x \in Int /\ -MaxLag <= x /\ x <= Half - MaxLag
  BY <1>1 DEF Span
<1>3. (c + 0) % Modulus = c
  BY <1>2, TimeAt
<1>4. (c - t) % Modulus = (0 - x) % Modulus
  <2>1. (((c + 0) % Modulus) - t) % Modulus = (0 - x) % Modulus
    <3> DEFINE y == 0
    <3>1. y \in Int
      OBVIOUS
    <3> HIDE DEF y
    <3>2. (((c + y) % Modulus) - ((c + x) % Modulus)) % Modulus = (y - x) % Modulus
      BY <1>2, <3>1, TimesApart
    <3> QED BY <3>2 DEF y
  <2> HIDE DEF t
  <2> QED BY <1>3, <2>1
<1>5. (t - c) % Modulus = (x - 0) % Modulus
  <2>1. (t - ((c + 0) % Modulus)) % Modulus = (x - 0) % Modulus
    <3> DEFINE y == 0
    <3>1. y \in Int
      OBVIOUS
    <3> HIDE DEF y
    <3>2. (((c + x) % Modulus) - ((c + y) % Modulus)) % Modulus = (x - y) % Modulus
      BY <1>2, <3>1, TimesApart
    <3> QED BY <3>2 DEF y
  <2> HIDE DEF t
  <2> QED BY <1>3, <2>1
<1> HIDE DEF t
<1>6. Reached(c, t) <=> x <= 0
  <2>1. (0 - x) \in Int /\ -Half <= 0 - x /\ 0 - x < Half
    BY <1>1, <1>2
  <2>2. ((0 - x) % Modulus < Half) <=> 0 - x >= 0
    BY <2>1, WithinHalf
  <2>3. 0 - x >= 0 <=> x <= 0
    BY <1>2
  <2> QED BY <1>4, <2>2, <2>3 DEF Reached
<1>7. x > 0 => (t - c) % Modulus = x
  <2>1. x > 0 => 0 <= x /\ x < Modulus /\ x - 0 = x
    BY <1>1, <1>2
  <2> QED BY <1>2, <1>5, <2>1, WithinHalf
<1>8. CASE x <= 0
  <2>1. x <= ticks
    BY <1>2, <1>8
  <2> QED BY <1>6, <1>8, <2>1 DEF Due, t
<1>9. CASE x > 0
  <2>1. (ticks >= x) <=> (x <= ticks)
    BY <1>2
  <2>2. ~(x <= 0)
    BY <1>2, <1>9
  <2>3. Due(c, ticks, t) <=> ticks >= x
    BY <1>6, <1>7, <1>9, <2>2 DEF Due
  <2> QED BY <2>1, <2>3 DEF t
<1> QED BY <1>2, <1>8, <1>9
-----------------------------------------------------------------------------
(* The first of the times asked for *)

\* n is the least value of a.
LeastOf(a, n) == (\E t \in DOMAIN a : a[t] = n) /\ \A t \in DOMAIN a : n <= a[t]

\* There is only one.
LEMMA SoonestOnly ==
  ASSUME NEW a, NEW n \in Int, LeastOf(a, n), \A t \in DOMAIN a : a[t] \in Int
  PROVE  Soonest(a) = n
<1> DEFINE V == {a[t] : t \in DOMAIN a}
           m == CHOOSE k \in V : \A t \in DOMAIN a : k <= a[t]
<1>1. n \in V /\ \A t \in DOMAIN a : n <= a[t]
  BY DEF LeastOf
<1>2. m \in V /\ \A t \in DOMAIN a : m <= a[t]
  BY <1>1
<1>3. Soonest(a) = m
  BY Zenon DEF Soonest
<1> HIDE DEF m
<1>4. PICK t \in DOMAIN a : m = a[t]
  BY <1>2
<1>5. PICK u \in DOMAIN a : n = a[u]
  BY <1>1
<1>6. m \in Int /\ m <= n /\ n <= m
  BY <1>1, <1>2, <1>4, <1>5
<1> QED BY <1>3, <1>6

\* It is in the bounds, and left of one of the times.
LEMMA SoonestIs ==
  ASSUME NEW c, NEW a, Asks(c, a), DOMAIN a # {}
  PROVE  Soonest(a) \in Span /\ LeastOf(a, Soonest(a))
<1> DEFINE V == {a[t] + MaxLag : t \in DOMAIN a}
<1>1. MaxLag \in Nat /\ Half \in Nat /\ \A t \in DOMAIN a : a[t] \in Span
  BY ClockBounds DEF Asks
<1>2. \A t \in DOMAIN a : a[t] \in Int /\ a[t] + MaxLag \in Nat
  BY <1>1 DEF Span
<1>3. V \subseteq Nat /\ V # {}
  BY <1>2
<1>4. PICK k \in V : \A j \in V : k <= j
  <2> HIDE DEF V
  <2> QED BY <1>3, LeastNatural
<1>5. PICK u \in DOMAIN a : k = a[u] + MaxLag
  BY <1>4
<1> DEFINE n == a[u]
<1>6. \A t \in DOMAIN a : n <= a[t]
  <2> TAKE t \in DOMAIN a
  <2>1. a[t] + MaxLag \in V
    OBVIOUS
  <2>2. k <= a[t] + MaxLag
    BY <1>4, <2>1
  <2> QED BY <1>1, <1>2, <1>5, <2>2
<1>7. LeastOf(a, n) /\ n \in Span /\ n \in Int
  BY <1>1, <1>2, <1>6 DEF LeastOf
<1>8. Soonest(a) = n
  <2> HIDE DEF n
  <2> QED BY <1>2, <1>7, SoonestOnly
<1> QED BY <1>7, <1>8

\* a, so many ticks later.
Later(a, b, ticks) == DOMAIN b = DOMAIN a /\ \A t \in DOMAIN a : b[t] = a[t] - ticks

\* As ticks go by there are that many less.
LEMMA SoonestLater ==
  ASSUME NEW c, NEW a, Asks(c, a), DOMAIN a # {}, NEW b, NEW ticks \in Nat, Later(a, b, ticks)
  PROVE  Soonest(b) = Soonest(a) - ticks
<1> DEFINE n == Soonest(a)
<1>1. n \in Int /\ \A t \in DOMAIN a : a[t] \in Int
  <2>1. n \in Span /\ \A t \in DOMAIN a : a[t] \in Span
    BY SoonestIs DEF Asks
  <2> QED BY <2>1, ClockBounds DEF Span
<1>2. LeastOf(a, n)
  BY SoonestIs
<1> HIDE DEF n
<1>3. DOMAIN b = DOMAIN a /\ \A t \in DOMAIN b : b[t] = a[t] - ticks /\ b[t] \in Int
  BY <1>1 DEF Later
<1>4. LeastOf(b, n - ticks)
  <2>1. PICK u \in DOMAIN a : a[u] = n
    BY <1>2 DEF LeastOf
  <2>2. b[u] = n - ticks /\ u \in DOMAIN b
    BY <1>3, <2>1
  <2>3. \A t \in DOMAIN b : n - ticks <= b[t]
    BY <1>1, <1>2, <1>3 DEF LeastOf
  <2> QED BY <2>2, <2>3 DEF LeastOf
<1>5. n - ticks \in Int
  BY <1>1
<1> QED BY <1>3, <1>4, <1>5, SoonestOnly DEF n

\* Later, the clock is where the times say.
LEMMA AsksLater ==
  ASSUME NEW c \in Time, NEW a, Asks(c, a), NEW b, NEW ticks \in Nat, Later(a, b, ticks),
         \A t \in DOMAIN b : b[t] >= -MaxLag
  PROVE  Asks((c + ticks) % Modulus, b)
<1> SUFFICES ASSUME NEW t \in DOMAIN b
             PROVE  b[t] \in Span /\ t = (((c + ticks) % Modulus) + b[t] - 1) % Modulus
  BY DEF Asks, Later
<1>1. c \in Int /\ MaxLag \in Nat /\ Half \in Nat
  BY ClockBounds
<1>2. t \in DOMAIN a /\ b[t] = a[t] - ticks /\ a[t] \in Span /\ t = (c + a[t] - 1) % Modulus
      /\ b[t] >= -MaxLag
  BY DEF Asks, Later
<1>3. a[t] \in Int /\ b[t] \in Int /\ b[t] \in Span
  BY <1>1, <1>2 DEF Span
<1> DEFINE x == a[t]
           y == b[t]
           k == c + ticks
           z == y - 1
<1>4. k \in Int /\ z \in Int /\ k + z = c + x - 1
  BY <1>1, <1>2, <1>3
<1>5. ((k % Modulus) + z) % Modulus = (k + z) % Modulus
  <2> HIDE DEF k, z
  <2> QED BY <1>4, TimeFrom
<1>6. (k % Modulus) \in Int
  <2> HIDE DEF k
  <2> QED BY <1>4, TimeAt, ClockBounds
<1>7. (k % Modulus) + z = (k % Modulus) + y - 1
  <2> DEFINE r == k % Modulus
  <2> HIDE DEF r
  <2>1. r \in Int
    BY <1>6 DEF r
  <2>2. r + (y - 1) = r + y - 1
    BY <1>3, <2>1
  <2> QED BY <2>2 DEF r
<1> QED BY <1>2, <1>3, <1>4, <1>5, <1>7

-----------------------------------------------------------------------------
(* Sequences of processes *)

\* From a place on.
LEMMA RestIs ==
  ASSUME NEW ws \in Seq(Proc), NEW n \in Nat, n >= 1, n <= Len(ws) + 1
  PROVE  LET r == SubSeq(ws, n, Len(ws))
         IN  /\ r \in Seq(Proc) /\ Len(r) = Len(ws) - n + 1
             /\ \A i \in 1 .. Len(r) : r[i] = ws[n + i - 1]
<1> DEFINE k == Len(ws)
           r == SubSeq(ws, n, k)
<1>1. k \in Nat /\ \A i \in 1 .. k : ws[i] \in Proc
  BY LenProperties, ElementOfSeq
<1> HIDE DEF k
<1>2. \A i \in n .. k : ws[i] \in Proc
  BY <1>1
<1>3. n \in Int /\ k \in Int
  BY <1>1
<1>4. /\ r \in Seq(Proc) /\ Len(r) = IF n <= k THEN k - n + 1 ELSE 0
      /\ \A i \in 1 .. k - n + 1 : r[i] = ws[n + i - 1]
  BY <1>2, <1>3, SubSeqProperties
<1>5. n <= k + 1
  BY DEF k
<1> HIDE DEF r
<1>6. Len(r) = k - n + 1
  BY <1>1, <1>4, <1>5
<1> QED BY <1>4, <1>6 DEF r, k

\* Up to a place.
LEMMA StartIs ==
  ASSUME NEW ws \in Seq(Proc), NEW n \in Nat, n >= 1, n <= Len(ws) + 1
  PROVE  LET r == SubSeq(ws, 1, n - 1)
         IN  /\ r \in Seq(Proc) /\ Len(r) = n - 1
             /\ \A i \in 1 .. n - 1 : r[i] = ws[i]
<1> DEFINE k == Len(ws)
           m == n - 1
           r == SubSeq(ws, 1, m)
<1>1. k \in Nat /\ \A i \in 1 .. k : ws[i] \in Proc
  BY LenProperties, ElementOfSeq
<1>2. m \in Nat /\ m <= k
  BY <1>1
<1> HIDE DEF k, m
<1>3. \A i \in 1 .. m : ws[i] \in Proc
  BY <1>1, <1>2
<1>4. /\ r \in Seq(Proc) /\ Len(r) = IF 1 <= m THEN m - 1 + 1 ELSE 0
      /\ \A i \in 1 .. m - 1 + 1 : r[i] = ws[1 + i - 1]
  BY <1>2, <1>3, SubSeqProperties
<1> HIDE DEF r
<1>5. Len(r) = m /\ m - 1 + 1 = m
  BY <1>2, <1>4
<1>6. \A i \in 1 .. m : 1 + i - 1 = i
  BY <1>2
<1> QED BY <1>4, <1>5, <1>6 DEF r, m

\* r is ws with p at place n.
Inserted(ws, n, p, r) ==
  /\ r \in Seq(Proc) /\ Len(r) = Len(ws) + 1
  /\ \A i \in 1 .. Len(r) : r[i] = IF i < n THEN ws[i] ELSE IF i = n THEN p ELSE ws[i - 1]

\* SubSeq and concatenation put it there.
LEMMA InsertedIs ==
  ASSUME NEW ws \in Seq(Proc), NEW n \in Nat, n >= 1, n <= Len(ws) + 1, NEW p \in Proc
  PROVE  LET r == SubSeq(ws, 1, n - 1) \o <<p>> \o SubSeq(ws, n, Len(ws))
         IN  Inserted(ws, n, p, r)
<1> DEFINE k == Len(ws)
           a == SubSeq(ws, 1, n - 1)
           b == SubSeq(ws, n, k)
           o == <<p>>
           m == a \o o
           r == m \o b
<1>1. k \in Nat /\ n <= k + 1
  BY LenProperties
<1>2. a \in Seq(Proc) /\ Len(a) = n - 1 /\ \A i \in 1 .. n - 1 : a[i] = ws[i]
  BY StartIs
<1>3. b \in Seq(Proc) /\ Len(b) = k - n + 1 /\ \A i \in 1 .. Len(b) : b[i] = ws[n + i - 1]
  BY RestIs
<1>4. o \in Seq(Proc) /\ Len(o) = 1 /\ o[1] = p
  OBVIOUS
<1> HIDE DEF a, b, o, k
<1>5. /\ m \in Seq(Proc) /\ Len(m) = Len(a) + Len(o)
      /\ \A i \in 1 .. Len(a) + Len(o) : m[i] = IF i <= Len(a) THEN a[i] ELSE o[i - Len(a)]
  BY <1>2, <1>4, ConcatProperties
<1> HIDE DEF m
<1>6. Len(m) = n /\ \A i \in 1 .. n : m[i] = IF i < n THEN ws[i] ELSE p
  <2>1. Len(a) + Len(o) = n
    BY <1>2, <1>4
  <2>2. ASSUME NEW i \in 1 .. n, i < n PROVE m[i] = ws[i]
    <3>1. i \in 1 .. n - 1 /\ i <= Len(a) /\ i \in 1 .. Len(a) + Len(o)
      BY <1>2, <2>1, <2>2
    <3> QED BY <1>2, <1>5, <3>1
  <2>3. m[n] = p
    <3>1. ~(n <= Len(a)) /\ n - Len(a) = 1 /\ n \in 1 .. n
      BY <1>2
    <3> QED BY <1>4, <1>5, <2>1, <3>1
  <2> QED BY <1>5, <2>1, <2>2, <2>3
<1>7. /\ r \in Seq(Proc) /\ Len(r) = Len(m) + Len(b)
      /\ \A i \in 1 .. Len(m) + Len(b) : r[i] = IF i <= Len(m) THEN m[i] ELSE b[i - Len(m)]
  <2>1. m \in Seq(Proc) /\ b \in Seq(Proc)
    BY <1>3, <1>5
  <2> QED BY <2>1, ConcatProperties, SMTT(40)
<1> HIDE DEF r
<1>8. Len(r) = k + 1 /\ Len(m) + Len(b) = k + 1
  BY <1>1, <1>3, <1>6, <1>7
<1>9. ASSUME NEW i \in 1 .. k + 1
      PROVE  r[i] = IF i < n THEN ws[i] ELSE IF i = n THEN p ELSE ws[i - 1]
  <2>1. CASE i <= n
    BY <1>6, <1>7, <1>8, <2>1
  <2>2. CASE i > n
    <3>1. i - n \in 1 .. Len(b) /\ n + (i - n) - 1 = i - 1 /\ ~(i <= n)
      BY <1>1, <1>3, <2>2
    <3>2. r[i] = b[i - n]
      BY <1>6, <1>7, <1>8, <3>1
    <3>3. b[i - n] = ws[i - 1]
      BY <1>3, <3>1
    <3> QED BY <2>2, <3>2, <3>3
  <2> QED BY <1>1, <2>1, <2>2
<1>10. Inserted(ws, n, p, r)
  BY <1>7, <1>8, <1>9 DEF Inserted, k
<1> QED BY <1>10 DEF r, m, a, b, o, k

\* With one less.
LEMMA DeletedIs ==
  ASSUME NEW ws \in Seq(Proc), NEW n \in Nat, n >= 1, n <= Len(ws)
  PROVE  LET r == SubSeq(ws, 1, n - 1) \o SubSeq(ws, n + 1, Len(ws))
         IN  /\ r \in Seq(Proc) /\ Len(r) = Len(ws) - 1
             /\ \A i \in 1 .. Len(ws) - 1 : r[i] = IF i < n THEN ws[i] ELSE ws[i + 1]
<1> DEFINE k == Len(ws)
           a == SubSeq(ws, 1, n - 1)
           b == SubSeq(ws, n + 1, k)
           r == a \o b
<1>1. k \in Nat /\ n <= k /\ n <= k + 1
  BY LenProperties
<1>2. a \in Seq(Proc) /\ Len(a) = n - 1 /\ \A i \in 1 .. n - 1 : a[i] = ws[i]
  BY <1>1, StartIs
<1>3. b \in Seq(Proc) /\ Len(b) = k - (n + 1) + 1 /\ \A i \in 1 .. Len(b) : b[i] = ws[(n + 1) + i - 1]
  <2> DEFINE h == n + 1
  <2>1. h \in Nat /\ h >= 1 /\ h <= k + 1
    BY <1>1
  <2> HIDE DEF h
  <2>2. LET x == SubSeq(ws, h, k)
        IN  x \in Seq(Proc) /\ Len(x) = k - h + 1 /\ \A i \in 1 .. Len(x) : x[i] = ws[h + i - 1]
    BY <2>1, RestIs
  <2> QED BY <2>2 DEF h
<1> HIDE DEF a, b, k
<1>4. Len(b) = k - n
  BY <1>1, <1>3
<1>5. /\ r \in Seq(Proc) /\ Len(r) = Len(a) + Len(b)
      /\ \A i \in 1 .. Len(a) + Len(b) : r[i] = IF i <= Len(a) THEN a[i] ELSE b[i - Len(a)]
  BY <1>2, <1>3, ConcatProperties
<1> HIDE DEF r
<1>6. Len(r) = k - 1 /\ Len(a) + Len(b) = k - 1
  BY <1>1, <1>2, <1>4, <1>5
<1>7. ASSUME NEW i \in 1 .. k - 1
      PROVE  r[i] = IF i < n THEN ws[i] ELSE ws[i + 1]
  <2>1. CASE i < n
    <3>1. i \in 1 .. n - 1 /\ i <= Len(a) /\ i \in 1 .. Len(a) + Len(b)
      BY <1>2, <1>6, <2>1
    <3>2. r[i] = a[i]
      BY <1>5, <3>1
    <3> QED BY <1>2, <2>1, <3>1, <3>2
  <2>2. CASE ~(i < n)
    <3>1. i - Len(a) \in 1 .. Len(b) /\ (n + 1) + (i - Len(a)) - 1 = i + 1 /\ ~(i <= Len(a))
      BY <1>1, <1>2, <1>4, <2>2
    <3>2. r[i] = b[i - Len(a)]
      BY <1>5, <1>6, <3>1
    <3>3. b[i - Len(a)] = ws[i + 1]
      BY <1>3, <3>1
    <3> QED BY <2>2, <3>2, <3>3
  <2> QED BY <2>1, <2>2
<1> QED BY <1>5, <1>6, <1>7 DEF r, a, b, k

-----------------------------------------------------------------------------
(* Walks of the list *)

\* The walk is the list, and ends.
Walks(walk, ws) ==
  /\ DOMAIN walk = 1 .. Cardinality(Proc) + 1 /\ Cardinality(Proc) \in Nat
  /\ Len(ws) <= Cardinality(Proc)
  /\ \A n \in 1 .. Cardinality(Proc) + 1 : walk[n] = IF n <= Len(ws) THEN ws[n] ELSE NoProcess

\* Entries that differ are no more than there are processes.
LEMMA ListFits ==
  ASSUME NEW ws \in Seq(Proc), \A i, j \in 1 .. Len(ws) : ws[i] = ws[j] => i = j
  PROVE  Len(ws) <= Cardinality(Proc) /\ Cardinality(Proc) \in Nat
<1> DEFINE k == Len(ws)
           S == 1 .. k
<1>1. k \in Nat /\ DOMAIN ws = S /\ ws \in [S -> Proc]
  BY LenProperties, ElementOfSeq
<1>2. IsFiniteSet(Proc) /\ Cardinality(Proc) \in Nat
  BY TimerAssumption, FS_CardinalityType
<1>3. IsFiniteSet(S) /\ Cardinality(S) = k
  <2>1. IsFiniteSet(1 .. k) /\ Cardinality(1 .. k) = IF 1 > k THEN 0 ELSE k - 1 + 1
    BY <1>1, FS_Interval
  <2> QED BY <1>1, <2>1
<1>4. \A i, j \in S : i # j => ws[i] # ws[j]
  OBVIOUS
<1> HIDE DEF k, S
<1>5. ~(Cardinality(Proc) < Cardinality(S))
  BY <1>1, <1>2, <1>3, <1>4, FS_PigeonHole
<1> QED BY <1>1, <1>2, <1>3, <1>5 DEF k

\* The links lead from the front through the whole list.
LEMMA WalkIs ==
  ASSUME NEW q, ListTyped(q), Linked(q.tlink, q.tptr, q.sleepers)
  PROVE  Walks(Walk(q), q.sleepers)
<1> DEFINE ws == q.sleepers
           k == Len(ws)
           N == Cardinality(Proc)
           D == 1 .. N + 1
           w == [n \in D |-> IF n <= k THEN ws[n] ELSE NoProcess]
           F(g) == [n \in D |-> IF n = 1 THEN q.tptr
                                ELSE IF g[n - 1] \in Proc THEN q.tlink[g[n - 1]] ELSE NoProcess]
           a == Walk(q)
<1>1. ws \in Seq(Proc) /\ k \in Nat /\ \A i \in 1 .. k : ws[i] \in Proc
  BY LenProperties, ElementOfSeq DEF ListTyped, Lists
<1>2. N \in Nat /\ k <= N
  BY <1>1, ListFits DEF Linked
<1>3. /\ q.tptr = IF k = 0 THEN NoProcess ELSE ws[1]
      /\ \A i \in 1 .. k : q.tlink[ws[i]] = IF i = k THEN NoProcess ELSE ws[i + 1]
  BY DEF Linked
<1>4. NoProcess \notin Proc
  BY TimerAssumption
<1> HIDE DEF ws, k, N
<1>5. w = F(w)
  <2> SUFFICES ASSUME NEW n \in D PROVE w[n] = F(w)[n]
    OBVIOUS
  <2>1. CASE n = 1
    BY <1>1, <1>3, <2>1
  <2>2. CASE n # 1 /\ n - 1 <= k
    <3>1. n - 1 \in D /\ n - 1 \in 1 .. k /\ n - 1 + 1 = n
      BY <1>1, <1>2, <2>2
    <3>2. w[n - 1] = ws[n - 1] /\ w[n - 1] \in Proc
      BY <1>1, <2>2, <3>1
    <3>3. q.tlink[ws[n - 1]] = IF n - 1 = k THEN NoProcess ELSE ws[n]
      BY <1>3, <3>1
    <3>4. w[n] = IF n - 1 = k THEN NoProcess ELSE ws[n]
      BY <1>1, <1>2, <2>2, <3>1
    <3>5. F(w)[n] = q.tlink[w[n - 1]]
      BY <2>2, <3>2
    <3> HIDE DEF w, F
    <3> QED BY <3>2, <3>3, <3>4, <3>5
  <2>3. CASE n # 1 /\ ~(n - 1 <= k)
    <3>1. n - 1 \in D /\ ~(n <= k)
      BY <1>1, <1>2, <2>3
    <3> QED BY <1>4, <2>3, <3>1
  <2> QED BY <2>1, <2>2, <2>3
<1>6. a = F(a)
  <2>1. a = CHOOSE g : g = F(g)
    BY DEF Walk, N
  <2> HIDE DEF F, w, a
  <2> QED BY <1>5, <2>1
<1>7. ASSUME NEW n \in D PROVE a[n] = w[n]
  <2> DEFINE T == {m \in 0 .. N : a[m + 1] = w[m + 1]}
  <2>1. 0 \in T
    <3>1. 1 \in D
      BY <1>2
    <3>2. F(a)[1] = q.tptr /\ F(w)[1] = q.tptr
      BY <3>1
    <3> HIDE DEF F, a, w
    <3> QED BY <1>2, <1>5, <1>6, <3>2
  <2>2. ASSUME NEW m \in 1 .. N, m - 1 \in T PROVE m \in T
    <3>1. m + 1 \in D /\ m + 1 # 1 /\ (m + 1) - 1 = m /\ m - 1 + 1 = m
      BY <1>2
    <3>2. a[m] = w[m]
      BY <2>2, <3>1
    <3>3. F(a)[m + 1] = F(w)[m + 1]
      BY <3>1, <3>2
    <3> HIDE DEF F, a, w
    <3> QED BY <1>2, <1>5, <1>6, <3>3
  <2>3. 0 .. N \subseteq T
    <3> HIDE DEF T
    <3> QED BY <1>2, <2>1, <2>2, UpTo
  <2>4. n - 1 \in 0 .. N /\ n - 1 + 1 = n
    BY <1>2
  <2>5. n - 1 \in T
    <3> HIDE DEF T
    <3> QED BY <2>3, <2>4
  <2>6. a[n - 1 + 1] = w[n - 1 + 1]
    BY <2>5
  <2> HIDE DEF a, w
  <2> QED BY <2>4, <2>6
<1>8. DOMAIN a = D
  <2>1. DOMAIN F(a) = D
    OBVIOUS
  <2> HIDE DEF F, a
  <2> QED BY <1>6, <2>1
<1>9. \A n \in D : w[n] = IF n <= k THEN ws[n] ELSE NoProcess
  OBVIOUS
<1> HIDE DEF w, a
<1> QED BY <1>2, <1>7, <1>8, <1>9 DEF Walks, a, ws, k, N

\* n is the first place of ws with one of the processes, or the place behind it.
PlaceIs(n, ws, processes) ==
  /\ n \in Nat /\ n >= 1 /\ n <= Len(ws) + 1
  /\ n <= Len(ws) => ws[n] \in processes
  /\ \A m \in 1 .. n - 1 : m \in 1 .. Len(ws) /\ ws[m] \notin processes

\* The walk stops there.
LEMMA FirstPlaceIs ==
  ASSUME NEW walk, NEW ws \in Seq(Proc), Walks(walk, ws), NEW S, S \subseteq Proc
  PROVE  PlaceIs(FirstPlace(walk, S), ws, S)
<1> DEFINE k == Len(ws)
           N == Cardinality(Proc)
           D == 1 .. N + 1
           Stops(n) == walk[n] \in S \union {NoProcess}
           T == {n \in D : Stops(n)}
           x == FirstPlace(walk, S)
<1>1. k \in Nat /\ N \in Nat /\ k <= N /\ \A i \in 1 .. k : ws[i] \in Proc
  BY LenProperties, ElementOfSeq DEF Walks
<1>2. DOMAIN walk = D /\ \A n \in D : walk[n] = IF n <= k THEN ws[n] ELSE NoProcess
  BY DEF Walks
<1>3. NoProcess \notin Proc
  BY TimerAssumption
<1> HIDE DEF k, N
<1>4. k + 1 \in D /\ Stops(k + 1)
  BY <1>1, <1>2
<1>5. T \subseteq Nat /\ T # {}
  BY <1>1, <1>4
<1>6. PICK n \in T : \A m \in T : n <= m
  <2> HIDE DEF T
  <2> QED BY <1>5, LeastNatural
<1>7. n \in D /\ Stops(n) /\ \A m \in 1 .. n - 1 : ~Stops(m)
  BY <1>1, <1>6
<1>8. x \in D /\ Stops(x) /\ \A m \in 1 .. x - 1 : ~Stops(m)
  <2>1. x = CHOOSE i \in DOMAIN walk : Stops(i) /\ \A m \in 1 .. i - 1 : ~Stops(m)
    BY DEF FirstPlace
  <2> HIDE DEF x, Stops
  <2> QED BY <1>2, <1>7, <2>1
<1> HIDE DEF x, T
<1>9. x <= k + 1
  <2> SUFFICES ASSUME ~(x <= k + 1) PROVE FALSE
    OBVIOUS
  <2>1. k + 1 \in 1 .. x - 1
    BY <1>1, <1>8
  <2> QED BY <1>4, <1>8, <2>1
<1>10. ASSUME x <= k PROVE ws[x] \in S
  BY <1>1, <1>2, <1>3, <1>8, <1>10
<1>11. ASSUME NEW m \in 1 .. x - 1 PROVE m \in 1 .. k /\ ws[m] \notin S
  <2>1. m \in D /\ m <= k
    BY <1>1, <1>8, <1>9
  <2> QED BY <1>1, <1>2, <1>8, <2>1
<1>12. x \in Nat /\ x >= 1
  BY <1>1, <1>8
<1> QED BY <1>9, <1>10, <1>11, <1>12 DEF PlaceIs, k, x

\* The walk of the list of a program that has not taken it out stops there.
LEMMA PlaceInList ==
  ASSUME NEW q, ListTyped(q), Linked(q.tlink, q.tptr, q.sleepers), NEW S, S \subseteq Proc
  PROVE  LET n  == FirstPlace(Walk(q), S)
             ws == q.sleepers
         IN  /\ PlaceIs(n, ws, S) /\ ws \in Seq(Proc)
             /\ Walk(q)[n] = IF n <= Len(ws) THEN ws[n] ELSE NoProcess
             /\ \A m \in 1 .. n - 1 : Walk(q)[m] = ws[m]
<1> DEFINE walk == Walk(q)
           ws == q.sleepers
           n == FirstPlace(walk, S)
<1>1. ws \in Seq(Proc) /\ Walks(walk, ws)
  BY WalkIs DEF ListTyped, Lists
<1> HIDE DEF walk, ws
<1>2. PlaceIs(n, ws, S)
  BY <1>1, FirstPlaceIs
<1> HIDE DEF n
<1>3. Len(ws) \in Nat
  BY <1>1, LenProperties
<1>4. walk[n] = IF n <= Len(ws) THEN ws[n] ELSE NoProcess
  BY <1>1, <1>2, <1>3 DEF Walks, PlaceIs
<1>5. ASSUME NEW m \in 1 .. n - 1 PROVE walk[m] = ws[m]
  <2>1. m \in 1 .. Len(ws)
    BY <1>2 DEF PlaceIs
  <2>2. m \in 1 .. Cardinality(Proc) + 1 /\ m <= Len(ws)
    BY <1>1, <1>3, <2>1 DEF Walks
  <2> QED BY <1>1, <2>2 DEF Walks
<1> QED BY <1>1, <1>2, <1>4, <1>5 DEF n, walk, ws

-----------------------------------------------------------------------------
(* Changes of the list *)

\* r is ws from place n on.
Rest(ws, n, r) ==
  /\ r \in Seq(Proc) /\ Len(r) = Len(ws) - n + 1
  /\ \A i \in 1 .. Len(r) : r[i] = ws[n + i - 1]

\* r is ws without place n.
Without(ws, n, r) ==
  /\ r \in Seq(Proc) /\ Len(r) = Len(ws) - 1
  /\ \A i \in 1 .. Len(r) : r[i] = IF i < n THEN ws[i] ELSE ws[i + 1]

\* n is a place of ws, or the one behind it.
Place(ws, n) == n \in Nat /\ n >= 1 /\ n <= Len(ws) + 1

\* What the list holds with one more.
LEMMA InsertedHolds ==
  ASSUME NEW ws \in Seq(Proc), NEW n, Place(ws, n), NEW p \in Proc, NEW r, Inserted(ws, n, p, r),
         NEW x
  PROVE  Holds(r, x) <=> (Holds(ws, x) \/ x = p)
<1> DEFINE k == Len(ws)
<1>1. k \in Nat /\ n \in Nat /\ n >= 1 /\ n <= k + 1 /\ Len(r) = k + 1
  BY LenProperties DEF Place, Inserted
<1>2. \A i \in 1 .. k + 1 : r[i] = IF i < n THEN ws[i] ELSE IF i = n THEN p ELSE ws[i - 1]
  BY <1>1 DEF Inserted
<1> HIDE DEF k
<1>3. ASSUME NEW i \in 1 .. k + 1, r[i] = x PROVE x = p \/ \E j \in 1 .. k : ws[j] = x
  <2>1. CASE i < n
    <3>1. i \in 1 .. k /\ ws[i] = x
      BY <1>1, <1>2, <1>3, <2>1
    <3> QED BY <3>1
  <2>2. CASE i = n
    BY <1>2, <1>3, <2>2
  <2>3. CASE i > n
    <3>1. i - 1 \in 1 .. k /\ ~(i < n) /\ i # n
      BY <1>1, <2>3
    <3>2. ws[i - 1] = x
      BY <1>2, <1>3, <3>1
    <3> QED BY <3>1, <3>2
  <2> QED BY <1>1, <2>1, <2>2, <2>3
<1>4. ASSUME NEW j \in 1 .. k, ws[j] = x PROVE \E i \in 1 .. k + 1 : r[i] = x
  <2>1. CASE j < n
    <3>1. j \in 1 .. k + 1
      BY <1>1
    <3> QED BY <1>2, <1>4, <2>1, <3>1
  <2>2. CASE ~(j < n)
    <3>1. j + 1 \in 1 .. k + 1 /\ ~(j + 1 < n) /\ j + 1 # n /\ j + 1 - 1 = j
      BY <1>1, <2>2
    <3>2. r[j + 1] = x
      BY <1>2, <1>4, <3>1
    <3> QED BY <3>1, <3>2
  <2> QED BY <2>1, <2>2
<1>5. n \in 1 .. k + 1 /\ r[n] = p
  BY <1>1, <1>2
<1>6. Holds(r, x) <=> \E i \in 1 .. k + 1 : r[i] = x
  BY <1>1 DEF Holds
<1>7. Holds(ws, x) <=> \E j \in 1 .. k : ws[j] = x
  BY DEF Holds, k
<1> QED BY <1>3, <1>4, <1>5, <1>6, <1>7

\* The links that insert p at place n.
InsertLinks(link, ws, n, p, to) ==
  \A x \in Proc : to[x] = IF x = p THEN (IF n <= Len(ws) THEN ws[n] ELSE NoProcess)
                          ELSE IF n > 1 /\ x = ws[n - 1] THEN p ELSE link[x]

\* They link the list with one more.
LEMMA InsertedLinked ==
  ASSUME NEW ws \in Seq(Proc), NEW n, Place(ws, n), NEW p \in Proc, ~Holds(ws, p),
         NEW r, Inserted(ws, n, p, r), NEW link, NEW front, Linked(link, front, ws),
         NEW to, InsertLinks(link, ws, n, p, to)
  PROVE  Linked(to, IF n = 1 THEN p ELSE front, r)
<1> DEFINE k == Len(ws)
           first == IF n = 1 THEN p ELSE front
<1>1. /\ k \in Nat /\ n \in Nat /\ n >= 1 /\ n <= k + 1 /\ Len(r) = k + 1
      /\ \A i \in 1 .. k : ws[i] \in Proc /\ ws[i] # p
  BY LenProperties, ElementOfSeq DEF Place, Inserted, Holds
<1>2. \A i \in 1 .. k + 1 : r[i] = IF i < n THEN ws[i] ELSE IF i = n THEN p ELSE ws[i - 1]
  BY <1>1 DEF Inserted
<1>3. /\ front = IF k = 0 THEN NoProcess ELSE ws[1]
      /\ \A i \in 1 .. k : link[ws[i]] = IF i = k THEN NoProcess ELSE ws[i + 1]
      /\ \A i, j \in 1 .. k : ws[i] = ws[j] => i = j
  BY DEF Linked
<1>4. \A x \in Proc : to[x] = IF x = p THEN (IF n <= k THEN ws[n] ELSE NoProcess)
                              ELSE IF n > 1 /\ x = ws[n - 1] THEN p ELSE link[x]
  BY DEF InsertLinks
<1> HIDE DEF k
<1>5. first = r[1]
  <2>1. CASE n = 1
    BY <1>1, <1>2, <2>1
  <2>2. CASE n # 1
    <3>1. 1 < n /\ k # 0 /\ 1 \in 1 .. k + 1
      BY <1>1, <2>2
    <3> QED BY <1>2, <1>3, <2>2, <3>1
  <2> QED BY <2>1, <2>2
<1>6. ASSUME NEW i \in 1 .. k + 1
      PROVE  to[r[i]] = IF i = k + 1 THEN NoProcess ELSE r[i + 1]
  <2>1. CASE i = n
    <3>1. r[i] = p /\ to[p] = IF n <= k THEN ws[n] ELSE NoProcess
      BY <1>2, <1>4, <2>1
    <3>2. n <= k => n + 1 \in 1 .. k + 1 /\ ~(n + 1 < n) /\ n + 1 # n /\ n + 1 - 1 = n /\ n # k + 1
      BY <1>1
    <3>3. n <= k => r[n + 1] = ws[n]
      <4> DEFINE m == n + 1
      <4>1. n <= k => m \in 1 .. k + 1 /\ ~(m < n) /\ m # n /\ m - 1 = n
        BY <1>1, <3>2
      <4> HIDE DEF m
      <4>2. n <= k => r[m] = ws[n]
        BY <1>2, <4>1
      <4> QED BY <4>2 DEF m
    <3>4. ~(n <= k) => n = k + 1
      BY <1>1
    <3> QED BY <2>1, <3>1, <3>2, <3>3, <3>4
  <2>2. CASE i < n
    <3>1. i \in 1 .. k /\ i + 1 \in 1 .. k + 1 /\ i # k + 1 /\ n > 1
      BY <1>1, <2>2
    <3>2. r[i] = ws[i] /\ ws[i] \in Proc /\ ws[i] # p
      BY <1>1, <1>2, <2>2, <3>1
    <3>3. CASE i = n - 1
      <4>1. i + 1 = n /\ ~(i + 1 < n)
        BY <1>1, <3>3
      <4>2. r[i + 1] = p
        BY <1>2, <3>1, <4>1
      <4>3. to[ws[i]] = p
        BY <1>4, <3>1, <3>2, <3>3
      <4> QED BY <3>1, <3>2, <4>2, <4>3
    <3>4. CASE i # n - 1
      <4>1. i + 1 < n /\ n - 1 \in 1 .. k /\ i # k
        BY <1>1, <2>2, <3>4
      <4>2. ws[i] # ws[n - 1]
        BY <1>3, <3>1, <3>4, <4>1
      <4>3. to[ws[i]] = link[ws[i]]
        BY <1>4, <3>2, <4>2
      <4>4. link[ws[i]] = ws[i + 1] /\ r[i + 1] = ws[i + 1]
        BY <1>2, <1>3, <3>1, <4>1
      <4> QED BY <3>1, <3>2, <4>3, <4>4
    <3> QED BY <3>3, <3>4
  <2>3. CASE i > n
    <3> DEFINE j == i - 1
    <3>1. j \in 1 .. k /\ ~(i < n) /\ i # n /\ i = j + 1 /\ j >= n
      BY <1>1, <2>3
    <3>2. r[i] = ws[j] /\ ws[j] \in Proc /\ ws[j] # p
      BY <1>1, <1>2, <3>1
    <3>3. n > 1 => n - 1 \in 1 .. k /\ n - 1 # j
      BY <1>1, <3>1
    <3>4. to[ws[j]] = link[ws[j]]
      <4>1. n > 1 => ws[n - 1] # ws[j]
        BY <1>3, <3>1, <3>3
      <4> HIDE DEF j
      <4> QED BY <1>4, <3>2, <4>1
    <3>5. link[ws[j]] = IF j = k THEN NoProcess ELSE ws[j + 1]
      BY <1>3, <3>1
    <3>6. CASE j = k
      BY <1>1, <3>1, <3>2, <3>4, <3>5, <3>6
    <3>7. CASE j # k
      <4>1. i + 1 \in 1 .. k + 1 /\ ~(i + 1 < n) /\ i + 1 # n /\ i + 1 - 1 = j + 1 /\ i # k + 1
        BY <1>1, <3>1, <3>7
      <4>2. r[i + 1] = ws[j + 1]
        BY <1>2, <4>1
      <4> QED BY <3>2, <3>4, <3>5, <3>7, <4>1, <4>2
    <3> QED BY <3>6, <3>7
  <2> QED BY <1>1, <2>1, <2>2, <2>3
<1>7. ASSUME NEW i \in 1 .. k + 1, NEW j \in 1 .. k + 1, i < j PROVE r[i] # r[j]
  <2>1. CASE j = n
    <3>1. i < n /\ i \in 1 .. k
      BY <1>1, <1>7, <2>1
    <3> QED BY <1>1, <1>2, <2>1, <3>1
  <2>2. CASE j < n
    <3>1. i < n /\ i \in 1 .. k /\ j \in 1 .. k /\ i # j
      BY <1>1, <1>7, <2>2
    <3> QED BY <1>2, <1>3, <2>2, <3>1
  <2>3. CASE j > n
    <3>1. j - 1 \in 1 .. k /\ ~(j < n) /\ j # n
      BY <1>1, <2>3
    <3>2. r[j] = ws[j - 1]
      BY <1>2, <3>1
    <3>3. CASE i = n
      BY <1>1, <1>2, <3>1, <3>2, <3>3
    <3>4. CASE i < n
      <4>1. i \in 1 .. k /\ i # j - 1
        BY <1>1, <3>4, <2>3
      <4> QED BY <1>2, <1>3, <3>1, <3>2, <3>4, <4>1
    <3>5. CASE i > n
      <4>1. i - 1 \in 1 .. k /\ i - 1 # j - 1 /\ ~(i < n) /\ i # n
        BY <1>1, <1>7, <3>5
      <4>2. r[i] = ws[i - 1]
        BY <1>2, <4>1
      <4> QED BY <1>3, <3>1, <3>2, <4>1, <4>2
    <3> QED BY <1>1, <3>3, <3>4, <3>5
  <2> QED BY <1>1, <2>1, <2>2, <2>3
<1>8. \A i, j \in 1 .. k + 1 : r[i] = r[j] => i = j
  <2> TAKE i, j \in 1 .. k + 1
  <2>1. i < j \/ j < i \/ i = j
    BY <1>1
  <2> QED BY <1>7, <2>1
<1>9. k + 1 # 0
  BY <1>1
<1> HIDE DEF first
<1>10. Linked(to, first, r)
  BY <1>1, <1>5, <1>6, <1>8, <1>9 DEF Linked
<1> QED BY <1>10 DEF first

\* What the list holds from a place on.
LEMMA RestHolds ==
  ASSUME NEW ws \in Seq(Proc), NEW n, Place(ws, n), NEW r, Rest(ws, n, r),
         \A i, j \in 1 .. Len(ws) : ws[i] = ws[j] => i = j, NEW x
  PROVE  Holds(r, x) <=> (Holds(ws, x) /\ \A m \in 1 .. n - 1 : ws[m] # x)
<1> DEFINE k == Len(ws)
           h == Len(r)
<1>1. k \in Nat /\ n \in Nat /\ n >= 1 /\ n <= k + 1 /\ h = k - n + 1
  BY LenProperties DEF Place, Rest
<1>2. /\ \A i \in 1 .. h : r[i] = ws[n + i - 1]
      /\ \A i, j \in 1 .. k : ws[i] = ws[j] => i = j
  BY DEF Rest
<1> HIDE DEF k, h
<1>3. ASSUME NEW i \in 1 .. h, r[i] = x
      PROVE  (\E j \in 1 .. k : ws[j] = x) /\ \A m \in 1 .. n - 1 : ws[m] # x
  <2> DEFINE j == n + i - 1
  <2>1. j \in 1 .. k /\ ws[j] = x /\ j >= n
    BY <1>1, <1>2, <1>3
  <2>2. ASSUME NEW m \in 1 .. n - 1 PROVE ws[m] # x
    <3>1. m \in 1 .. k /\ m # j
      BY <1>1, <2>1
    <3> QED BY <1>2, <2>1, <3>1
  <2> QED BY <2>1, <2>2
<1>4. ASSUME NEW j \in 1 .. k, ws[j] = x, \A m \in 1 .. n - 1 : ws[m] # x
      PROVE  \E i \in 1 .. h : r[i] = x
  <2>1. j >= n
    BY <1>1, <1>4
  <2> DEFINE i == j - n + 1
  <2>2. i \in 1 .. h /\ n + i - 1 = j
    BY <1>1, <2>1
  <2> HIDE DEF i
  <2>3. r[i] = x
    BY <1>2, <1>4, <2>2
  <2> QED BY <2>2, <2>3
<1>5. Holds(r, x) <=> \E i \in 1 .. h : r[i] = x
  BY DEF Holds, h
<1>6. Holds(ws, x) <=> \E j \in 1 .. k : ws[j] = x
  BY DEF Holds, k
<1> QED BY <1>3, <1>4, <1>5, <1>6

\* It stays linked while its links stay.
LEMMA RestLinked ==
  ASSUME NEW ws \in Seq(Proc), NEW n, Place(ws, n), NEW r, Rest(ws, n, r),
         NEW link, NEW front, Linked(link, front, ws),
         NEW to, \A x \in Proc : Holds(r, x) => to[x] = link[x]
  PROVE  Linked(to, IF n <= Len(ws) THEN ws[n] ELSE NoProcess, r)
<1> DEFINE k == Len(ws)
           h == Len(r)
           first == IF n <= k THEN ws[n] ELSE NoProcess
<1>1. k \in Nat /\ n \in Nat /\ n >= 1 /\ n <= k + 1 /\ h = k - n + 1 /\ h \in Nat
  BY LenProperties DEF Place, Rest
<1>2. \A i \in 1 .. h : r[i] = ws[n + i - 1] /\ r[i] \in Proc /\ to[r[i]] = link[r[i]]
  BY LenProperties, ElementOfSeq DEF Rest, Holds
<1>3. /\ \A i \in 1 .. k : link[ws[i]] = IF i = k THEN NoProcess ELSE ws[i + 1]
      /\ \A i, j \in 1 .. k : ws[i] = ws[j] => i = j
  BY DEF Linked
<1> HIDE DEF k, h
<1>4. first = IF h = 0 THEN NoProcess ELSE r[1]
  <2>1. n <= k => h # 0 /\ 1 \in 1 .. h /\ n + 1 - 1 = n
    BY <1>1
  <2>2. n <= k => r[1] = ws[n]
    <3> SUFFICES ASSUME n <= k PROVE r[1] = ws[n]
      OBVIOUS
    <3>1. r[1] = ws[n + 1 - 1]
      BY <1>2, <2>1
    <3> QED BY <2>1, <3>1
  <2>3. ~(n <= k) => h = 0
    BY <1>1
  <2> QED BY <2>1, <2>2, <2>3
<1>5. ASSUME NEW i \in 1 .. h PROVE to[r[i]] = IF i = h THEN NoProcess ELSE r[i + 1]
  <2> DEFINE j == n + i - 1
  <2>1. j \in 1 .. k /\ (i = h <=> j = k) /\ n + (i + 1) - 1 = j + 1 /\ (i # h => i + 1 \in 1 .. h)
    BY <1>1
  <2>2. to[r[i]] = link[ws[j]]
    BY <1>2
  <2> HIDE DEF j
  <2>3. i # h => r[i + 1] = ws[j + 1]
    <3> SUFFICES ASSUME i # h PROVE r[i + 1] = ws[j + 1]
      OBVIOUS
    <3>1. r[i + 1] = ws[n + (i + 1) - 1]
      BY <1>2, <2>1
    <3> QED BY <2>1, <3>1
  <2> QED BY <1>3, <2>1, <2>2, <2>3
<1>6. ASSUME NEW i \in 1 .. h, NEW j \in 1 .. h, r[i] = r[j] PROVE i = j
  <2> DEFINE a == n + i - 1
             b == n + j - 1
  <2>1. a \in 1 .. k /\ b \in 1 .. k /\ (a = b => i = j)
    BY <1>1
  <2>2. ws[a] = ws[b]
    BY <1>2, <1>6
  <2> HIDE DEF a, b
  <2> QED BY <1>3, <2>1, <2>2
<1> HIDE DEF first
<1>7. Linked(to, first, r)
  BY <1>1, <1>4, <1>5, <1>6 DEF Linked, h
<1> QED BY <1>7 DEF first, k

\* What the list holds without one.
LEMMA WithoutHolds ==
  ASSUME NEW ws \in Seq(Proc), NEW n \in 1 .. Len(ws), NEW r, Without(ws, n, r),
         \A i, j \in 1 .. Len(ws) : ws[i] = ws[j] => i = j, NEW x
  PROVE  Holds(r, x) <=> (Holds(ws, x) /\ x # ws[n])
<1> DEFINE k == Len(ws)
<1>1. k \in Nat /\ n \in 1 .. k /\ Len(r) = k - 1
  BY LenProperties DEF Without
<1>2. /\ \A i \in 1 .. k - 1 : r[i] = IF i < n THEN ws[i] ELSE ws[i + 1]
      /\ \A i, j \in 1 .. k : ws[i] = ws[j] => i = j
  BY <1>1 DEF Without
<1> HIDE DEF k
<1>3. ASSUME NEW i \in 1 .. k - 1, r[i] = x PROVE (\E j \in 1 .. k : ws[j] = x) /\ x # ws[n]
  <2>1. CASE i < n
    <3>1. i \in 1 .. k /\ ws[i] = x /\ i # n
      BY <1>1, <1>2, <1>3, <2>1
    <3> QED BY <1>1, <1>2, <3>1
  <2>2. CASE ~(i < n)
    <3>1. i + 1 \in 1 .. k /\ ws[i + 1] = x /\ i + 1 # n
      BY <1>1, <1>2, <1>3, <2>2
    <3> QED BY <1>1, <1>2, <3>1
  <2> QED BY <2>1, <2>2
<1>4. ASSUME NEW j \in 1 .. k, ws[j] = x, x # ws[n] PROVE \E i \in 1 .. k - 1 : r[i] = x
  <2>1. j # n
    BY <1>4
  <2>2. CASE j < n
    <3>1. j \in 1 .. k - 1
      BY <1>1, <2>2
    <3> QED BY <1>2, <1>4, <2>2, <3>1
  <2>3. CASE j > n
    <3> DEFINE i == j - 1
    <3>1. i \in 1 .. k - 1 /\ ~(i < n) /\ i + 1 = j
      BY <1>1, <2>3
    <3> HIDE DEF i
    <3>2. r[i] = x
      BY <1>2, <1>4, <3>1
    <3> QED BY <3>1, <3>2
  <2> QED BY <1>1, <2>1, <2>2, <2>3
<1>5. Holds(r, x) <=> \E i \in 1 .. k - 1 : r[i] = x
  BY <1>1 DEF Holds
<1>6. Holds(ws, x) <=> \E j \in 1 .. k : ws[j] = x
  BY DEF Holds, k
<1> QED BY <1>3, <1>4, <1>5, <1>6

\* The links around place n.
WithoutLinks(link, ws, n, to) ==
  \A x \in Proc : x # ws[n] => to[x] = IF n > 1 /\ x = ws[n - 1] THEN link[ws[n]] ELSE link[x]

\* They link the list without one.
LEMMA WithoutLinked ==
  ASSUME NEW ws \in Seq(Proc), NEW n \in 1 .. Len(ws), NEW r, Without(ws, n, r),
         NEW link, NEW front, Linked(link, front, ws),
         NEW to, WithoutLinks(link, ws, n, to)
  PROVE  Linked(to, IF n = 1 THEN link[ws[n]] ELSE front, r)
<1> DEFINE k == Len(ws)
           first == IF n = 1 THEN link[ws[n]] ELSE front
<1>1. k \in Nat /\ n \in 1 .. k /\ Len(r) = k - 1 /\ \A i \in 1 .. k : ws[i] \in Proc
  BY LenProperties, ElementOfSeq DEF Without
<1>2. \A i \in 1 .. k - 1 : r[i] = IF i < n THEN ws[i] ELSE ws[i + 1]
  BY <1>1 DEF Without
<1>3. /\ front = IF k = 0 THEN NoProcess ELSE ws[1]
      /\ \A i \in 1 .. k : link[ws[i]] = IF i = k THEN NoProcess ELSE ws[i + 1]
      /\ \A i, j \in 1 .. k : ws[i] = ws[j] => i = j
  BY DEF Linked
<1>4. \A x \in Proc : x # ws[n] => to[x] = IF n > 1 /\ x = ws[n - 1] THEN link[ws[n]] ELSE link[x]
  BY DEF WithoutLinks
<1> HIDE DEF k
<1>5. first = IF k - 1 = 0 THEN NoProcess ELSE r[1]
  <2>1. CASE n = 1
    <3>1. link[ws[n]] = IF k = 1 THEN NoProcess ELSE ws[1 + 1]
      BY <1>1, <1>3, <2>1
    <3>2. k # 1 => 1 \in 1 .. k - 1 /\ ~(1 < n) /\ k - 1 # 0
      BY <1>1, <2>1
    <3>3. k # 1 => r[1] = ws[1 + 1]
      BY <1>2, <3>2
    <3>4. k = 1 => k - 1 = 0
      OBVIOUS
    <3> QED BY <2>1, <3>1, <3>2, <3>3, <3>4
  <2>2. CASE n # 1
    <3>1. 1 < n /\ k # 0 /\ 1 \in 1 .. k - 1 /\ k - 1 # 0
      BY <1>1, <2>2
    <3> QED BY <1>2, <1>3, <2>2, <3>1
  <2> QED BY <2>1, <2>2
<1>6. ASSUME NEW i \in 1 .. k - 1
      PROVE  to[r[i]] = IF i = k - 1 THEN NoProcess ELSE r[i + 1]
  <2>1. CASE i < n
    <3>1. i \in 1 .. k /\ i # n /\ i # k /\ n > 1
      BY <1>1, <2>1
    <3>2. r[i] = ws[i] /\ ws[i] \in Proc /\ ws[i] # ws[n]
      BY <1>1, <1>2, <1>3, <2>1, <3>1
    <3>3. CASE i = n - 1
      <4>1. to[ws[i]] = link[ws[n]]
        BY <1>4, <3>1, <3>2, <3>3
      <4>2. link[ws[n]] = IF n = k THEN NoProcess ELSE ws[n + 1]
        BY <1>1, <1>3
      <4>3. i + 1 = n /\ ~(n < n) /\ (n = k <=> i = k - 1) /\ (i # k - 1 => n \in 1 .. k - 1)
        BY <1>1, <3>3
      <4>4. i # k - 1 => r[n] = ws[n + 1]
        BY <1>2, <4>3
      <4> QED BY <3>2, <4>1, <4>2, <4>3, <4>4
    <3>4. CASE i # n - 1
      <4>1. i + 1 < n /\ n - 1 \in 1 .. k /\ i # k - 1 /\ i + 1 \in 1 .. k - 1
        BY <1>1, <2>1, <3>4
      <4>2. ws[i] # ws[n - 1]
        BY <1>3, <3>1, <3>4, <4>1
      <4>3. to[ws[i]] = link[ws[i]] /\ link[ws[i]] = ws[i + 1]
        BY <1>3, <1>4, <3>1, <3>2, <4>2
      <4>4. r[i + 1] = ws[i + 1]
        BY <1>2, <4>1
      <4> QED BY <3>2, <4>1, <4>3, <4>4
    <3> QED BY <3>3, <3>4
  <2>2. CASE ~(i < n)
    <3> DEFINE j == i + 1
    <3>1. j \in 1 .. k /\ j # n /\ (j = k <=> i = k - 1) /\ (n > 1 => n - 1 \in 1 .. k /\ n - 1 # j)
      BY <1>1, <2>2
    <3>2. r[i] = ws[j] /\ ws[j] \in Proc /\ ws[j] # ws[n]
      BY <1>1, <1>2, <1>3, <2>2, <3>1
    <3>3. i # k - 1 => j \in 1 .. k - 1 /\ ~(j < n)
      BY <1>1, <2>2, <3>1
    <3> HIDE DEF j
    <3>4. n > 1 => ws[n - 1] # ws[j]
      BY <1>3, <3>1
    <3>5. to[ws[j]] = link[ws[j]]
      BY <1>4, <3>2, <3>4
    <3>6. link[ws[j]] = IF j = k THEN NoProcess ELSE ws[j + 1]
      BY <1>3, <3>1
    <3>7. i # k - 1 => r[j] = ws[j + 1]
      BY <1>2, <3>3
    <3> QED BY <3>1, <3>2, <3>5, <3>6, <3>7 DEF j
  <2> QED BY <2>1, <2>2
<1>7. ASSUME NEW i \in 1 .. k - 1, NEW j \in 1 .. k - 1, r[i] = r[j] PROVE i = j
  <2> DEFINE a == IF i < n THEN i ELSE i + 1
             b == IF j < n THEN j ELSE j + 1
  <2>1. a \in 1 .. k /\ b \in 1 .. k /\ (a = b => i = j)
    BY <1>1
  <2>2. r[i] = ws[a] /\ r[j] = ws[b]
    BY <1>2
  <2> HIDE DEF a, b
  <2> QED BY <1>3, <1>7, <2>1, <2>2
<1> HIDE DEF first
<1>8. Linked(to, first, r)
  BY <1>1, <1>5, <1>6, <1>7 DEF Linked
<1> QED BY <1>8 DEF first

\* The ticks left until the first time of the process at place i.
Rank(l, ws, i) == Soonest(l[ws[i]])

\* The places have ranks.
Ranked(l, ws) == \A i \in 1 .. Len(ws) : Rank(l, ws, i) \in Int

\* In its place, one more is in order.
LEMMA InsertedInOrder ==
  ASSUME NEW ws \in Seq(Proc), NEW n, Place(ws, n), NEW p \in Proc, NEW r, Inserted(ws, n, p, r),
         NEW l, Ranked(l, ws), InOrder(l, ws), NEW m,
         \A i \in 1 .. Len(ws) : m[ws[i]] = l[ws[i]], Soonest(m[p]) \in Int,
         \A i \in 1 .. n - 1 : Rank(l, ws, i) <= Soonest(m[p]),
         n <= Len(ws) => Soonest(m[p]) <= Rank(l, ws, n)
  PROVE  InOrder(m, r)
<1> DEFINE k == Len(ws)
           s == [i \in 1 .. k |-> Rank(l, ws, i)]
           S == Soonest(m[p])
<1>1. k \in Nat /\ n \in Nat /\ n >= 1 /\ n <= k + 1 /\ Len(r) = k + 1
  BY LenProperties DEF Place, Inserted
<1>2. \A i \in 1 .. k + 1 : r[i] = IF i < n THEN ws[i] ELSE IF i = n THEN p ELSE ws[i - 1]
  BY <1>1 DEF Inserted
<1>3. /\ \A i \in 1 .. k : s[i] \in Int /\ s[i] = Soonest(m[ws[i]])
      /\ \A i, j \in 1 .. k : i < j => s[i] <= s[j]
      /\ S \in Int
  BY DEF Ranked, InOrder, Rank
<1>4. (\A i \in 1 .. n - 1 : i \in 1 .. k /\ s[i] <= S) /\ (n <= k => S <= s[n])
  BY <1>1
<1> HIDE DEF k, s, S
<1>5. ASSUME NEW i \in 1 .. k, i >= n PROVE S <= s[i]
  <2>1. n \in 1 .. k /\ s[n] \in Int /\ S <= s[n] /\ s[i] \in Int
    BY <1>1, <1>3, <1>4, <1>5
  <2>2. CASE i = n
    BY <2>1, <2>2
  <2>3. CASE i # n
    <3>1. n < i
      BY <1>1, <1>5, <2>3
    <3>2. s[n] <= s[i]
      BY <1>3, <2>1, <3>1
    <3> QED BY <1>3, <2>1, <3>2
  <2> QED BY <2>2, <2>3
<1>6. ASSUME NEW i \in 1 .. k + 1, NEW j \in 1 .. k + 1, i < j
      PROVE  Soonest(m[r[i]]) <= Soonest(m[r[j]])
  <2>1. CASE j < n
    <3>1. i < n /\ i \in 1 .. k /\ j \in 1 .. k
      BY <1>1, <1>6, <2>1
    <3>2. r[i] = ws[i] /\ r[j] = ws[j]
      BY <1>2, <2>1, <3>1
    <3> QED BY <1>3, <1>6, <3>1, <3>2
  <2>2. CASE j = n
    <3>1. i < n /\ i \in 1 .. n - 1
      BY <1>1, <1>6, <2>2
    <3>2. r[i] = ws[i] /\ r[j] = p
      BY <1>2, <2>2, <3>1
    <3> QED BY <1>3, <1>4, <3>1, <3>2 DEF S
  <2>3. CASE j > n
    <3> DEFINE b == j - 1
    <3>1. b \in 1 .. k /\ ~(j < n) /\ j # n /\ b >= n
      BY <1>1, <2>3
    <3>2. r[j] = ws[b]
      BY <1>2, <3>1
    <3>3. CASE i < n
      <4>1. i \in 1 .. n - 1 /\ i \in 1 .. k /\ i < b
        BY <1>1, <3>1, <3>3
      <4>2. r[i] = ws[i]
        BY <1>2, <3>3
      <4> HIDE DEF b
      <4> QED BY <1>3, <3>1, <3>2, <4>1, <4>2
    <3>4. CASE i = n
      <4>1. r[i] = p
        BY <1>2, <3>4
      <4>2. S <= s[b]
        BY <1>5, <3>1
      <4> HIDE DEF b
      <4> QED BY <1>3, <3>1, <3>2, <4>1, <4>2 DEF S
    <3>5. CASE i > n
      <4> DEFINE a == i - 1
      <4>1. a \in 1 .. k /\ a < b /\ ~(i < n) /\ i # n
        BY <1>1, <1>6, <3>5
      <4>2. r[i] = ws[a]
        BY <1>2, <4>1
      <4> HIDE DEF a, b
      <4> QED BY <1>3, <3>1, <3>2, <4>1, <4>2
    <3> QED BY <1>1, <3>3, <3>4, <3>5
  <2> QED BY <1>1, <2>1, <2>2, <2>3
<1> QED BY <1>1, <1>6 DEF InOrder

\* Part of an ordered list is in order.
LEMMA PartInOrder ==
  ASSUME NEW ws, NEW r, NEW l, InOrder(l, ws), NEW at,
         \A i \in 1 .. Len(r) : at[i] \in 1 .. Len(ws) /\ r[i] = ws[at[i]],
         \A i, j \in 1 .. Len(r) : i < j => at[i] < at[j]
  PROVE  InOrder(l, r)
<1> SUFFICES ASSUME NEW i \in 1 .. Len(r), NEW j \in 1 .. Len(r), i < j
             PROVE  Soonest(l[r[i]]) <= Soonest(l[r[j]])
  BY DEF InOrder
<1>1. at[i] \in 1 .. Len(ws) /\ at[j] \in 1 .. Len(ws) /\ at[i] < at[j]
  OBVIOUS
<1>2. Soonest(l[ws[at[i]]]) <= Soonest(l[ws[at[j]]])
  BY <1>1 DEF InOrder
<1> QED BY <1>2

\* So is the list from a place on.
LEMMA RestInOrder ==
  ASSUME NEW ws \in Seq(Proc), NEW n, Place(ws, n), NEW r, Rest(ws, n, r), NEW l, InOrder(l, ws)
  PROVE  InOrder(l, r)
<1> DEFINE at == [i \in 1 .. Len(r) |-> n + i - 1]
<1>1. Len(ws) \in Nat /\ n \in Nat /\ n >= 1 /\ n <= Len(ws) + 1 /\ Len(r) = Len(ws) - n + 1
  BY LenProperties DEF Place, Rest
<1>2. \A i \in 1 .. Len(r) : at[i] \in 1 .. Len(ws) /\ r[i] = ws[at[i]]
  BY <1>1 DEF Rest
<1>3. \A i, j \in 1 .. Len(r) : i < j => at[i] < at[j]
  BY <1>1
<1> HIDE DEF at
<1> QED BY <1>2, <1>3, PartInOrder

\* And without a place.
LEMMA WithoutInOrder ==
  ASSUME NEW ws \in Seq(Proc), NEW n \in 1 .. Len(ws), NEW r, Without(ws, n, r), NEW l, InOrder(l, ws)
  PROVE  InOrder(l, r)
<1> DEFINE at == [i \in 1 .. Len(r) |-> IF i < n THEN i ELSE i + 1]
<1>1. Len(ws) \in Nat /\ n \in 1 .. Len(ws) /\ Len(r) = Len(ws) - 1
  BY LenProperties DEF Without
<1>2. \A i \in 1 .. Len(r) : at[i] \in 1 .. Len(ws) /\ r[i] = ws[at[i]]
  BY <1>1 DEF Without
<1>3. \A i, j \in 1 .. Len(r) : i < j => at[i] < at[j]
  BY <1>1
<1> HIDE DEF at
<1> QED BY <1>2, <1>3, PartInOrder

\* An order stays as ticks go by.
LEMMA LaterInOrder ==
  ASSUME NEW ws, NEW l, Ranked(l, ws), InOrder(l, ws), NEW m, NEW ticks \in Nat,
         \A i \in 1 .. Len(ws) : Rank(m, ws, i) = Rank(l, ws, i) - ticks
  PROVE  InOrder(m, ws) /\ Ranked(m, ws)
<1>1. \A i \in 1 .. Len(ws) : Rank(l, ws, i) \in Int
  BY DEF Ranked
<1>2. \A i, j \in 1 .. Len(ws) : i < j => Rank(l, ws, i) <= Rank(l, ws, j)
  BY DEF InOrder, Rank
<1>3. \A i \in 1 .. Len(ws) : Rank(m, ws, i) \in Int
  BY <1>1
<1>4. ASSUME NEW i \in 1 .. Len(ws), NEW j \in 1 .. Len(ws), i < j
      PROVE  Rank(m, ws, i) <= Rank(m, ws, j)
  <2>1. Rank(l, ws, i) <= Rank(l, ws, j)
    BY <1>2, <1>4
  <2> QED BY <1>1, <1>3, <2>1
<1> QED BY <1>3, <1>4 DEF InOrder, Ranked, Rank

-----------------------------------------------------------------------------
(* One process *)

\* The numbers of the branches that are no times.
LEMMA Branches == NONE_SELECTED \notin Time /\ CHANNEL \notin Time /\ NONE_SELECTED # CHANNEL
<1>1. Time = 0 .. Modulus - 1
  BY ClockBounds
<1> QED BY <1>1, SMT DEF NONE_SELECTED, CHANNEL

\* The marks of a link are no entries.
LEMMA LinkMarks ==
  /\ NoProcess \notin Proc /\ NoProcess # "notSet" /\ NoProcess # "set"
  /\ "notSet" \notin Proc /\ "set" \notin Proc
BY TimerAssumption

\* What is left is a number of ticks.
LEMMA LeftIs ==
  ASSUME NEW c, NEW a, Asks(c, a), NEW t \in DOMAIN a
  PROVE  /\ t \in Time /\ a[t] \in Span /\ a[t] \in Int /\ -MaxLag <= a[t] /\ a[t] <= Half - MaxLag
         /\ t = (c + a[t] - 1) % Modulus
<1>1. t \in Time /\ a[t] \in Span /\ t = (c + a[t] - 1) % Modulus
  BY DEF Asks
<1>2. MaxLag \in Nat /\ Half \in Nat
  BY ClockBounds
<1> QED BY <1>1, <1>2 DEF Span

\* The clock was so long ago after one of the times asked for.
LEMMA AfterAsked ==
  ASSUME NEW c \in Time, NEW a, Asks(c, a), NEW t \in DOMAIN a, NEW ago \in Nat,
         a[t] + ago \in Span
  PROVE  After((c - ago) % Modulus, t) <=> a[t] + ago <= 0
<1> DEFINE x == -ago
           y == a[t] - 1
<1>1. c \in Int /\ Half \in Nat /\ MaxLag \in Nat /\ MaxLag + 1 < Half
  BY ClockBounds
<1>2. a[t] \in Int /\ t = (c + a[t] - 1) % Modulus
  BY LeftIs
<1>3. x \in Int /\ y \in Int /\ c + x = c - ago /\ c + y = c + a[t] - 1
  BY <1>1, <1>2
<1>4. -Half <= x - y /\ x - y < Half
  BY <1>1, <1>2 DEF Span
<1>5. x > y <=> a[t] + ago <= 0
  BY <1>1, <1>2
<1> HIDE DEF x, y
<1>6. After((c + x) % Modulus, (c + y) % Modulus) <=> x > y
  BY <1>1, <1>3, <1>4, AfterIs
<1> QED BY <1>2, <1>3, <1>5, <1>6

\* The clock now is after a time asked for.
LEMMA ClockAfter ==
  ASSUME NEW c \in Time, NEW a, Asks(c, a), NEW t \in DOMAIN a
  PROVE  After(c, t) <=> a[t] <= 0
<1> DEFINE ago == 0
<1>1. a[t] \in Int /\ a[t] \in Span /\ c \in Int
  BY LeftIs, ClockBounds
<1>2. ago \in Nat /\ a[t] + ago = a[t] /\ c - ago = c /\ c % Modulus = c
  BY <1>1, TimeAt
<1> HIDE DEF ago
<1>3. After((c - ago) % Modulus, t) <=> a[t] + ago <= 0
  BY <1>1, <1>2, AfterAsked
<1> QED BY <1>2, <1>3

\* Two times asked for, one after the other.
LEMMA AskedAfter ==
  ASSUME NEW c \in Time, NEW x \in Span, NEW y \in Span, y > -MaxLag
  PROVE  After((c + x - 1) % Modulus, (c + y - 1) % Modulus) <=> x > y
<1> DEFINE i == x - 1
           j == y - 1
<1>1. c \in Int /\ Half \in Nat /\ MaxLag \in Nat /\ MaxLag + 1 < Half
  BY ClockBounds
<1>2. /\ x \in Int /\ y \in Int /\ -MaxLag <= x /\ -MaxLag <= y
      /\ x <= Half - MaxLag /\ y <= Half - MaxLag
  BY <1>1 DEF Span
<1>3. i \in Int /\ j \in Int /\ c + i = c + x - 1 /\ c + j = c + y - 1
  BY <1>1, <1>2
<1>4. -Half <= i - j /\ i - j < Half /\ (i > j <=> x > y)
  BY <1>1, <1>2
<1> HIDE DEF i, j
<1>5. After((c + i) % Modulus, (c + j) % Modulus) <=> i > j
  BY <1>1, <1>3, <1>4, AfterIs
<1> QED BY <1>3, <1>4, <1>5

\* w is v so many ticks later.
Passed(v, w, ticks) ==
  /\ w.pc = v.pc /\ w.temp = v.temp /\ w.guards = v.guards
  /\ w.armed = v.armed /\ w.sender = v.sender /\ w.time = v.time
  /\ w.state = v.state /\ w.turns = v.turns /\ w.listed = v.listed /\ w.link = v.link
  /\ Later(v.left, w.left, ticks)
  /\ \A t \in DOMAIN w.left : w.left[t] >= -MaxLag

\* Nothing changes for a process as time passes.
LEMMA PassedFine ==
  ASSUME NEW c \in Time, NEW v, Fine(c, v), NEW ticks \in Nat, NEW w, Passed(v, w, ticks)
  PROVE  Fine((c + ticks) % Modulus, w)
<1> DEFINE k == (c + ticks) % Modulus
<1>1. Kinds(v) /\ Asks(c, v.left)
  BY DEF Fine
<1>2. /\ w.pc = v.pc /\ w.temp = v.temp /\ w.guards = v.guards
      /\ w.armed = v.armed /\ w.sender = v.sender /\ w.time = v.time
      /\ w.state = v.state /\ w.turns = v.turns /\ w.listed = v.listed /\ w.link = v.link
  BY DEF Passed
<1>3. Later(v.left, w.left, ticks) /\ DOMAIN w.left = DOMAIN v.left
  BY DEF Passed, Later
<1>4. Asks(k, w.left)
  BY <1>1, <1>3, AsksLater DEF Passed
<1>5. \A t \in DOMAIN v.left : v.left[t] \in Int /\ w.left[t] \in Int /\ w.left[t] = v.left[t] - ticks
  BY <1>1, <1>3, LeftIs DEF Later
<1>6. c \in Int /\ k \in Time
  <2>1. c \in Int /\ c + ticks \in Int
    BY ClockBounds
  <2> QED BY <2>1, TimeAt
<1>7. Kinds(w)
  BY <1>1, <1>2 DEF Kinds
<1>8. ASSUME w.listed PROVE Deadline(k, w)
  <2> DEFINE s == Soonest(v.left)
             x == s - ticks
             d == c + ticks
  <2>1. DOMAIN v.left # {} /\ v.time = (c + s) % Modulus
    BY <1>2, <1>8 DEF Fine, Deadline
  <2>2. s \in Int
    BY <1>1, <2>1, SoonestIs, ClockBounds DEF Span
  <2>3. Soonest(w.left) = x
    BY <1>1, <1>3, <2>1, SoonestLater
  <2> HIDE DEF s
  <2>4. d \in Int /\ x \in Int /\ d + x = c + s
    BY <1>6, <2>2
  <2> HIDE DEF d, x
  <2>5. ((d % Modulus) + x) % Modulus = (d + x) % Modulus
    BY <2>4, TimeFrom
  <2>6. w.time = (k + Soonest(w.left)) % Modulus
    BY <1>2, <2>1, <2>3, <2>4, <2>5 DEF d
  <2> QED BY <1>3, <2>1, <2>6 DEF Deadline
<1> HIDE DEF k
<1>9. ASSUME v.pc = "free" PROVE FreeFine(w)
  BY <1>2, <1>3, <1>9 DEF Fine, FreeFine
<1>10. ASSUME v.pc = "enabling" PROVE EnablingFine(w)
  <2>1. EnablingFine(v)
    BY <1>10 DEF Fine
  <2>2. ASSUME NEW t \in v.guards, v.time \in v.guards, \A u \in v.guards : v.left[v.time] <= v.left[u]
        PROVE  w.left[w.time] <= w.left[t]
    <3>1. v.time \in DOMAIN v.left /\ t \in DOMAIN v.left /\ v.left[v.time] <= v.left[t]
      BY <2>1, <2>2 DEF EnablingFine
    <3> QED BY <1>2, <1>5, <3>1
  <2> QED BY <1>2, <1>3, <2>1, <2>2 DEF EnablingFine
<1>11. ASSUME v.pc = "disabling" PROVE DisablingFine(k, w)
  <2>1. DisablingFine(c, v)
    BY <1>11 DEF Fine
  <2>2. ASSUME w.temp \in Time PROVE w.temp \in DOMAIN w.left /\ w.left[w.temp] <= 0
    <3>1. v.temp \in DOMAIN v.left /\ v.left[v.temp] <= 0
      BY <1>2, <2>1, <2>2 DEF DisablingFine
    <3> QED BY <1>2, <1>3, <1>5, <3>1
  <2>3. ASSUME Recorded(c, v) PROVE Recorded(k, w)
    <3>1. PICK ago \in Nat : /\ v.time = (c - ago) % Modulus
                             /\ \A t \in DOMAIN v.left : v.left[t] + ago \in Span
      BY <2>3 DEF Recorded
    <3> DEFINE more == ago + ticks
               x == -more
               d == c + ticks
    <3>2. more \in Nat /\ x \in Int /\ d \in Int /\ d + x = c - ago
      BY <1>6
    <3>3. \A t \in DOMAIN w.left : w.left[t] + more \in Span
      <4> TAKE t \in DOMAIN w.left
      <4>1. w.left[t] + more = v.left[t] + ago
        BY <1>3, <1>5
      <4> HIDE DEF more
      <4> QED BY <1>3, <3>1, <4>1
    <3>4. k - more = k + x /\ k = d % Modulus
      BY <1>6, <3>2, ClockBounds DEF k
    <3> HIDE DEF d, x, more
    <3>5. ((d % Modulus) + x) % Modulus = (d + x) % Modulus
      BY <3>2, TimeFrom
    <3>6. w.time = (k - more) % Modulus
      BY <1>2, <3>1, <3>2, <3>4, <3>5
    <3> QED BY <3>2, <3>3, <3>6 DEF Recorded
  <2>4. Promise(v) => Promise(w)
    BY <1>2 DEF Promise
  <2> QED BY <1>2, <1>3, <2>1, <2>2, <2>3, <2>4 DEF DisablingFine
<1>12. Fine(k, w)
  BY <1>2, <1>4, <1>7, <1>8, <1>9, <1>10, <1>11 DEF Fine
<1> QED BY <1>12 DEF k

\* w is v, released from the list at time c.
Woke(c, v, w) ==
  /\ w.pc = v.pc /\ w.temp = v.temp /\ w.guards = v.guards
  /\ w.armed = v.armed /\ w.sender = v.sender /\ w.left = v.left
  /\ v.listed = TRUE /\ w.listed = FALSE
  /\ w.turns = v.turns + IF v.state # "ready" THEN 1 ELSE 0
  /\ IF v.state \in {"waiting", "ready"}
     THEN w.state = "ready" /\ w.time = c /\ w.link = "set"
     ELSE w.state = v.state /\ w.time = v.time

\* A process wakes for its time.
LEMMA WokeFine ==
  ASSUME NEW c \in Time, NEW v, Fine(c, v), Soonest(v.left) <= 0, NEW w, Woke(c, v, w)
  PROVE  Fine(c, w)
<1>1. Kinds(v) /\ Asks(c, v.left) /\ Deadline(c, v)
  BY DEF Fine, Woke
<1>2. /\ w.pc = v.pc /\ w.temp = v.temp /\ w.guards = v.guards
      /\ w.armed = v.armed /\ w.sender = v.sender /\ w.left = v.left
      /\ v.listed = TRUE /\ w.listed = FALSE
      /\ w.turns = v.turns + IF v.state # "ready" THEN 1 ELSE 0
  BY DEF Woke
<1>3. IF v.state \in {"waiting", "ready"}
      THEN w.state = "ready" /\ w.time = c /\ w.link = "set"
      ELSE w.state = v.state /\ w.time = v.time
  BY DEF Woke
<1>4. v.pc # "enabling"
  BY <1>2 DEF Fine, EnablingFine
<1>5. w.turns = 1
  <2>1. v.pc = "free" => v.turns = 0 /\ v.state = "enabling"
    BY <1>2 DEF Fine, FreeFine
  <2>2. v.pc = "disabling" => (v.turns = 0 <=> v.state = "waiting") /\ v.state # "enabling"
    BY DEF Fine, DisablingFine
  <2>3. v.turns \in 0 .. 1 /\ v.state \in {"enabling", "waiting", "ready"}
    BY <1>1 DEF Kinds, Mark
  <2>4. v.pc = "free" \/ v.pc = "disabling"
    BY <1>4 DEF Fine
  <2>5. v.state = "ready" => v.turns = 1
    BY <2>1, <2>2, <2>3, <2>4
  <2>6. v.state # "ready" => v.turns = 0
    BY <2>1, <2>2, <2>3, <2>4
  <2> QED BY <1>2, <2>5, <2>6
<1>6. Kinds(w)
  <2>1. w.time \in Time /\ w.state \in Mark
    BY <1>1, <1>3 DEF Kinds, Mark
  <2>2. w.turns \in 0 .. 1
    BY <1>5
  <2> QED BY <1>1, <1>2, <2>1, <2>2 DEF Kinds
<1>7. ASSUME v.pc = "free" PROVE FreeFine(w)
  <2>1. /\ v.guards = {} /\ ~v.armed /\ v.state = "enabling"
    BY <1>2, <1>7 DEF Fine, FreeFine
  <2>2. w.state = "enabling"
    BY <1>3, <2>1
  <2> QED BY <1>2, <1>5, <2>1, <2>2 DEF FreeFine
<1>8. ASSUME v.pc = "disabling" PROVE DisablingFine(c, w)
  <2>1. DisablingFine(c, v)
    BY <1>8 DEF Fine
  <2>2. w.state = "ready" /\ w.time = c /\ w.link = "set" /\ v.guards = DOMAIN v.left
    <3>1. v.state \in {"waiting", "ready"}
      BY <1>1, <2>1 DEF DisablingFine, Kinds, Mark
    <3> QED BY <1>2, <1>3, <2>1, <3>1 DEF DisablingFine
  <2>3. PICK t \in DOMAIN v.left : v.left[t] <= 0
    <3>1. LeastOf(v.left, Soonest(v.left))
      BY <1>1, SoonestIs DEF Deadline
    <3> QED BY <3>1 DEF LeastOf
  <2>4. Promise(w)
    <3>1. After(c, t)
      BY <1>1, <2>3, ClockAfter
    <3> QED BY <1>2, <2>2, <2>3, <3>1 DEF Promise
  <2>5. Recorded(c, w)
    <3> DEFINE ago == 0
    <3>1. ago \in Nat /\ c - ago = c /\ c % Modulus = c
      BY ClockBounds, TimeAt
    <3>2. \A t_1 \in DOMAIN w.left : w.left[t_1] + ago \in Span
      <4> TAKE u \in DOMAIN w.left
      <4>1. v.left[u] \in Span /\ v.left[u] \in Int
        BY <1>1, <1>2, LeftIs
      <4>2. v.left[u] + ago = v.left[u]
        BY <4>1
      <4> QED BY <1>2, <4>1, <4>2
    <3> HIDE DEF ago
    <3> QED BY <2>2, <3>1, <3>2 DEF Recorded
  <2> QED BY <1>2, <1>5, <2>1, <2>2, <2>4, <2>5 DEF DisablingFine
<1> QED BY <1>1, <1>2, <1>4, <1>6, <1>7, <1>8 DEF Fine

-----------------------------------------------------------------------------
(* What its own instructions make of a process *)

\* w is v as talt leaves it.
Began(v, w) ==
  /\ w.pc = "enabling" /\ w.temp = v.temp /\ w.guards = v.guards
  /\ w.armed = v.armed /\ w.sender = v.sender /\ w.left = Nothing /\ w.time = v.time
  /\ w.state = "enabling" /\ w.turns = v.turns /\ w.listed = v.listed /\ w.link = "notSet"

\* It has enabled nothing.
LEMMA BeganFine ==
  ASSUME NEW c, NEW v, Fine(c, v), v.pc = "free", v.turns = 1, ~v.listed, NEW w, Began(v, w)
  PROVE  Fine(c, w)
<1>1. Kinds(v) /\ v.guards = {}
  BY DEF Fine, FreeFine
<1>2. DOMAIN w.left = {}
  BY DEF Began, Nothing
<1>3. Kinds(w)
  BY <1>1 DEF Began, Kinds, Mark
<1>4. Asks(c, w.left)
  BY <1>2 DEF Asks
<1>5. EnablingFine(w)
  BY <1>1, <1>2 DEF Began, EnablingFine
<1> QED BY <1>3, <1>4, <1>5 DEF Fine, Began

\* w is v as enbt leaves it: d ticks from the clock is time t.
Enabled(c, v, w, t, d) ==
  /\ w.pc = v.pc /\ w.temp = v.temp /\ w.guards = v.guards \union {t}
  /\ w.armed = v.armed /\ w.sender = v.sender
  /\ w.left = [u \in w.guards |-> IF u = t THEN Until(d) ELSE v.left[u]]
  /\ w.time = IF v.link = "notSet" \/ After(v.time, t) THEN t ELSE v.time
  /\ w.state = v.state /\ w.turns = v.turns /\ w.listed = v.listed
  /\ w.link = IF v.link = "notSet" THEN "set" ELSE v.link

\* The distance of a time asked for.
LEMMA DistanceIs ==
  ASSUME NEW c \in Time, NEW d \in Distance
  PROVE  /\ d \in Int /\ Until(d) \in Span /\ Until(d) \in Int /\ Until(d) > -MaxLag
         /\ (c + d) % Modulus \in Time
         /\ (c + d) % Modulus = (c + Until(d) - 1) % Modulus
<1>1. c \in Int /\ Half \in Nat /\ MaxLag \in Nat
  BY ClockBounds
<1>2. d \in -MaxLag .. Half - MaxLag - 1
  BY TimerAssumption
<1>3. d \in Int /\ -MaxLag <= d /\ d <= Half - MaxLag - 1
  BY <1>1, <1>2
<1>4. Until(d) \in Span /\ Until(d) \in Int /\ Until(d) > -MaxLag /\ c + d = c + Until(d) - 1
  BY <1>1, <1>3 DEF Until, Span
<1>5. c + d \in Int
  BY <1>1, <1>3
<1> DEFINE k == c + d
<1> HIDE DEF k
<1>6. k % Modulus \in Time
  BY <1>5, TimeAt DEF k
<1> QED BY <1>3, <1>4, <1>6 DEF k

\* The earliest time is in its word.
LEMMA EnabledFine ==
  ASSUME NEW c \in Time, NEW v, Fine(c, v), v.pc = "enabling", NEW d \in Distance,
         NEW w, Enabled(c, v, w, (c + d) % Modulus, d), (c + d) % Modulus \notin v.guards
  PROVE  Fine(c, w)
<1> DEFINE t == (c + d) % Modulus
           n == Until(d)
<1>1. Kinds(v) /\ Asks(c, v.left) /\ EnablingFine(v)
  BY DEF Fine
<1>2. t \in Time /\ n \in Span /\ n \in Int /\ n > -MaxLag /\ t = (c + n - 1) % Modulus /\ t \notin v.guards
  BY DistanceIs
<1>3. Enabled(c, v, w, t, d)
  OBVIOUS
<1> HIDE DEF t
<1>4. /\ w.pc = "enabling" /\ w.temp = v.temp /\ w.guards = v.guards \union {t}
      /\ w.armed = v.armed /\ w.sender = v.sender
      /\ w.state = v.state /\ w.turns = v.turns /\ w.listed = v.listed
  BY <1>3 DEF Enabled
<1>5. /\ w.link = IF v.link = "notSet" THEN "set" ELSE v.link
      /\ w.time = IF v.link = "notSet" \/ After(v.time, t) THEN t ELSE v.time
  BY <1>3 DEF Enabled
<1>6. /\ DOMAIN w.left = v.guards \union {t} /\ w.left[t] = n
      /\ \A u \in v.guards : w.left[u] = v.left[u]
  BY <1>2, <1>3, <1>4 DEF Enabled
<1>7. v.guards \subseteq DOMAIN v.left
  BY <1>1 DEF EnablingFine
<1> HIDE DEF n
<1>8. Kinds(w)
  BY <1>1, <1>2, <1>4, <1>5 DEF Kinds
<1>9. Asks(c, w.left)
  <2>1. ASSUME NEW u \in DOMAIN w.left
        PROVE  u \in Time /\ w.left[u] \in Span /\ u = (c + w.left[u] - 1) % Modulus
    <3>1. CASE u = t
      BY <1>2, <1>6, <3>1
    <3>2. CASE u # t
      <4>1. u \in v.guards /\ u \in DOMAIN v.left
        BY <1>6, <1>7, <3>2
      <4> QED BY <1>1, <1>6, <4>1, LeftIs
    <3> QED BY <3>1, <3>2
  <2> QED BY <2>1 DEF Asks
<1>10. /\ w.link = "set" /\ w.time \in w.guards
       /\ \A u \in w.guards : w.left[w.time] <= w.left[u]
  <2>1. CASE v.link = "notSet"
    <3>1. v.guards = {} /\ w.time = t /\ w.link = "set"
      BY <1>1, <1>5, <2>1 DEF EnablingFine
    <3> QED BY <1>2, <1>4, <1>6, <3>1
  <2>2. CASE v.link # "notSet"
    <3> DEFINE e == v.time
               x == v.left[e]
    <3>1. v.link = "set" /\ e \in v.guards /\ \A u \in v.guards : x <= v.left[u]
      BY <1>1, <2>2 DEF EnablingFine
    <3>2. e \in DOMAIN v.left
      BY <1>7, <3>1
    <3>3. x \in Span /\ x \in Int /\ e = (c + x - 1) % Modulus
      BY <1>1, <3>2, LeftIs
    <3>4. w.link = "set"
      BY <1>5, <2>2, <3>1
    <3>5. w.time = IF After(e, t) THEN t ELSE e
      BY <1>5, <2>2
    <3>6. \A u \in v.guards : v.left[u] \in Int
      BY <1>1, <1>7, LeftIs
    <3> HIDE DEF e, x
    <3>7. After((c + x - 1) % Modulus, (c + n - 1) % Modulus) <=> x > n
      BY <1>2, <3>3, AskedAfter
    <3>8. After(e, t) <=> x > n
      BY <1>2, <3>3, <3>7
    <3>9. CASE x > n
      <4>1. w.time = t /\ w.left[w.time] = n
        BY <1>6, <3>5, <3>8, <3>9
      <4>2. ASSUME NEW u \in w.guards PROVE n <= w.left[u]
        <5>1. CASE u = t
          BY <1>2, <1>6, <5>1
        <5>2. CASE u # t
          <6>1. u \in v.guards /\ w.left[u] = v.left[u]
            BY <1>4, <1>6, <5>2
          <6> QED BY <1>2, <3>1, <3>3, <3>6, <3>9, <6>1
        <5> QED BY <5>1, <5>2
      <4> QED BY <1>4, <3>4, <4>1, <4>2
    <3>10. CASE ~(x > n)
      <4>1. w.time = e /\ w.left[w.time] = x
        BY <1>6, <3>1, <3>5, <3>8, <3>10 DEF x
      <4>2. ASSUME NEW u \in w.guards PROVE x <= w.left[u]
        <5>1. CASE u = t
          BY <1>2, <1>6, <3>3, <3>10, <5>1
        <5>2. CASE u # t
          <6>1. u \in v.guards /\ w.left[u] = v.left[u]
            BY <1>4, <1>6, <5>2
          <6> QED BY <3>1, <6>1
        <5> QED BY <5>1, <5>2
      <4> QED BY <1>4, <3>1, <3>4, <4>1, <4>2
    <3> QED BY <3>9, <3>10
  <2> QED BY <2>1, <2>2
<1>11. EnablingFine(w)
  BY <1>1, <1>4, <1>6, <1>10 DEF EnablingFine
<1> QED BY <1>1, <1>4, <1>8, <1>9, <1>11 DEF Fine, EnablingFine

\* w is v with a channel guard.
Armed(v, w) ==
  /\ w.pc = v.pc /\ w.temp = v.temp /\ w.guards = v.guards
  /\ w.armed = TRUE /\ w.sender = v.sender /\ w.left = v.left /\ w.time = v.time
  /\ w.state = IF v.sender THEN "ready" ELSE v.state
  /\ w.turns = v.turns /\ w.listed = v.listed /\ w.link = v.link

\* It is ready if a sender waits.
LEMMA ArmedFine ==
  ASSUME NEW c, NEW v, Fine(c, v), v.pc = "enabling", NEW w, Armed(v, w)
  PROVE  Fine(c, w)
<1>1. Kinds(v) /\ Asks(c, v.left) /\ EnablingFine(v)
  BY DEF Fine
<1>2. Kinds(w)
  BY <1>1 DEF Armed, Kinds, Mark
<1>3. EnablingFine(w)
  BY <1>1 DEF Armed, EnablingFine
<1> QED BY <1>1, <1>2, <1>3 DEF Fine, Armed, EnablingFine

\* w is v with a sender in its channel.
Sent(v, w) ==
  /\ w.pc = v.pc /\ w.temp = v.temp /\ w.guards = v.guards
  /\ w.armed = v.armed /\ w.sender = TRUE /\ w.left = v.left /\ w.time = v.time
  /\ w.state = IF v.armed THEN "ready" ELSE v.state
  /\ w.turns = IF v.armed /\ v.state = "waiting" THEN v.turns + 1 ELSE v.turns
  /\ w.listed = v.listed /\ w.link = v.link

\* An alternative that waits for it wakes.
LEMMA SentFine ==
  ASSUME NEW c, NEW v, Fine(c, v), NEW w, Sent(v, w)
  PROVE  Fine(c, w)
<1>1. Kinds(v) /\ Asks(c, v.left)
  BY DEF Fine
<1>2. /\ w.pc = v.pc /\ w.temp = v.temp /\ w.guards = v.guards
      /\ w.armed = v.armed /\ w.sender = TRUE /\ w.left = v.left /\ w.time = v.time
      /\ w.listed = v.listed /\ w.link = v.link
      /\ w.state = IF v.armed THEN "ready" ELSE v.state
  BY DEF Sent
<1>3. w.turns = IF v.armed /\ v.state = "waiting" THEN v.turns + 1 ELSE v.turns
  BY DEF Sent
<1>4. v.listed => Deadline(c, w)
  BY <1>2 DEF Fine, Deadline
<1>5. v.turns \in 0 .. 1 /\ v.state \in {"enabling", "waiting", "ready"} /\ v.armed \in BOOLEAN
  BY <1>1 DEF Kinds, Mark
<1>6. ASSUME v.pc = "free" PROVE FreeFine(w) /\ w.turns \in 0 .. 1
  BY <1>2, <1>3, <1>5, <1>6 DEF Fine, FreeFine
<1>7. ASSUME v.pc = "enabling" PROVE EnablingFine(w) /\ w.turns \in 0 .. 1
  <2>1. EnablingFine(v)
    BY <1>7 DEF Fine
  <2>2. w.turns = v.turns
    BY <1>3, <2>1 DEF EnablingFine
  <2> QED BY <1>2, <1>5, <2>1, <2>2 DEF EnablingFine
<1>8. ASSUME v.pc = "disabling" PROVE DisablingFine(c, w) /\ w.turns \in 0 .. 1
  <2>1. DisablingFine(c, v)
    BY <1>8 DEF Fine
  <2>2. Recorded(c, v) => Recorded(c, w)
    BY <1>2 DEF Recorded
  <2>3. Promise(v) => Promise(w)
    BY <1>2 DEF Promise
  <2>4. CASE v.armed
    <3>1. w.state = "ready" /\ w.turns = 1
      <4>1. v.turns = 0 <=> v.state = "waiting"
        BY <2>1 DEF DisablingFine
      <4>2. v.state = "waiting" => w.turns = 0 + 1
        BY <1>3, <2>4, <4>1
      <4>3. v.state # "waiting" => w.turns = 1
        BY <1>3, <1>5, <4>1
      <4> QED BY <1>2, <2>4, <4>2, <4>3
    <3>2. Promise(w)
      BY <1>2, <2>4 DEF Promise
    <3> QED BY <1>2, <2>1, <2>2, <3>1, <3>2 DEF DisablingFine
  <2>5. CASE ~v.armed
    BY <1>2, <1>3, <1>5, <2>1, <2>2, <2>3, <2>5 DEF DisablingFine
  <2> QED BY <2>4, <2>5
<1>9. v.pc \in {"free", "enabling", "disabling"}
  BY DEF Fine
<1>10. w.turns \in 0 .. 1
  BY <1>6, <1>7, <1>8, <1>9
<1>11. Kinds(w)
  BY <1>1, <1>2, <1>10 DEF Kinds, Mark
<1> QED BY <1>1, <1>2, <1>4, <1>6, <1>7, <1>8, <1>9, <1>11 DEF Fine

\* w is v, ready at time c as taltwt leaves it.
Found(c, v, w) ==
  /\ w.pc = "disabling" /\ w.temp = NONE_SELECTED /\ w.guards = v.guards
  /\ w.armed = v.armed /\ w.sender = v.sender /\ w.left = v.left /\ w.time = c
  /\ w.state = "ready" /\ w.turns = v.turns /\ w.listed = v.listed /\ w.link = v.link

\* One of its guards is ready.
LEMMA FoundFine ==
  ASSUME NEW c \in Time, NEW v, Fine(c, v), v.pc = "enabling", v.guards # {} \/ v.armed,
         v.state = "ready" \/ (v.link = "set" /\ After(c, v.time)), NEW w, Found(c, v, w)
  PROVE  Fine(c, w)
<1>1. Kinds(v) /\ Asks(c, v.left) /\ EnablingFine(v)
  BY DEF Fine
<1>2. Kinds(w)
  BY <1>1 DEF Found, Kinds, Mark
<1>3. Recorded(c, w)
  <2> DEFINE ago == 0
  <2>1. ago \in Nat /\ c - ago = c /\ c % Modulus = c
    BY ClockBounds, TimeAt
  <2>2. \A t \in DOMAIN w.left : w.left[t] + ago \in Span
    <3> TAKE t \in DOMAIN w.left
    <3>1. w.left[t] \in Span /\ w.left[t] \in Int
      BY <1>1, LeftIs DEF Found
    <3>2. w.left[t] + ago = w.left[t]
      BY <3>1
    <3> QED BY <3>1, <3>2
  <2> HIDE DEF ago
  <2> QED BY <2>1, <2>2 DEF Found, Recorded
<1>4. Promise(w)
  <2>1. CASE v.state = "ready"
    BY <1>1, <2>1 DEF Found, Promise, EnablingFine
  <2>2. CASE v.link = "set" /\ After(c, v.time)
    BY <1>1, <2>2 DEF Found, Promise, EnablingFine
  <2> QED BY <2>1, <2>2
<1>5. DisablingFine(c, w)
  BY <1>1, <1>3, <1>4, Branches DEF Found, DisablingFine, EnablingFine
<1> QED BY <1>1, <1>2, <1>5 DEF Fine, Found, EnablingFine

\* w is v asleep, without a timer guard.
Slept(v, w) ==
  /\ w.pc = "disabling" /\ w.temp = NONE_SELECTED /\ w.guards = v.guards
  /\ w.armed = v.armed /\ w.sender = v.sender /\ w.left = v.left /\ w.time = v.time
  /\ w.state = "waiting" /\ w.turns = v.turns - 1 /\ w.listed = v.listed /\ w.link = v.link

\* It waits for its channel.
LEMMA SleptFine ==
  ASSUME NEW c \in Time, NEW v, Fine(c, v), v.pc = "enabling", v.guards # {} \/ v.armed,
         v.link = "notSet", NEW w, Slept(v, w)
  PROVE  Fine(c, w)
<1>1. Kinds(v) /\ Asks(c, v.left) /\ EnablingFine(v)
  BY DEF Fine
<1>2. w.turns = 0 /\ v.guards = {} /\ v.armed
  <2>1. w.turns = 1 - 1
    BY <1>1 DEF Slept, EnablingFine
  <2>2. v.guards = {}
    BY <1>1 DEF EnablingFine
  <2> QED BY <2>1, <2>2
<1>3. Kinds(w)
  <2>1. w.turns \in 0 .. 1
    BY <1>2
  <2> QED BY <1>1, <2>1 DEF Slept, Kinds, Mark
<1>4. DisablingFine(c, w)
  BY <1>1, <1>2, Branches DEF Slept, DisablingFine, EnablingFine
<1> QED BY <1>1, <1>3, <1>4 DEF Fine, Slept, EnablingFine

\* w is v asleep in the list until one tick after t, in its alternative.
SleptTimed(v, w, t) ==
  /\ w.pc = "disabling" /\ w.temp = NONE_SELECTED /\ w.guards = v.guards
  /\ w.armed = v.armed /\ w.sender = v.sender /\ w.left = v.left /\ w.time = (t + 1) % Modulus
  /\ w.state = "waiting" /\ w.turns = v.turns - 1 /\ w.listed = TRUE
  /\ w.link = NoProcess

\* The deadline of a time asked for is one tick later.
LEMMA DeadlineIs ==
  ASSUME NEW c \in Time, NEW a, Asks(c, a), NEW t \in DOMAIN a
  PROVE  (t + 1) % Modulus = (c + a[t]) % Modulus
<1> DEFINE x == a[t] - 1
           d == c + x
           y == 1
<1>1. c \in Int /\ a[t] \in Int /\ t = (c + a[t] - 1) % Modulus
  BY LeftIs, ClockBounds
<1>2. d \in Int /\ y \in Int /\ d + y = c + a[t] /\ d = c + a[t] - 1
  BY <1>1
<1> HIDE DEF d, y, x
<1>3. ((d % Modulus) + y) % Modulus = (d + y) % Modulus
  BY <1>2, TimeFrom
<1> QED BY <1>1, <1>2, <1>3 DEF y

\* It waits for the earliest of its times, which is still to come.
LEMMA SleptTimedFine ==
  ASSUME NEW c \in Time, NEW v, Fine(c, v), v.pc = "enabling", v.link = "set",
         ~After(c, v.time), NEW w, SleptTimed(v, w, v.time)
  PROVE  Fine(c, w) /\ Soonest(w.left) >= 1 /\ Soonest(w.left) \in Span
<1>1. Kinds(v) /\ Asks(c, v.left) /\ EnablingFine(v)
  BY DEF Fine
<1> DEFINE t == v.time
           n == v.left[t]
<1>2. t \in v.guards /\ t \in DOMAIN v.left /\ \A u \in DOMAIN v.left : n <= v.left[u]
  BY <1>1 DEF EnablingFine
<1>3. n \in Int /\ n \in Span
  BY <1>1, <1>2, LeftIs
<1>4. After(c, t) <=> n <= 0
  BY <1>1, <1>2, ClockAfter
<1>5. (t + 1) % Modulus = (c + n) % Modulus
  BY <1>1, <1>2, DeadlineIs
<1>6. \A u \in DOMAIN v.left : v.left[u] \in Int
  BY <1>1, LeftIs
<1>7. w.left = v.left /\ w.time = (t + 1) % Modulus /\ w.listed = TRUE
  BY DEF SleptTimed
<1> HIDE DEF n, t
<1>8. LeastOf(v.left, n)
  BY <1>2 DEF LeastOf, n
<1>9. Soonest(v.left) = n
  BY <1>3, <1>6, <1>8, SoonestOnly
<1>10. n >= 1
  BY <1>3, <1>4 DEF t
<1>11. w.turns = 0
  <2>1. w.turns = 1 - 1
    BY <1>1 DEF SleptTimed, EnablingFine
  <2> QED BY <2>1
<1>12. (t + 1) % Modulus \in Time
  BY <1>3, <1>5, TimeAt, ClockBounds
<1>13. Kinds(w)
  <2>1. w.turns \in 0 .. 1
    BY <1>11
  <2> QED BY <1>1, <1>12, <2>1 DEF SleptTimed, Kinds, Mark, t
<1>14. Deadline(c, w)
  BY <1>2, <1>5, <1>7, <1>9 DEF Deadline
<1>15. DisablingFine(c, w)
  <2>1. w.link # "set"
    BY LinkMarks DEF SleptTimed
  <2> QED BY <1>1, <1>11, <2>1, Branches DEF SleptTimed, DisablingFine, EnablingFine
<1> QED BY <1>1, <1>3, <1>7, <1>9, <1>10, <1>13, <1>14, <1>15 DEF Fine, SleptTimed

\* w is v asleep in tin, in the list until one tick after t, d ticks from the clock.
SleptUntil(v, w, t, d) ==
  /\ w.pc = v.pc /\ w.temp = v.temp /\ w.guards = v.guards
  /\ w.armed = v.armed /\ w.sender = v.sender
  /\ w.left = [u \in {t} |-> Until(d)] /\ w.time = (t + 1) % Modulus
  /\ w.state = "enabling" /\ w.turns = v.turns - 1 /\ w.listed = TRUE

\* Its time is still to come.
LEMMA SleptUntilFine ==
  ASSUME NEW c \in Time, NEW v, Fine(c, v), v.pc = "free", v.turns = 1, NEW d \in Distance,
         ~After(c, (c + d) % Modulus), NEW w, SleptUntil(v, w, (c + d) % Modulus, d)
  PROVE  Fine(c, w) /\ Soonest(w.left) >= 1 /\ Soonest(w.left) \in Span
<1> DEFINE t == (c + d) % Modulus
           n == Until(d)
           a == w.left
<1>1. Kinds(v) /\ FreeFine(v)
  BY DEF Fine
<1>2. t \in Time /\ n \in Span /\ n \in Int /\ t = (c + n - 1) % Modulus
  BY DistanceIs
<1>3. SleptUntil(v, w, t, d) /\ ~After(c, t)
  OBVIOUS
<1> HIDE DEF t, n
<1>4. DOMAIN a = {t} /\ a[t] = n /\ w.time = (t + 1) % Modulus /\ w.listed = TRUE
  BY <1>3 DEF SleptUntil, n
<1> HIDE DEF a
<1>5. Asks(c, a)
  BY <1>2, <1>4 DEF Asks
<1>6. LeastOf(a, n) /\ \A u \in DOMAIN a : a[u] \in Int
  BY <1>2, <1>4 DEF LeastOf
<1>7. Soonest(a) = n
  BY <1>2, <1>6, SoonestOnly
<1>8. n >= 1
  <2>1. After(c, t) <=> n <= 0
    BY <1>4, <1>5, ClockAfter
  <2> QED BY <1>2, <1>3, <2>1
<1>9. (t + 1) % Modulus = (c + n) % Modulus
  BY <1>4, <1>5, DeadlineIs
<1>10. (t + 1) % Modulus \in Time
  BY <1>2, <1>9, TimeAt, ClockBounds
<1>11. w.turns = 0
  <2>1. w.turns = 1 - 1
    BY <1>3 DEF SleptUntil
  <2> QED BY <2>1
<1>12. Kinds(w)
  <2>1. w.turns \in 0 .. 1
    BY <1>11
  <2> QED BY <1>1, <1>3, <1>10, <2>1 DEF SleptUntil, Kinds, Mark
<1>13. Deadline(c, w)
  BY <1>4, <1>7, <1>9 DEF Deadline, a
<1>14. FreeFine(w)
  BY <1>1, <1>3, <1>4, <1>11 DEF FreeFine, SleptUntil, a
<1> QED BY <1>2, <1>3, <1>5, <1>7, <1>8, <1>12, <1>13, <1>14 DEF Fine, SleptUntil, a

\* w is v as dist of a time leaves it.
Disabled(v, w, t) ==
  /\ w.pc = v.pc /\ w.guards = v.guards \ {t}
  /\ w.temp = IF v.link = "set" /\ After(v.time, t) /\ v.temp = NONE_SELECTED THEN t ELSE v.temp
  /\ w.armed = v.armed /\ w.sender = v.sender /\ w.left = v.left /\ w.time = v.time
  /\ w.state = v.state /\ w.turns = v.turns /\ w.listed = FALSE
  /\ w.link = IF v.listed THEN "notSet" ELSE v.link

\* What the recorded clock says of its times.
LEMMA RecordedAfter ==
  ASSUME NEW c \in Time, NEW v, Asks(c, v.left), Recorded(c, v), NEW t \in DOMAIN v.left,
         After(v.time, t)
  PROVE  v.left[t] <= 0
<1>1. PICK ago \in Nat : /\ v.time = (c - ago) % Modulus
                         /\ \A u \in DOMAIN v.left : v.left[u] + ago \in Span
  BY DEF Recorded
<1>2. After((c - ago) % Modulus, t) <=> v.left[t] + ago <= 0
  BY <1>1, AfterAsked
<1>3. v.left[t] \in Int
  BY LeftIs
<1> QED BY <1>1, <1>2, <1>3

\* It selects only a time that is past, and not the last guard that is ready.
LEMMA DisabledFine ==
  ASSUME NEW c \in Time, NEW v, Fine(c, v), v.pc = "disabling", v.turns = 1, NEW t \in v.guards,
         v.listed => v.link = NoProcess, NEW w, Disabled(v, w, t)
  PROVE  Fine(c, w)
<1>1. Kinds(v) /\ Asks(c, v.left) /\ DisablingFine(c, v)
  BY DEF Fine
<1>2. /\ w.pc = v.pc /\ w.guards = v.guards \ {t}
      /\ w.armed = v.armed /\ w.sender = v.sender /\ w.left = v.left /\ w.time = v.time
      /\ w.state = v.state /\ w.turns = v.turns /\ w.listed = FALSE
      /\ w.link = IF v.listed THEN "notSet" ELSE v.link
  BY DEF Disabled
<1>3. w.temp = IF v.link = "set" /\ After(v.time, t) /\ v.temp = NONE_SELECTED THEN t ELSE v.temp
  BY DEF Disabled
<1>4. t \in Time /\ t \in DOMAIN v.left /\ v.guards \subseteq DOMAIN v.left /\ v.listed \in BOOLEAN
  BY <1>1 DEF DisablingFine, Kinds
<1>5. Kinds(w)
  BY <1>1, <1>2, <1>3, <1>4 DEF Kinds
<1>6. ASSUME w.temp \in Time PROVE w.temp \in DOMAIN w.left /\ w.left[w.temp] <= 0
  <2>1. CASE v.link = "set" /\ After(v.time, t) /\ v.temp = NONE_SELECTED
    <3>1. Recorded(c, v)
      BY <1>1, <1>4, <2>1 DEF DisablingFine
    <3>2. v.left[t] <= 0
      BY <1>1, <1>4, <2>1, <3>1, RecordedAfter
    <3> QED BY <1>2, <1>3, <1>4, <2>1, <3>2
  <2>2. CASE ~(v.link = "set" /\ After(v.time, t) /\ v.temp = NONE_SELECTED)
    BY <1>1, <1>2, <1>3, <1>6, <2>2 DEF DisablingFine
  <2> QED BY <2>1, <2>2
<1>7. w.temp = CHANNEL => w.sender
  BY <1>1, <1>2, <1>3, <1>4, Branches DEF DisablingFine
<1>8. ASSUME w.temp = NONE_SELECTED PROVE Promise(w)
  <2>1. v.temp = NONE_SELECTED /\ ~(v.link = "set" /\ After(v.time, t))
    BY <1>3, <1>4, <1>8, Branches
  <2>2. Promise(v)
    BY <1>1, <2>1 DEF DisablingFine
  <2>3. v.link = "set" => ~v.listed
    BY LinkMarks
  <2> QED BY <1>2, <2>1, <2>2, <2>3 DEF Promise
<1>9. w.link = "set" => DOMAIN w.left = {} \/ Recorded(c, w)
  BY <1>1, <1>2 DEF DisablingFine, Recorded
<1>10. w.link \in {"set", "notSet"}
  BY <1>1, <1>2, <1>4 DEF DisablingFine
<1>11. DisablingFine(c, w)
  <2>1. w.turns # 0 /\ w.turns = 1
    BY <1>2
  <2> QED BY <1>1, <1>2, <1>4, <1>6, <1>7, <1>8, <1>9, <1>10, <2>1 DEF DisablingFine
<1> QED BY <1>1, <1>2, <1>5, <1>11 DEF Fine

\* w is v as disc leaves it.
Disarmed(v, w) ==
  /\ w.pc = v.pc /\ w.guards = v.guards
  /\ w.temp = IF v.sender /\ v.temp = NONE_SELECTED THEN CHANNEL ELSE v.temp
  /\ w.armed = FALSE /\ w.sender = v.sender /\ w.left = v.left /\ w.time = v.time
  /\ w.state = v.state /\ w.turns = v.turns /\ w.listed = v.listed /\ w.link = v.link

\* It selects its channel only with a sender.
LEMMA DisarmedFine ==
  ASSUME NEW c \in Time, NEW v, Fine(c, v), v.pc = "disabling", v.turns = 1, NEW w, Disarmed(v, w)
  PROVE  Fine(c, w)
<1>1. Kinds(v) /\ Asks(c, v.left) /\ DisablingFine(c, v)
  BY DEF Fine
<1>2. /\ w.pc = v.pc /\ w.guards = v.guards
      /\ w.armed = FALSE /\ w.sender = v.sender /\ w.left = v.left /\ w.time = v.time
      /\ w.state = v.state /\ w.turns = v.turns /\ w.listed = v.listed /\ w.link = v.link
      /\ w.temp = IF v.sender /\ v.temp = NONE_SELECTED THEN CHANNEL ELSE v.temp
  BY DEF Disarmed
<1>3. Kinds(w)
  BY <1>1, <1>2 DEF Kinds
<1>4. w.listed => Deadline(c, w)
  BY <1>2 DEF Fine, Deadline
<1>5. w.temp \in Time => w.temp = v.temp
  BY <1>2, Branches
<1>6. Recorded(c, v) => Recorded(c, w)
  BY <1>2 DEF Recorded
<1>7. ASSUME w.temp = NONE_SELECTED PROVE Promise(w)
  <2>1. v.temp = NONE_SELECTED /\ ~v.sender
    BY <1>2, <1>7, Branches
  <2> QED BY <1>1, <1>2, <2>1 DEF Promise, DisablingFine
<1>8. DisablingFine(c, w)
  BY <1>1, <1>2, <1>5, <1>6, <1>7 DEF DisablingFine
<1> QED BY <1>1, <1>2, <1>3, <1>4, <1>8 DEF Fine

\* w is v out of its alternative.
Ended(v, w) ==
  /\ w.pc = "free" /\ w.temp = v.temp /\ w.guards = v.guards
  /\ w.armed = v.armed /\ w.sender \in BOOLEAN /\ w.left = Nothing /\ w.time = v.time
  /\ w.state = v.state /\ w.turns = v.turns /\ w.listed = v.listed /\ w.link = v.link

\* It is in no list.
LEMMA EndedFine ==
  ASSUME NEW c \in Time, NEW v, Fine(c, v), v.pc = "disabling", v.turns = 1, v.guards = {}, ~v.armed,
         NEW w, Ended(v, w)
  PROVE  Fine(c, w) /\ ~v.listed
<1>1. Kinds(v) /\ Asks(c, v.left) /\ DisablingFine(c, v)
  BY DEF Fine
<1>2. ~v.listed
  BY <1>1 DEF Fine, Deadline, DisablingFine
<1>3. DOMAIN w.left = {}
  BY DEF Ended, Nothing
<1>4. Kinds(w)
  BY <1>1 DEF Ended, Kinds
<1>5. FreeFine(w)
  BY <1>1, <1>2 DEF Ended, FreeFine, DisablingFine
<1>6. Asks(c, w.left)
  BY <1>3 DEF Asks
<1> QED BY <1>2, <1>4, <1>5, <1>6 DEF Fine, Ended

\* The clock may change while a process asks for nothing.
LEMMA UnaskedFine ==
  ASSUME NEW c, NEW v, Fine(c, v), DOMAIN v.left = {}, NEW k
  PROVE  Fine(k, v) /\ ~v.listed
<1>1. ~v.listed
  BY DEF Fine, Deadline
<1>2. Asks(k, v.left)
  BY DEF Asks
<1>3. DisablingFine(c, v) => DisablingFine(k, v)
  BY DEF DisablingFine
<1> QED BY <1>1, <1>2, <1>3 DEF Fine


\* What a process asked for may be forgotten when it runs outside of an alternative.
Forgot(v, w) ==
  /\ w.pc = v.pc /\ w.temp = v.temp /\ w.guards = v.guards
  /\ w.armed = v.armed /\ w.sender = v.sender /\ w.left = Nothing /\ w.time = v.time
  /\ w.state = v.state /\ w.turns = v.turns /\ w.listed = v.listed /\ w.link = v.link

\* It is in no list.
LEMMA ForgotFine ==
  ASSUME NEW c, NEW v, Fine(c, v), v.pc = "free", v.turns = 1, NEW w, Forgot(v, w)
  PROVE  Fine(c, w) /\ ~v.listed
<1>1. Kinds(v) /\ FreeFine(v) /\ ~v.listed
  BY DEF Fine, FreeFine
<1>2. DOMAIN w.left = {}
  BY DEF Forgot, Nothing
<1>3. Kinds(w)
  BY <1>1 DEF Forgot, Kinds
<1>4. FreeFine(w)
  BY <1>1 DEF Forgot, FreeFine
<1>5. Asks(c, w.left)
  BY <1>2 DEF Asks
<1> QED BY <1>1, <1>3, <1>4, <1>5 DEF Fine, Forgot

-----------------------------------------------------------------------------
(* All processes *)

\* The fields of a view.
LEMMA ViewIs ==
  ASSUME NEW l, NEW q, NEW g, NEW p
  PROVE  LET v == View(l, q, g, p)
         IN  /\ v.pc = g.pc[p] /\ v.temp = g.temp[p] /\ v.guards = g.guards[p]
             /\ v.armed = g.armed[p] /\ v.sender = g.sender[p] /\ v.left = l[p]
             /\ v.time = q.time[p] /\ v.state = q.state[p] /\ v.turns = q.turns[p]
             /\ v.listed = Holds(q.sleepers, p)
             /\ v.link = IF Holds(q.sleepers, p) THEN NoProcess ELSE q.tlink[p]
BY DEF View

\* A list is a record.
LEMMA ListIs ==
  ASSUME NEW q, ListTyped(q)
  PROVE  /\ q.tptr \in Proc \union {NoProcess} /\ q.tnext \in Time
         /\ q.time \in [Proc -> Time] /\ q.tlink \in [Proc -> Proc \union {NoProcess, "notSet", "set"}]
         /\ q.state \in [Proc -> Mark] /\ q.turns \in [Proc -> 0 .. 1] /\ q.sleepers \in Seq(Proc)
BY DEF ListTyped, Lists

\* An entry waits for its first deadline.
LEMMA EntryIs ==
  ASSUME NEW c, NEW h, NEW l, NEW q, NEW g, Good(c, h, l, q, g), NEW x \in Proc, Holds(q.sleepers, x)
  PROVE  /\ Asks(c, l[x]) /\ DOMAIN l[x] # {} /\ q.time[x] = (c + Soonest(l[x])) % Modulus
         /\ Soonest(l[x]) \in Span /\ Soonest(l[x]) \in Int /\ LeastOf(l[x], Soonest(l[x]))
<1> DEFINE v == View(l, q, g, x)
<1>1. Fine(c, v) /\ v.left = l[x] /\ v.time = q.time[x] /\ v.listed
  BY ViewIs DEF Good
<1> HIDE DEF v
<1>2. Asks(c, l[x]) /\ DOMAIN l[x] # {} /\ q.time[x] = (c + Soonest(l[x])) % Modulus
  BY <1>1 DEF Fine, Deadline
<1>3. Soonest(l[x]) \in Span /\ LeastOf(l[x], Soonest(l[x]))
  BY <1>2, SoonestIs
<1> QED BY <1>2, <1>3, ClockBounds DEF Span

\* So are the places of the list.
LEMMA PlacesAre ==
  ASSUME NEW c, NEW h, NEW l, NEW q, NEW g, Good(c, h, l, q, g)
  PROVE  /\ q.sleepers \in Seq(Proc) /\ Len(q.sleepers) \in Nat
         /\ \A i \in 1 .. Len(q.sleepers) :
              /\ q.sleepers[i] \in Proc /\ Holds(q.sleepers, q.sleepers[i])
              /\ Rank(l, q.sleepers, i) \in Span
         /\ Ranked(l, q.sleepers)
<1>1. q.sleepers \in Seq(Proc)
  BY ListIs DEF Good
<1>2. Len(q.sleepers) \in Nat /\ \A i \in 1 .. Len(q.sleepers) : q.sleepers[i] \in Proc
  BY <1>1, LenProperties, ElementOfSeq
<1>3. ASSUME NEW i \in 1 .. Len(q.sleepers)
      PROVE  /\ Holds(q.sleepers, q.sleepers[i])
               /\ Rank(l, q.sleepers, i) \in Span /\ Rank(l, q.sleepers, i) \in Int
  <2>1. Holds(q.sleepers, q.sleepers[i]) /\ q.sleepers[i] \in Proc
    BY <1>2 DEF Holds
  <2>2. Soonest(l[q.sleepers[i]]) \in Span /\ Soonest(l[q.sleepers[i]]) \in Int
    BY <2>1, EntryIs
  <2> QED BY <2>1, <2>2 DEF Rank
<1> QED BY <1>1, <1>2, <1>3 DEF Ranked

\* What is asked for, so many ticks later.
AllLater(l, m, ticks) ==
  \A p \in Proc : Later(l[p], m[p], ticks) /\ \A t \in DOMAIN m[p] : m[p][t] >= -MaxLag

\* Time passes for all processes.
LEMMA PassedGood ==
  ASSUME NEW c, NEW h, NEW l, NEW q, NEW g, Good(c, h, l, q, g),
         NEW ticks \in Nat, NEW m, AllLater(l, m, ticks)
  PROVE  /\ Good((c + ticks) % Modulus, h, m, q, g)
         /\ \A x \in Proc : Holds(q.sleepers, x) =>
              (Due(c, ticks, q.time[x]) <=> Soonest(m[x]) <= 0)
<1> DEFINE k == (c + ticks) % Modulus
<1>1. c \in Time /\ ListTyped(q) /\ Listed(h, l, q)
  BY DEF Good
<1>2. k \in Time
  <2> DEFINE d == c + ticks
  <2>1. d \in Int
    BY <1>1, ClockBounds
  <2> HIDE DEF d
  <2>2. d % Modulus \in Time
    BY <2>1, TimeAt
  <2> QED BY <2>2 DEF d
<1>3. ASSUME NEW p \in Proc PROVE Fine(k, View(m, q, g, p))
  <2>1. Fine(c, View(l, q, g, p))
    BY DEF Good
  <2>2. Later(l[p], m[p], ticks) /\ \A t \in DOMAIN m[p] : m[p][t] >= -MaxLag
    BY DEF AllLater
  <2>3. Passed(View(l, q, g, p), View(m, q, g, p), ticks)
    BY <2>2, ViewIs DEF Passed
  <2> QED BY <1>1, <2>1, <2>3, PassedFine
<1>4. ASSUME NEW x \in Proc, Holds(q.sleepers, x)
      PROVE  Soonest(m[x]) = Soonest(l[x]) - ticks
  <2>1. Asks(c, l[x]) /\ DOMAIN l[x] # {}
    BY <1>4, EntryIs
  <2>2. Later(l[x], m[x], ticks)
    BY DEF AllLater
  <2> QED BY <2>1, <2>2, SoonestLater
<1>5. InOrder(m, q.sleepers)
  <2>1. Ranked(l, q.sleepers) /\ InOrder(l, q.sleepers)
    BY <1>1, PlacesAre DEF Listed
  <2>2. \A i \in 1 .. Len(q.sleepers) : Rank(m, q.sleepers, i) = Rank(l, q.sleepers, i) - ticks
    BY <1>4, PlacesAre DEF Rank
  <2> QED BY <2>1, <2>2, LaterInOrder
<1>6. ASSUME NEW x \in Proc, Holds(q.sleepers, x)
      PROVE  Due(c, ticks, q.time[x]) <=> Soonest(m[x]) <= 0
  <2> DEFINE s == Soonest(l[x])
  <2>1. s \in Span /\ s \in Int /\ q.time[x] = (c + s) % Modulus
    BY <1>6, EntryIs
  <2>2. Soonest(m[x]) = s - ticks
    BY <1>4, <1>6
  <2> HIDE DEF s
  <2>3. Due(c, ticks, (c + s) % Modulus) <=> s <= ticks
    BY <1>1, <2>1, DueIs
  <2>4. s <= ticks <=> s - ticks <= 0
    BY <2>1
  <2> QED BY <2>1, <2>2, <2>3, <2>4
<1>7. Listed(h, m, q)
  BY <1>1, <1>5 DEF Listed
<1>8. Good(k, h, m, q, g)
  BY <1>2, <1>3, <1>7 DEF Good
<1> QED BY <1>6, <1>8

-----------------------------------------------------------------------------
(* Releases *)

\* r is q without the entries before place n, which are ready now.
Releases(q, r, n, now) ==
  LET ws == q.sleepers
      Gone(p) == \E i \in 1 .. n - 1 : ws[i] = p
      Alt(p)  == Gone(p) /\ q.state[p] \in {"waiting", "ready"}
  IN  /\ Rest(ws, n, r.sleepers)
      /\ r.tptr = IF n <= Len(ws) THEN ws[n] ELSE NoProcess
      /\ n <= Len(ws) => r.tnext = q.time[ws[n]]
      /\ \A p \in Proc :
           /\ r.state[p] = IF Alt(p) THEN "ready" ELSE q.state[p]
           /\ r.time[p] = IF Alt(p) THEN now ELSE q.time[p]
           /\ r.tlink[p] = IF Alt(p) THEN "set" ELSE q.tlink[p]
           /\ r.turns[p] = q.turns[p] + IF Gone(p) /\ q.state[p] # "ready" THEN 1 ELSE 0

\* What releaseDueTimers makes of a list.
LEMMA ReleasedIs ==
  ASSUME NEW q, ListTyped(q), Linked(q.tlink, q.tptr, q.sleepers), NEW c \in Int, NEW ticks \in Nat,
         \A p \in Proc : Holds(q.sleepers, p) /\ q.state[p] # "ready" => q.turns[p] = 0
  PROVE  \E n \in Nat :
           /\ PlaceIs(n, q.sleepers, {w \in Proc : ~Due(c, ticks, q.time[w])})
           /\ Releases(q, Released(q, c, ticks), n, (c + ticks) % Modulus)
           /\ ListTyped(Released(q, c, ticks))
<1> DEFINE late == {w \in Proc : ~Due(c, ticks, q.time[w])}
           ws   == q.sleepers
           walk == Walk(q)
           n    == FirstPlace(walk, late)
           gone == {walk[m] : m \in 1 .. n - 1}
           alts == {p \in gone : q.state[p] \in {"waiting", "ready"}}
           now  == (c + ticks) % Modulus
           wake == Woken(q, gone)
           st   == [p \in Proc |-> IF p \in alts THEN "ready" ELSE q.state[p]]
           ti   == [p \in Proc |-> IF p \in alts THEN now ELSE q.time[p]]
           tl   == [p \in Proc |-> IF p \in alts THEN "set" ELSE q.tlink[p]]
           tu   == [p \in Proc |-> q.turns[p] + IF p \in wake THEN 1 ELSE 0]
           nx   == IF walk[n] # NoProcess THEN q.time[walk[n]]
                   ELSE IF n > 2 THEN q.time[walk[n - 1]] ELSE q.tnext
           sl   == SubSeq(ws, n, Len(ws))
           r    == Released(q, c, ticks)
<1>1. /\ PlaceIs(n, ws, late) /\ ws \in Seq(Proc)
      /\ walk[n] = IF n <= Len(ws) THEN ws[n] ELSE NoProcess
      /\ \A m \in 1 .. n - 1 : walk[m] = ws[m]
  <2>1. late \subseteq Proc
    OBVIOUS
  <2> HIDE DEF late
  <2> QED BY <2>1, PlaceInList
<1>2. /\ q.tptr \in Proc \union {NoProcess} /\ q.tnext \in Time
      /\ q.time \in [Proc -> Time] /\ q.tlink \in [Proc -> Proc \union {NoProcess, "notSet", "set"}]
      /\ q.state \in [Proc -> Mark] /\ q.turns \in [Proc -> 0 .. 1]
  BY ListIs
<1>3. r = [q EXCEPT !.tptr = walk[n], !.tnext = nx, !.state = st, !.time = ti,
                    !.tlink = tl, !.turns = tu, !.sleepers = sl]
  BY DEF Released
<1>4. now \in Time
  <2> DEFINE d == c + ticks
  <2>1. d \in Int
    OBVIOUS
  <2> HIDE DEF d
  <2>2. d % Modulus \in Time
    BY <2>1, TimeAt
  <2> QED BY <2>2 DEF d
<1>5. \A p : p \in gone <=> \E i \in 1 .. n - 1 : ws[i] = p
  BY <1>1
<1>6. \A p : p \in wake <=> p \in gone /\ q.state[p] # "ready"
  BY DEF Woken
<1>7. \A p : p \in alts <=> p \in gone /\ q.state[p] \in {"waiting", "ready"}
  OBVIOUS
<1>8. n \in Nat /\ n >= 1 /\ n <= Len(ws) + 1 /\ Len(ws) \in Nat
      /\ \A m \in 1 .. n - 1 : m \in 1 .. Len(ws)
  BY <1>1, LenProperties DEF PlaceIs
<1>9. \A i \in 1 .. Len(ws) : ws[i] \in Proc
  BY <1>1, ElementOfSeq
<1> HIDE DEF late, walk, n, gone, alts, wake, now, r
<1>10. /\ st \in [Proc -> Mark] /\ ti \in [Proc -> Time]
       /\ tl \in [Proc -> Proc \union {NoProcess, "notSet", "set"}]
  BY <1>2, <1>4 DEF Mark
<1>11. tu \in [Proc -> 0 .. 1]
  <2> SUFFICES ASSUME NEW p \in Proc PROVE q.turns[p] + (IF p \in wake THEN 1 ELSE 0) \in 0 .. 1
    OBVIOUS
  <2>1. q.turns[p] \in 0 .. 1
    BY <1>2
  <2>2. CASE p \in wake
    <3>1. Holds(ws, p) /\ q.state[p] # "ready"
      BY <1>5, <1>6, <1>8, <2>2 DEF Holds
    <3>2. q.turns[p] = 0
      BY <3>1
    <3> QED BY <2>2, <3>2
  <2>3. CASE p \notin wake
    BY <2>1, <2>3
  <2> QED BY <2>2, <2>3
<1>12. nx \in Time
  <2>1. n <= Len(ws) => ws[n] \in Proc
    BY <1>8, <1>9
  <2>2. n > 2 => walk[n - 1] \in Proc
    <3>1. n > 2 => n - 1 \in 1 .. n - 1
      BY <1>8
    <3> QED BY <1>1, <1>8, <1>9, <3>1
  <2> QED BY <1>1, <1>2, <2>1, <2>2
<1>13. sl \in Seq(Proc) /\ Rest(ws, n, sl)
  BY <1>1, <1>8, RestIs DEF Rest
<1>14. walk[n] \in Proc \union {NoProcess}
  BY <1>1, <1>8, <1>9
<1>15. n <= Len(ws) => nx = q.time[ws[n]]
  BY <1>1, <1>8, <1>9, LinkMarks
<1>16. /\ \A p \in Proc : st[p] = IF p \in alts THEN "ready" ELSE q.state[p]
       /\ \A p \in Proc : ti[p] = IF p \in alts THEN now ELSE q.time[p]
       /\ \A p \in Proc : tl[p] = IF p \in alts THEN "set" ELSE q.tlink[p]
       /\ \A p \in Proc : tu[p] = q.turns[p] + IF p \in wake THEN 1 ELSE 0
  OBVIOUS
<1> HIDE DEF st, ti, tl, tu, nx, sl
<1>17. r.tptr = walk[n] /\ r.tnext = nx /\ r.state = st
  BY <1>3 DEF ListTyped, Lists
<1>18. r.time = ti /\ r.tlink = tl /\ r.turns = tu /\ r.sleepers = sl
  BY <1>3 DEF ListTyped, Lists
<1>19. r \in Lists
  <2>1. q \in Lists
    BY DEF ListTyped
  <2> QED BY <1>3, <1>10, <1>11, <1>12, <1>13, <1>14, <2>1 DEF Lists
<1>20. ASSUME NEW p \in Proc
       PROVE  LET Gone(x) == \E i \in 1 .. n - 1 : ws[i] = x
                  Alt(x)  == Gone(x) /\ q.state[x] \in {"waiting", "ready"}
              IN  /\ r.state[p] = IF Alt(p) THEN "ready" ELSE q.state[p]
                  /\ r.time[p] = IF Alt(p) THEN now ELSE q.time[p]
                  /\ r.tlink[p] = IF Alt(p) THEN "set" ELSE q.tlink[p]
                  /\ r.turns[p] = q.turns[p] + IF Gone(p) /\ q.state[p] # "ready" THEN 1 ELSE 0
  BY <1>5, <1>6, <1>7, <1>16, <1>17, <1>18
<1>21. Releases(q, r, n, now)
  BY <1>1, <1>13, <1>15, <1>17, <1>18, <1>20 DEF Releases
<1> QED BY <1>1, <1>8, <1>19, <1>21 DEF ListTyped, r, now, late

\* A sleeper that is not ready has no turn.
LEMMA SleeperWaits ==
  ASSUME NEW c, NEW v, Fine(c, v), v.listed, v.state # "ready"
  PROVE  v.turns = 0
<1>1. v.state \in {"enabling", "waiting", "ready"}
  BY DEF Fine, Kinds, Mark
<1> QED BY <1>1 DEF Fine, FreeFine, EnablingFine, DisablingFine

\* The due entries leave, and nobody who is due stays.
LEMMA ReleasedGood ==
  ASSUME NEW c \in Int, NEW ticks \in Nat, NEW m, NEW q, NEW g,
         Good((c + ticks) % Modulus, NoProcess, m, q, g),
         \A x \in Proc : Holds(q.sleepers, x) => (Due(c, ticks, q.time[x]) <=> Soonest(m[x]) <= 0)
  PROVE  /\ Good((c + ticks) % Modulus, NoProcess, m, Released(q, c, ticks), g)
         /\ \A i \in 1 .. Len(Released(q, c, ticks).sleepers) :
              Soonest(m[Released(q, c, ticks).sleepers[i]]) > 0
<1> DEFINE now == (c + ticks) % Modulus
           r == Released(q, c, ticks)
           ws == q.sleepers
           late == {w \in Proc : ~Due(c, ticks, q.time[w])}
<1>1. /\ now \in Time /\ NoProcess \in Proc \union {NoProcess}
      /\ ListTyped(q) /\ ProgramTyped(g) /\ Listed(NoProcess, m, q)
      /\ \A p \in Proc : Fine(now, View(m, q, g, p))
  BY DEF Good
<1>2. Linked(q.tlink, q.tptr, ws) /\ InOrder(m, ws) /\ (q.tptr # NoProcess => q.tnext = q.time[q.tptr])
  BY <1>1 DEF Listed
<1>3. \A p \in Proc : Holds(ws, p) /\ q.state[p] # "ready" => q.turns[p] = 0
  <2> SUFFICES ASSUME NEW p \in Proc, Holds(ws, p), q.state[p] # "ready" PROVE q.turns[p] = 0
    OBVIOUS
  <2> DEFINE v == View(m, q, g, p)
  <2>1. Fine(now, v) /\ v.listed /\ v.state # "ready" /\ v.turns = q.turns[p]
    BY <1>1, ViewIs
  <2> HIDE DEF v
  <2> QED BY <2>1, SleeperWaits
<1>4. PICK n \in Nat : PlaceIs(n, ws, late) /\ Releases(q, r, n, now) /\ ListTyped(r)
  BY <1>1, <1>2, <1>3, ReleasedIs
<1>5. /\ ws \in Seq(Proc) /\ Len(ws) \in Nat
      /\ \A i \in 1 .. Len(ws) : ws[i] \in Proc /\ Holds(ws, ws[i]) /\ Rank(m, ws, i) \in Span
      /\ Ranked(m, ws)
  BY PlacesAre
<1>6. n >= 1 /\ n <= Len(ws) + 1 /\ Place(ws, n) /\ \A i \in 1 .. n - 1 : i \in 1 .. Len(ws)
  BY <1>4 DEF PlaceIs, Place
<1>7. \A i, j \in 1 .. Len(ws) : ws[i] = ws[j] => i = j
  BY <1>2 DEF Linked
<1> DEFINE rs == r.sleepers
           Gone(p) == \E i \in 1 .. n - 1 : ws[i] = p
           Alt(p)  == Gone(p) /\ q.state[p] \in {"waiting", "ready"}
<1>8. /\ Rest(ws, n, rs)
      /\ r.tptr = IF n <= Len(ws) THEN ws[n] ELSE NoProcess
      /\ n <= Len(ws) => r.tnext = q.time[ws[n]]
      /\ \A p \in Proc :
           /\ r.state[p] = IF Alt(p) THEN "ready" ELSE q.state[p]
           /\ r.time[p] = IF Alt(p) THEN now ELSE q.time[p]
           /\ r.tlink[p] = IF Alt(p) THEN "set" ELSE q.tlink[p]
           /\ r.turns[p] = q.turns[p] + IF Gone(p) /\ q.state[p] # "ready" THEN 1 ELSE 0
  BY <1>4 DEF Releases
<1> HIDE DEF now, r, ws, late
<1>9. \A p : Holds(rs, p) <=> Holds(ws, p) /\ ~Gone(p)
  BY <1>5, <1>6, <1>7, <1>8, RestHolds
<1>10. \A p : Gone(p) => Holds(ws, p)
  BY <1>6 DEF Holds
<1>11. ASSUME NEW p \in Proc PROVE Fine(now, View(m, r, g, p))
  <2> DEFINE v == View(m, q, g, p)
             w == View(m, r, g, p)
  <2>1. Fine(now, v)
    BY <1>1
  <2>2. CASE Gone(p)
    <3>1. Soonest(m[p]) <= 0
      <4>1. PICK i \in 1 .. n - 1 : ws[i] = p
        BY <2>2
      <4>2. i \in 1 .. Len(ws) /\ ws[i] \notin late
        BY <1>4, <4>1 DEF PlaceIs
      <4>3. Due(c, ticks, q.time[p])
        BY <4>1, <4>2 DEF late
      <4> QED BY <1>10, <2>2, <4>3 DEF ws
    <3>2. Holds(ws, p) /\ ~Holds(rs, p)
      BY <1>9, <1>10, <2>2
    <3>3. /\ r.turns[p] = q.turns[p] + IF q.state[p] # "ready" THEN 1 ELSE 0
          /\ IF q.state[p] \in {"waiting", "ready"}
             THEN r.state[p] = "ready" /\ r.time[p] = now /\ r.tlink[p] = "set"
             ELSE r.state[p] = q.state[p] /\ r.time[p] = q.time[p]
      BY <1>8, <2>2
    <3>4. Woke(now, v, w)
      <4> HIDE DEF Gone, Alt
      <4>1. /\ v.listed = TRUE /\ w.listed = FALSE /\ w.link = r.tlink[p]
            /\ w.turns = r.turns[p] /\ w.state = r.state[p] /\ w.time = r.time[p]
            /\ v.turns = q.turns[p] /\ v.state = q.state[p] /\ v.time = q.time[p]
        <5>1. Holds(q.sleepers, p) = TRUE /\ Holds(r.sleepers, p) = FALSE
          BY <3>2 DEF ws, Holds
        <5>2. /\ v.listed = Holds(q.sleepers, p) /\ w.listed = Holds(r.sleepers, p)
              /\ w.link = IF Holds(r.sleepers, p) THEN NoProcess ELSE r.tlink[p]
              /\ w.turns = r.turns[p] /\ w.state = r.state[p] /\ w.time = r.time[p]
              /\ v.turns = q.turns[p] /\ v.state = q.state[p] /\ v.time = q.time[p]
          BY ViewIs
        <5> HIDE DEF v, w
        <5> QED BY <5>1, <5>2
      <4>2. /\ w.pc = v.pc /\ w.temp = v.temp /\ w.guards = v.guards
            /\ w.armed = v.armed /\ w.sender = v.sender /\ w.left = v.left
        BY ViewIs
      <4> HIDE DEF v, w
      <4> QED BY <3>3, <4>1, <4>2 DEF Woke
    <3>5. Soonest(v.left) <= 0
      BY <3>1, ViewIs
    <3> HIDE DEF v, w
    <3>6. now \in Time
      BY <1>1
    <3> QED BY <2>1, <3>4, <3>5, <3>6, WokeFine DEF w
  <2>3. CASE ~Gone(p)
    <3>1. r.state[p] = q.state[p] /\ r.time[p] = q.time[p] /\ r.tlink[p] = q.tlink[p]
      BY <1>8, <2>3
    <3>2. r.turns[p] = q.turns[p]
      <4>1. q.turns[p] \in 0 .. 1
        BY <1>1, ListIs
      <4>2. r.turns[p] = q.turns[p] + 0
        BY <1>8, <2>3
      <4> QED BY <4>1, <4>2
    <3>3. Holds(r.sleepers, p) <=> Holds(q.sleepers, p)
      BY <1>9, <2>3 DEF ws
    <3>4. w = v
      <4> HIDE DEF Gone, Alt, rs
      <4>1. Holds(r.sleepers, p) = Holds(q.sleepers, p)
        BY <3>3 DEF Holds
      <4> QED BY <3>1, <3>2, <4>1 DEF View
    <3> QED BY <2>1, <3>4
  <2> QED BY <2>2, <2>3
<1>12. Linked(r.tlink, r.tptr, rs)
  <2>1. \A p \in Proc : Holds(rs, p) => r.tlink[p] = q.tlink[p]
    BY <1>8, <1>9
  <2>2. Linked(q.tlink, q.tptr, ws)
    BY <1>2
  <2> DEFINE to == r.tlink
  <2> HIDE DEF rs, to
  <2>3. Linked(to, IF n <= Len(ws) THEN ws[n] ELSE NoProcess, rs)
    BY <1>5, <1>6, <1>8, <2>1, <2>2, RestLinked DEF to
  <2> QED BY <1>8, <2>3 DEF to
<1>13. InOrder(m, rs)
  BY <1>2, <1>5, <1>6, <1>8, RestInOrder
<1>14. r.tptr # NoProcess => r.tnext = r.time[r.tptr]
  <2> SUFFICES ASSUME r.tptr # NoProcess PROVE r.tnext = r.time[r.tptr]
    OBVIOUS
  <2>1. n <= Len(ws) /\ r.tptr = ws[n] /\ r.tnext = q.time[ws[n]] /\ n \in 1 .. Len(ws)
    BY <1>5, <1>6, <1>8
  <2>2. ws[n] \in Proc /\ ~Gone(ws[n])
    <3>1. ASSUME NEW i \in 1 .. n - 1, ws[i] = ws[n] PROVE FALSE
      <4>1. i \in 1 .. Len(ws) /\ i # n
        BY <1>6, <3>1
      <4> QED BY <1>7, <2>1, <3>1, <4>1
    <3> QED BY <1>5, <2>1, <3>1
  <2>3. r.time[ws[n]] = q.time[ws[n]]
    BY <1>8, <2>2
  <2> QED BY <2>1, <2>3
<1>15. Listed(NoProcess, m, r)
  BY <1>12, <1>13, <1>14 DEF Listed
<1>16. Good(now, NoProcess, m, r, g)
  BY <1>1, <1>4, <1>11, <1>15 DEF Good
<1>17. ASSUME NEW i \in 1 .. Len(rs) PROVE Soonest(m[rs[i]]) > 0
  <2>1. Len(rs) = Len(ws) - n + 1 /\ rs[i] = ws[n + i - 1]
    BY <1>8 DEF Rest
  <2>2. n \in 1 .. Len(ws) /\ n + i - 1 \in 1 .. Len(ws) /\ (i = 1 \/ n < n + i - 1)
    BY <1>5, <1>6, <2>1
  <2> DEFINE j == n + i - 1
  <2>3. ws[n] \in late
    BY <1>4, <2>2 DEF PlaceIs
  <2>4. ~(Soonest(m[ws[n]]) <= 0)
    BY <1>5, <2>2, <2>3 DEF late, ws
  <2>5. Rank(m, ws, n) \in Int /\ Rank(m, ws, j) \in Int
    BY <1>5, <2>2 DEF Ranked
  <2>6. Rank(m, ws, n) <= Rank(m, ws, j)
    <3>1. CASE i = 1
      <4>1. j = n
        BY <1>5, <2>2, <3>1
      <4> QED BY <2>5, <4>1
    <3>2. CASE n < j
      BY <1>2, <2>2, <3>2 DEF InOrder, Rank
    <3> QED BY <2>2, <3>1, <3>2
  <2> HIDE DEF j
  <2>7. Rank(m, ws, j) > 0
    BY <2>4, <2>5, <2>6 DEF Rank
  <2> QED BY <2>1, <2>7 DEF Rank, j
<1> QED BY <1>16, <1>17 DEF now, r

\* The list variables are the fields of q.
LEMMA ListSet == ASSUME NEW q, ListTyped(q), SetList(q) PROVE List' = q
<1>1. q = [tptr |-> q.tptr, tnext |-> q.tnext, time |-> q.time, tlink |-> q.tlink,
           state |-> q.state, turns |-> q.turns, sleepers |-> q.sleepers]
  BY DEF ListTyped, Lists
<1>2. List' = [tptr |-> q.tptr, tnext |-> q.tnext, time |-> q.time, tlink |-> q.tlink,
               state |-> q.state, turns |-> q.turns, sleepers |-> q.sleepers]
  BY DEF SetList, List
<1> QED BY <1>1, <1>2

\* The front of the list, when there is one and the program has not taken it out.
LEMMA FrontIs ==
  ASSUME NEW c, NEW h, NEW l, NEW q, NEW g, Good(c, h, l, q, g), h = NoProcess
  PROVE  /\ q.tptr = NoProcess <=> Len(q.sleepers) = 0
         /\ q.tptr # NoProcess =>
              /\ 1 \in 1 .. Len(q.sleepers) /\ q.tptr = q.sleepers[1] /\ q.tptr \in Proc
              /\ Holds(q.sleepers, q.tptr) /\ q.tnext = q.time[q.tptr]
<1>1. /\ Linked(q.tlink, q.tptr, q.sleepers)
      /\ q.tptr # NoProcess => q.tnext = q.time[q.tptr]
  BY DEF Good, Listed
<1>2. q.tptr = IF Len(q.sleepers) = 0 THEN NoProcess ELSE q.sleepers[1]
  BY <1>1 DEF Linked
<1>3. /\ Len(q.sleepers) \in Nat
      /\ \A i \in 1 .. Len(q.sleepers) : q.sleepers[i] \in Proc /\ Holds(q.sleepers, q.sleepers[i])
  BY PlacesAre
<1>4. Len(q.sleepers) # 0 => 1 \in 1 .. Len(q.sleepers)
  BY <1>3
<1> QED BY <1>1, <1>2, <1>3, <1>4, LinkMarks

\* A list that the program has taken out has no front.
LEMMA HeldIs ==
  ASSUME NEW c, NEW h, NEW l, NEW q, NEW g, Good(c, h, l, q, g), q.tptr # NoProcess
  PROVE  h = NoProcess
BY DEF Good, Listed

\* When the clock has gone on, timers are released.
LEMMA ReleaseGood ==
  ASSUME NEW c, NEW h, NEW l, NEW q, NEW g, Good(c, h, l, q, g),
         NEW ticks \in Nat, NEW m, AllLater(l, m, ticks), ReleaseTimers(q, c, ticks)
  PROVE  Good((c + ticks) % Modulus, h, m, List', g) /\ Awake(alarms', h, m, List')
<1> DEFINE k == (c + ticks) % Modulus
           r == Released(q, c, ticks)
<1>1. /\ Good(k, h, m, q, g)
      /\ \A x \in Proc : Holds(q.sleepers, x) => (Due(c, ticks, q.time[x]) <=> Soonest(m[x]) <= 0)
  BY PassedGood
<1>2. ListTyped(q) /\ c \in Int
  BY ClockBounds DEF Good
<1>3. CASE alarms' /\ q.tptr # NoProcess /\ Due(c, ticks, q.tnext)
  <2>1. h = NoProcess
    BY <1>3, HeldIs
  <2>2. /\ Good(k, NoProcess, m, r, g)
        /\ \A i \in 1 .. Len(r.sleepers) : Soonest(m[r.sleepers[i]]) > 0
    BY <1>1, <1>2, <2>1, ReleasedGood
  <2>3. SetList(r)
    BY <1>3 DEF ReleaseTimers
  <2> HIDE DEF r, k
  <2>4. List' = r
    BY <2>2, <2>3, ListSet DEF Good
  <2> QED BY <2>1, <2>2, <2>4 DEF Awake, k
<1>4. CASE ~(alarms' /\ q.tptr # NoProcess /\ Due(c, ticks, q.tnext))
  <2>1. SetList(q)
    BY <1>4 DEF ReleaseTimers
  <2>2. List' = q
    BY <1>2, <2>1, ListSet
  <2> HIDE DEF r, k
  <2>3. ASSUME alarms', h = NoProcess, NEW i \in 1 .. Len(q.sleepers)
        PROVE  Soonest(m[q.sleepers[i]]) > 0
    <3> DEFINE ws == q.sleepers
    <3>1. ws \in Seq(Proc) /\ Len(ws) \in Nat /\ Ranked(m, ws)
      BY <1>1, PlacesAre
    <3>2. q.tptr # NoProcess /\ 1 \in 1 .. Len(ws) /\ q.tptr = ws[1] /\ q.tptr \in Proc
          /\ Holds(ws, q.tptr) /\ q.tnext = q.time[q.tptr]
      <4>1. Len(ws) # 0
        BY <2>3, <3>1
      <4>2. q.tptr # NoProcess
        BY <1>1, <2>3, <4>1, FrontIs
      <4> QED BY <1>1, <2>3, <4>2, FrontIs
    <3>3. ~(Soonest(m[ws[1]]) <= 0)
      BY <1>1, <1>4, <2>3, <3>2
    <3>4. Rank(m, ws, 1) \in Int /\ Rank(m, ws, i) \in Int
      BY <2>3, <3>1, <3>2 DEF Ranked
    <3>5. i = 1 \/ 1 < i
      BY <2>3, <3>1
    <3>6. 1 < i => Rank(m, ws, 1) <= Rank(m, ws, i)
      BY <1>1, <2>3, <3>2 DEF Good, Listed, InOrder, Rank
    <3>7. Rank(m, ws, i) > 0
      <4>1. ~(Rank(m, ws, 1) <= 0)
        BY <3>3 DEF Rank
      <4> QED BY <3>4, <3>5, <3>6, <4>1
    <3> QED BY <3>7 DEF Rank
  <2>4. Awake(alarms', h, m, q)
    BY <2>3 DEF Awake
  <2> QED BY <1>1, <2>2, <2>4 DEF k
<1> QED BY <1>3, <1>4

\* Nobody is released where nobody is due.
LEMMA NobodyDue ==
  ASSUME NEW c, NEW h, NEW l, NEW q, NEW g, Good(c, h, l, q, g), Awake(alarms', h, l, q),
         ReleaseTimers(q, c, 0)
  PROVE  List' = q
<1>1. ListTyped(q) /\ c \in Time
  BY DEF Good
<1>2. SetList(q)
  <2> SUFFICES ASSUME alarms', q.tptr # NoProcess, Due(c, 0, q.tnext) PROVE FALSE
    BY DEF ReleaseTimers
  <2>1. h = NoProcess
    BY HeldIs
  <2>2. /\ 1 \in 1 .. Len(q.sleepers) /\ q.tptr = q.sleepers[1] /\ q.tptr \in Proc
        /\ Holds(q.sleepers, q.tptr) /\ q.tnext = q.time[q.tptr]
    BY <2>1, FrontIs
  <2> DEFINE s == Soonest(l[q.tptr])
  <2>3. s \in Span /\ s \in Int /\ q.tnext = (c + s) % Modulus
    BY <2>2, EntryIs
  <2>4. s > 0
    BY <2>1, <2>2 DEF Awake
  <2> HIDE DEF s
  <2> DEFINE y == 0
  <2>5. y \in Nat /\ Due(c, y, (c + s) % Modulus)
    BY <2>3
  <2>6. ~(s <= y)
    BY <2>3, <2>4
  <2> HIDE DEF y
  <2> QED BY <1>1, <2>3, <2>5, <2>6, DueIs
<1> QED BY <1>1, <1>2, ListSet

\* Nothing changes for the list where nothing changes for its entries.
LEMMA SameEntries ==
  ASSUME NEW c, NEW h, NEW l, NEW q, NEW g, Good(c, h, l, q, g), NEW m,
         \A x \in Proc : Holds(q.sleepers, x) => m[x] = l[x]
  PROVE  /\ InOrder(m, q.sleepers)
         /\ \A on : Awake(on, h, l, q) => Awake(on, h, m, q)
<1>1. \A i \in 1 .. Len(q.sleepers) : m[q.sleepers[i]] = l[q.sleepers[i]]
  BY PlacesAre
<1>2. InOrder(l, q.sleepers)
  BY DEF Good, Listed
<1> QED BY <1>1, <1>2 DEF InOrder, Awake

\* What is kept of what was asked for.
Kept(l, q, g) == [p \in Proc |-> IF g.pc[p] = "free" /\ q.turns[p] > 0 THEN Nothing ELSE l[p]]

\* The others are in no list.
LEMMA KeptGood ==
  ASSUME NEW c, NEW h, NEW l, NEW q, NEW g, Good(c, h, l, q, g), NEW on, Awake(on, h, l, q)
  PROVE  /\ Good(c, h, Kept(l, q, g), q, g) /\ Awake(on, h, Kept(l, q, g), q)
         /\ Tidy(Kept(l, q, g), q, g)
<1> DEFINE m == Kept(l, q, g)
           Free(p) == g.pc[p] = "free" /\ q.turns[p] > 0
<1>1. \A p \in Proc : m[p] = IF Free(p) THEN Nothing ELSE l[p]
  BY DEF Kept
<1> HIDE DEF m
<1>2. ASSUME NEW p \in Proc
      PROVE  Fine(c, View(m, q, g, p)) /\ (Holds(q.sleepers, p) => ~Free(p))
  <2> DEFINE v == View(l, q, g, p)
             w == View(m, q, g, p)
  <2>1. Fine(c, v)
    BY DEF Good
  <2>2. CASE Free(p)
    <3>1. v.pc = "free" /\ v.turns = 1
      <4>1. q.turns[p] \in 0 .. 1
        BY ListIs DEF Good
      <4>2. q.turns[p] = 1
        BY <2>2, <4>1
      <4> QED BY <2>2, <4>2, ViewIs
    <3>2. Forgot(v, w)
      BY <1>1, <2>2, ViewIs DEF Forgot
    <3>3. Fine(c, w) /\ ~v.listed
      <4> HIDE DEF v, w
      <4> QED BY <2>1, <3>1, <3>2, ForgotFine
    <3> QED BY <3>3, ViewIs
  <2>3. CASE ~Free(p)
    <3>1. m[p] = l[p]
      BY <1>1, <2>3
    <3>2. w = v
      BY <3>1 DEF View
    <3> QED BY <2>1, <2>3, <3>2
  <2> QED BY <2>2, <2>3
<1>3. \A x \in Proc : Holds(q.sleepers, x) => m[x] = l[x]
  BY <1>1, <1>2
<1>4. InOrder(m, q.sleepers) /\ Awake(on, h, m, q)
  BY <1>3, SameEntries
<1>5. Good(c, h, m, q, g)
  BY <1>2, <1>4 DEF Good, Listed
<1>6. Tidy(m, q, g)
  <2>1. m = [p \in Proc |-> m[p]]
    BY DEF m, Kept
  <2> QED BY <1>1, <2>1 DEF Tidy
<1> QED BY <1>4, <1>5, <1>6 DEF m

\* Nothing has changed for process x.
Untouched(x, l, q, g, m, r, f) ==
  /\ m[x] = l[x] /\ r.time[x] = q.time[x] /\ r.tlink[x] = q.tlink[x]
  /\ r.state[x] = q.state[x] /\ r.turns[x] = q.turns[x]
  /\ f.pc[x] = g.pc[x] /\ f.temp[x] = g.temp[x] /\ f.guards[x] = g.guards[x]
  /\ f.armed[x] = g.armed[x] /\ f.sender[x] = g.sender[x]

\* Only p has changed, and not the list.
Touched(p, l, q, g, m, r, f) ==
  /\ r.tptr = q.tptr /\ r.tnext = q.tnext /\ r.sleepers = q.sleepers
  /\ \A x \in Proc : x # p => Untouched(x, l, q, g, m, r, f)
  /\ Holds(q.sleepers, p) => r.time[p] = q.time[p] /\ r.tlink[p] = q.tlink[p] /\ m[p] = l[p]

\* Links and order depend on the entries.
LEMMA TouchedGood ==
  ASSUME NEW c, NEW h, NEW l, NEW q, NEW g, Good(c, h, l, q, g), NEW p \in Proc,
         NEW m, NEW r, NEW f, Touched(p, l, q, g, m, r, f), ListTyped(r), ProgramTyped(f),
         Fine(c, View(m, r, f, p))
  PROVE  /\ Good(c, h, m, r, f)
         /\ \A on : Awake(on, h, l, q) => Awake(on, h, m, r)
<1> DEFINE ws == q.sleepers
<1>1. /\ r.tptr = q.tptr /\ r.tnext = q.tnext /\ r.sleepers = ws
      /\ \A x \in Proc : x # p => Untouched(x, l, q, g, m, r, f)
      /\ Holds(ws, p) => r.time[p] = q.time[p] /\ r.tlink[p] = q.tlink[p] /\ m[p] = l[p]
  BY DEF Touched
<1>2. ASSUME NEW x \in Proc PROVE Fine(c, View(m, r, f, x))
  <2>1. CASE x = p
    BY <2>1
  <2>2. CASE x # p
    <3>1. View(m, r, f, x) = View(l, q, g, x)
      BY <1>1, <2>2 DEF View, Untouched
    <3> QED BY <3>1 DEF Good
  <2> QED BY <2>1, <2>2
<1>3. ASSUME NEW x \in Proc, Holds(ws, x)
      PROVE  r.time[x] = q.time[x] /\ r.tlink[x] = q.tlink[x] /\ m[x] = l[x]
  <2>1. CASE x = p
    BY <1>1, <1>3, <2>1
  <2>2. CASE x # p
    BY <1>1, <2>2 DEF Untouched
  <2> QED BY <2>1, <2>2
<1>4. InOrder(m, ws) /\ \A on : Awake(on, h, l, q) => Awake(on, h, m, q)
  BY <1>3, SameEntries
<1>5. /\ Listed(h, l, q) /\ c \in Time /\ h \in Proc \union {NoProcess}
      /\ ws \in Seq(Proc) /\ \A i \in 1 .. Len(ws) : ws[i] \in Proc /\ Holds(ws, ws[i])
  BY PlacesAre DEF Good
<1>6. Listed(h, m, r)
  <2> DEFINE front == IF h # NoProcess THEN h ELSE q.tptr
  <2>1. Linked(q.tlink, front, ws)
    BY <1>5 DEF Listed
  <2>2. Linked(r.tlink, front, ws)
    BY <1>3, <1>5, <2>1 DEF Linked
  <2>3. q.tptr # NoProcess => Holds(ws, q.tptr) /\ q.tptr \in Proc
    <3> SUFFICES ASSUME q.tptr # NoProcess PROVE Holds(ws, q.tptr) /\ q.tptr \in Proc
      OBVIOUS
    <3>1. h = NoProcess
      BY HeldIs
    <3> QED BY <3>1, FrontIs
  <2>4. q.tptr # NoProcess => r.tnext = r.time[q.tptr]
    BY <1>1, <1>3, <1>5, <2>3 DEF Listed
  <2> QED BY <1>1, <1>4, <1>5, <2>2, <2>4 DEF Listed
<1>7. \A on : Awake(on, h, m, q) => Awake(on, h, m, r)
  BY <1>1 DEF Awake
<1> QED BY <1>2, <1>4, <1>5, <1>6, <1>7 DEF Good

-----------------------------------------------------------------------------
(* Steps *)

\* The instruction ends with the list q, of which nobody is due.
LEMMA Done ==
  ASSUME roles \in Roles, roles' = roles, alarms' \in BOOLEAN, NEW q,
         Good(clock', held', left', q, Program'), Awake(alarms', held', left', q),
         Tidy(left', q, Program'), EndInstruction(q)
  PROVE  TimerInv' /\ turns' = q.turns
<1>1. List' = q
  BY NobodyDue DEF EndInstruction
<1>2. TimerInv'
  BY <1>1 DEF TimerInv
<1>3. List'.turns = turns'
  BY DEF List
<1> QED BY <1>1, <1>2, <1>3

\* Nobody goes on from tin.
SleepersStay == \A x \in Proc : pc[x] = "free" /\ turns[x] = 0 => turns'[x] = 0

\* It has changed only process p, and not the list.
LEMMA TouchedStep ==
  ASSUME TimerInv, UNCHANGED registers, NEW p \in Proc, NEW r,
         Touched(p, left, List, Program, left', r, Program'), ListTyped(r), ProgramTyped(Program'),
         Fine(clock, View(left', r, Program', p)),
         left' = [x \in Proc |-> left'[x]],
         pc'[p] = "free" /\ r.turns[p] > 0 => left'[p] = Nothing,
         pc[p] = "free" /\ turns[p] = 0 => r.turns[p] = 0, EndInstruction(r)
  PROVE  TimerInv' /\ SleepersStay
<1>1. /\ roles \in Roles /\ alarms \in BOOLEAN /\ Good(clock, held, left, List, Program)
      /\ Awake(alarms, held, left, List) /\ Tidy(left, List, Program)
  BY DEF TimerInv
<1>2. clock' = clock /\ held' = held /\ alarms' = alarms /\ roles' = roles
  BY DEF registers
<1>3. Good(clock, held, left', r, Program') /\ Awake(alarms, held, left', r)
  BY <1>1, TouchedGood
<1>4. Tidy(left', r, Program')
  <2> SUFFICES ASSUME NEW x \in Proc, Program'.pc[x] = "free", r.turns[x] > 0
               PROVE  left'[x] = Nothing
    BY DEF Tidy
  <2>1. CASE x = p
    BY <2>1 DEF Program
  <2>2. CASE x # p
    <3>1. Untouched(x, left, List, Program, left', r, Program')
      BY <2>2 DEF Touched
    <3> QED BY <1>1, <3>1 DEF Untouched, Tidy
  <2> QED BY <2>1, <2>2
<1>5. /\ Good(clock', held', left', r, Program') /\ Awake(alarms', held', left', r)
      /\ roles' = roles /\ roles \in Roles /\ alarms' \in BOOLEAN
  BY <1>1, <1>2, <1>3
<1>6. TimerInv' /\ turns' = r.turns
  BY <1>4, <1>5, Done
<1>7. \A x \in Proc : x # p => r.turns[x] = turns[x]
  BY DEF Touched, Untouched, List
<1> QED BY <1>6, <1>7 DEF SleepersStay

\* What was asked for is kept, once timers have been released.
LEMMA KeepStep ==
  ASSUME roles \in Roles, roles' = roles, alarms' \in BOOLEAN, NEW m,
         Good(clock', held', m, List', Program'), Awake(alarms', held', m, List'), Keep(m)
  PROVE  TimerInv'
<1>1. left' = Kept(m, List', Program')
  BY DEF Keep, Kept, List, Program
<1>2. /\ Good(clock', held', left', List', Program') /\ Awake(alarms', held', left', List')
      /\ Tidy(left', List', Program')
  BY <1>1, KeptGood
<1> QED BY <1>2 DEF TimerInv

\* No ticks later, the same is asked for.
LEMMA NoneLater ==
  ASSUME NEW c, NEW h, NEW l, NEW q, NEW g, Good(c, h, l, q, g)
  PROVE  AllLater(l, l, 0) /\ (c + 0) % Modulus = c
<1>1. ASSUME NEW p \in Proc, NEW t \in DOMAIN l[p] PROVE l[p][t] = l[p][t] - 0 /\ l[p][t] >= -MaxLag
  <2> DEFINE v == View(l, q, g, p)
             a == l[p]
  <2>1. Fine(c, v) /\ v.left = a
    BY ViewIs DEF Good
  <2>2. Asks(c, a)
    BY <2>1 DEF Fine
  <2> HIDE DEF a
  <2>3. a[t] \in Int /\ -MaxLag <= a[t] /\ MaxLag \in Nat
    BY <1>1, <2>2, LeftIs, ClockBounds DEF a
  <2>4. a[t] = a[t] - 0 /\ a[t] >= -MaxLag
    BY <2>3
  <2> QED BY <2>4 DEF a
<1>2. (c + 0) % Modulus = c
  <2>1. c \in Time /\ c \in Int
    BY ClockBounds DEF Good
  <2>2. c + 0 = c /\ c % Modulus = c
    BY <2>1, TimeAt
  <2> QED BY <2>2
<1> QED BY <1>1, <1>2 DEF AllLater, Later

\* The instruction ends with the list q.
LEMMA ReleaseStep ==
  ASSUME roles \in Roles, roles' = roles, alarms' \in BOOLEAN, NEW q, NEW m,
         Good(clock', held', m, q, Program'), EndInstruction(q), Keep(m)
  PROVE  TimerInv'
<1> DEFINE y == 0
<1>1. ReleaseTimers(q, clock', y) /\ y \in Nat
  BY DEF EndInstruction
<1>2. AllLater(m, m, y) /\ (clock' + y) % Modulus = clock'
  BY NoneLater
<1> HIDE DEF y
<1>3. /\ Good((clock' + y) % Modulus, held', m, List', Program')
      /\ Awake(alarms', held', m, List')
  BY <1>1, <1>2, ReleaseGood
<1> QED BY <1>2, <1>3, KeepStep

\* The instruction ends with the list q, of which nobody is due, and with what is kept.
LEMMA KeepDone ==
  ASSUME roles \in Roles, roles' = roles, alarms' \in BOOLEAN, NEW q, NEW m,
         Good(clock', held', m, q, Program'), Awake(alarms', held', m, q), EndInstruction(q), Keep(m)
  PROVE  TimerInv' /\ turns' = q.turns
<1>1. List' = q
  BY NobodyDue DEF EndInstruction
<1>2. TimerInv'
  BY <1>1, KeepStep
<1>3. List'.turns = turns'
  BY DEF List
<1> QED BY <1>1, <1>2, <1>3

\* The state is typed.
LEMMA StateIs ==
  ASSUME TimerInv
  PROVE  /\ roles \in Roles /\ roles.sleepers \subseteq Proc /\ roles.choosers \subseteq Proc
         /\ alarms \in BOOLEAN /\ clock \in Time
         /\ held \in Proc \union {NoProcess} /\ tptr \in Proc \union {NoProcess} /\ tnext \in Time
         /\ time \in [Proc -> Time] /\ tlink \in [Proc -> Proc \union {NoProcess, "notSet", "set"}]
         /\ state \in [Proc -> Mark] /\ turns \in [Proc -> 0 .. 1] /\ sleepers \in Seq(Proc)
         /\ temp \in [Proc -> Time \union {NONE_SELECTED, CHANNEL}]
         /\ pc \in [Proc -> {"free", "enabling", "disabling"}]
         /\ guards \in [Proc -> SUBSET Time]
         /\ armed \in [Proc -> BOOLEAN] /\ sender \in [Proc -> BOOLEAN]
<1>1. ListTyped(List) /\ ProgramTyped(Program)
  BY DEF TimerInv, Good
<1>2. roles \in [sleepers : SUBSET Proc, choosers : SUBSET Proc]
  BY TimerAssumption DEF TimerInv
<1>3. roles.sleepers \subseteq Proc /\ roles.choosers \subseteq Proc
  BY <1>2
<1>4. /\ tptr \in Proc \union {NoProcess} /\ tnext \in Time
      /\ time \in [Proc -> Time] /\ tlink \in [Proc -> Proc \union {NoProcess, "notSet", "set"}]
      /\ state \in [Proc -> Mark] /\ turns \in [Proc -> 0 .. 1] /\ sleepers \in Seq(Proc)
  BY <1>1, ListIs DEF List
<1> QED BY <1>1, <1>3, <1>4 DEF TimerInv, Good, ProgramTyped, Program

\* Ticks go by.
LEMMA TickKeeps == ASSUME TimerInv, NEW ticks \in 1 .. MaxTicks, Tick(ticks) PROVE TimerInv'
<1> DEFINE m == [p \in Proc |-> [t \in Asked(p) |-> left[p][t] - ticks]]
<1>1. Good(clock, held, left, List, Program) /\ roles \in Roles /\ alarms \in BOOLEAN
  BY DEF TimerInv
<1>2. ticks \in Nat
  BY TimerAssumption
<1>3. clock' = (clock + ticks) % Modulus /\ roles' = roles /\ alarms' = alarms /\ held' = held
      /\ Program' = Program /\ ReleaseTimers(List, clock, ticks) /\ Keep(m)
  BY DEF Tick, program, Program
<1>4. AllLater(left, m, ticks)
  <2>1. \A p \in Proc : \A t \in DOMAIN left[p] : left[p][t] - ticks >= -MaxLag
    BY DEF Tick, Asked
  <2> QED BY <2>1 DEF AllLater, Later, Asked
<1> HIDE DEF m
<1>5. /\ Good((clock + ticks) % Modulus, held, m, List', Program)
      /\ Awake(alarms', held, m, List')
  BY <1>1, <1>2, <1>3, <1>4, ReleaseGood
<1> QED BY <1>1, <1>3, <1>5, KeepStep

\* Alarms go on and off.
LEMMA AlarmsKeep == ASSUME TimerInv, SwitchAlarms PROVE TimerInv'
<1>1. Good(clock, held, left, List, Program) /\ roles \in Roles /\ alarms \in BOOLEAN
  BY DEF TimerInv
<1>2. clock' = clock /\ roles' = roles /\ alarms' = ~alarms /\ held' = held
      /\ Program' = Program /\ EndInstruction(List) /\ Keep(left)
  BY DEF SwitchAlarms, program, Program
<1>3. alarms' \in BOOLEAN /\ Good(clock', held', left, List, Program')
  BY <1>1, <1>2
<1> QED BY <1>1, <1>2, <1>3, ReleaseStep

\* The clock is set while nobody waits for it.
LEMMA StoreKeeps == ASSUME TimerInv, NEW value \in Time, StoreTimer(value) PROVE TimerInv'
<1>1. Good(clock, held, left, List, Program) /\ roles \in Roles /\ alarms \in BOOLEAN
  BY DEF TimerInv
<1>2. clock' = value /\ roles' = roles /\ alarms' = alarms /\ held' = held
      /\ Program' = Program /\ EndInstruction(List) /\ Keep(left)
  BY DEF StoreTimer, program, Program
<1>3. ASSUME NEW p \in Proc PROVE Fine(value, View(left, List, Program, p))
  <2> DEFINE v == View(left, List, Program, p)
  <2>1. DOMAIN v.left = {}
    BY ViewIs DEF StoreTimer, Asked
  <2>2. Fine(clock, v)
    BY <1>1 DEF Good
  <2> HIDE DEF v
  <2> QED BY <2>1, <2>2, UnaskedFine DEF v
<1>4. Good(value, held, left, List, Program)
  BY <1>1, <1>3 DEF Good
<1> QED BY <1>1, <1>2, <1>4, ReleaseStep

\* The list that the program has taken out or put back.
Swapped == [List EXCEPT !.tptr = held, !.tnext = IF held # NoProcess THEN time[held] ELSE @]

\* It is fine with its front in the other place.
LEMMA SwappedGood == ASSUME TimerInv PROVE Good(clock, tptr, left, Swapped, Program) /\ Swapped.turns = turns
<1> DEFINE next == IF held # NoProcess THEN time[held] ELSE tnext
           r == Swapped
<1>1. Good(clock, held, left, List, Program) /\ roles \in Roles /\ alarms \in BOOLEAN
  BY DEF TimerInv
<1>2. /\ r.tptr = held /\ r.tnext = next /\ r.time = time /\ r.tlink = tlink
      /\ r.state = state /\ r.turns = turns /\ r.sleepers = sleepers
  BY DEF List, Swapped
<1>3. List.tptr = tptr /\ List.tnext = tnext /\ List.time = time /\ List.tlink = tlink
      /\ List.state = state /\ List.turns = turns /\ List.sleepers = sleepers
  BY DEF List
<1>4. ListTyped(r)
  <2>1. List \in Lists /\ held \in Proc \union {NoProcess}
    BY <1>1 DEF Good, ListTyped
  <2>2. (held # NoProcess => time[held] \in Time) /\ tnext \in Time
    BY <2>1, StateIs
  <2>3. r \in Lists
    BY <1>3, <2>1, <2>2 DEF Lists, Swapped
  <2> QED BY <2>3 DEF ListTyped
<1> HIDE DEF r
<1>5. Listed(tptr, left, r)
  <2>1. Listed(held, left, List)
    BY <1>1 DEF Good
  <2>2. held = NoProcess \/ tptr = NoProcess
    BY <1>3, <2>1 DEF Listed
  <2>3. (IF tptr # NoProcess THEN tptr ELSE held) = (IF held # NoProcess THEN held ELSE tptr)
    BY <2>2
  <2>4. Linked(tlink, IF held # NoProcess THEN held ELSE tptr, sleepers) /\ InOrder(left, sleepers)
    BY <1>3, <2>1 DEF Listed
  <2> QED BY <1>2, <2>2, <2>3, <2>4 DEF Listed
<1>6. ASSUME NEW p \in Proc PROVE Fine(clock, View(left, r, Program, p))
  <2>1. View(left, r, Program, p) = View(left, List, Program, p)
    BY <1>2, <1>3 DEF View
  <2> QED BY <1>1, <2>1 DEF Good
<1>7. Good(clock, tptr, left, r, Program)
  <2>1. tptr \in Proc \union {NoProcess}
    BY StateIs
  <2> QED BY <1>1, <1>4, <1>5, <1>6, <2>1 DEF Good
<1> QED BY <1>2, <1>7 DEF r

\* The program takes the list out, and puts it back.
LEMMA SwapKeeps == ASSUME TimerInv, SwapTimer PROVE TimerInv'
<1>1. Good(clock, tptr, left, Swapped, Program) /\ roles \in Roles /\ alarms \in BOOLEAN
  BY SwappedGood DEF TimerInv
<1>2. clock' = clock /\ roles' = roles /\ alarms' = alarms /\ held' = tptr
      /\ Program' = Program /\ EndInstruction(Swapped) /\ Keep(left)
  BY DEF SwapTimer, Swapped, program, Program
<1> QED BY <1>1, <1>2, ReleaseStep

\* A running process, and the list in its place.
LEMMA RunsIs ==
  ASSUME TimerInv, NEW p \in Proc, NEW at, Runs(p, at)
  PROVE  LET v == View(left, List, Program, p)
         IN  /\ Fine(clock, v) /\ v.pc = at /\ v.turns = 1 /\ held = NoProcess
             /\ v.temp = temp[p] /\ v.guards = guards[p] /\ v.armed = armed[p]
             /\ v.sender = sender[p] /\ v.left = left[p] /\ v.time = time[p] /\ v.state = state[p]
             /\ v.listed = Holds(sleepers, p)
             /\ v.link = IF Holds(sleepers, p) THEN NoProcess ELSE tlink[p]
<1> DEFINE v == View(left, List, Program, p)
<1>1. Fine(clock, v)
  BY DEF TimerInv, Good
<1>2. v.turns = turns[p] /\ v.pc = pc[p]
  BY ViewIs DEF List, Program
<1>3. turns[p] = 1
  <2>1. turns[p] \in 0 .. 1 /\ turns[p] > 0
    BY StateIs DEF Runs
  <2> QED BY <2>1
<1>4. /\ v.temp = temp[p] /\ v.guards = guards[p] /\ v.armed = armed[p]
      /\ v.sender = sender[p] /\ v.left = left[p] /\ v.time = time[p] /\ v.state = state[p]
      /\ v.listed = Holds(sleepers, p)
      /\ v.link = IF Holds(sleepers, p) THEN NoProcess ELSE tlink[p]
  BY ViewIs DEF List, Program
<1> HIDE DEF v
<1> QED BY <1>1, <1>2, <1>3, <1>4 DEF Runs, v

\* These words are written for a process, if anything is.
Writes(p, P, T, G, A, S) ==
  /\ pc' = [pc EXCEPT ![p] = P] \/ pc' = pc
  /\ temp' = [temp EXCEPT ![p] = T] \/ temp' = temp
  /\ guards' = [guards EXCEPT ![p] = G] \/ guards' = guards
  /\ armed' = [armed EXCEPT ![p] = A] \/ armed' = armed
  /\ sender' = [sender EXCEPT ![p] = S] \/ sender' = sender

\* The program is typed after a step that changes the words of one process.
LEMMA ProgramStays ==
  ASSUME TimerInv, NEW p \in Proc, NEW P, NEW T, NEW G, NEW A, NEW S,
         P \in {"free", "enabling", "disabling"}, T \in Time \union {NONE_SELECTED, CHANNEL},
         G \in SUBSET Time, A \in BOOLEAN, S \in BOOLEAN,
         Writes(p, P, T, G, A, S)
  PROVE  /\ ProgramTyped(Program')
         /\ \A x \in Proc : x # p =>
              /\ Program'.pc[x] = pc[x] /\ Program'.temp[x] = temp[x]
              /\ Program'.guards[x] = guards[x]
              /\ Program'.armed[x] = armed[x] /\ Program'.sender[x] = sender[x]
<1>1. /\ temp \in [Proc -> Time \union {NONE_SELECTED, CHANNEL}]
      /\ pc \in [Proc -> {"free", "enabling", "disabling"}]
      /\ guards \in [Proc -> SUBSET Time]
      /\ armed \in [Proc -> BOOLEAN] /\ sender \in [Proc -> BOOLEAN]
  BY StateIs
<1>2. /\ Program'.pc = pc' /\ Program'.temp = temp' /\ Program'.guards = guards'
      /\ Program'.armed = armed' /\ Program'.sender = sender'
  BY DEF Program
<1>3. pc' \in [Proc -> {"free", "enabling", "disabling"}] /\ \A x \in Proc : x # p => pc'[x] = pc[x]
  BY <1>1 DEF Writes
<1>4. temp' \in [Proc -> Time \union {NONE_SELECTED, CHANNEL}] /\ \A x \in Proc : x # p => temp'[x] = temp[x]
  BY <1>1 DEF Writes
<1>5. guards' \in [Proc -> SUBSET Time] /\ \A x \in Proc : x # p => guards'[x] = guards[x]
  BY <1>1 DEF Writes
<1>6. armed' \in [Proc -> BOOLEAN] /\ \A x \in Proc : x # p => armed'[x] = armed[x]
  BY <1>1 DEF Writes
<1>7. sender' \in [Proc -> BOOLEAN] /\ \A x \in Proc : x # p => sender'[x] = sender[x]
  BY <1>1 DEF Writes
<1> QED BY <1>2, <1>3, <1>4, <1>5, <1>6, <1>7 DEF ProgramTyped

\* The list with other words.
ListWith(ti, tl, st, tu) ==
  [tptr |-> tptr, tnext |-> tnext, time |-> ti, tlink |-> tl, state |-> st,
   turns |-> tu, sleepers |-> sleepers]

\* The list with other words of one process.
Rewritten(p, t, k, s, n) ==
  ListWith([time EXCEPT ![p] = t], [tlink EXCEPT ![p] = k], [state EXCEPT ![p] = s],
           [turns EXCEPT ![p] = n])

\* The rest of it is the same.
OneRewritten(r, p, t, k, s, n) ==
  /\ ListTyped(r) /\ r.tptr = tptr /\ r.tnext = tnext /\ r.sleepers = sleepers
  /\ r.time[p] = t /\ r.tlink[p] = k /\ r.state[p] = s /\ r.turns[p] = n
  /\ \A x \in Proc : x # p => /\ r.time[x] = time[x] /\ r.tlink[x] = tlink[x]
                              /\ r.state[x] = state[x] /\ r.turns[x] = turns[x]

\* It is typed.
LEMMA RewrittenIs ==
  ASSUME TimerInv, NEW p \in Proc, NEW t \in Time,
         NEW k \in Proc \union {NoProcess, "notSet", "set"}, NEW s \in Mark, NEW n \in 0 .. 1
  PROVE  OneRewritten(Rewritten(p, t, k, s, n), p, t, k, s, n)
<1> DEFINE ti == [time EXCEPT ![p] = t]
           tl == [tlink EXCEPT ![p] = k]
           st == [state EXCEPT ![p] = s]
           tu == [turns EXCEPT ![p] = n]
           r == [tptr |-> tptr, tnext |-> tnext, time |-> ti, tlink |-> tl, state |-> st,
                 turns |-> tu, sleepers |-> sleepers]
<1>1. /\ time \in [Proc -> Time] /\ tlink \in [Proc -> Proc \union {NoProcess, "notSet", "set"}]
      /\ state \in [Proc -> Mark] /\ turns \in [Proc -> 0 .. 1]
      /\ tptr \in Proc \union {NoProcess} /\ tnext \in Time /\ sleepers \in Seq(Proc)
  BY StateIs
<1>2. /\ ti \in [Proc -> Time] /\ ti[p] = t /\ \A x \in Proc : x # p => ti[x] = time[x]
      /\ tl \in [Proc -> Proc \union {NoProcess, "notSet", "set"}] /\ tl[p] = k
      /\ \A x \in Proc : x # p => tl[x] = tlink[x]
  BY <1>1
<1>3. /\ st \in [Proc -> Mark] /\ st[p] = s /\ \A x \in Proc : x # p => st[x] = state[x]
      /\ tu \in [Proc -> 0 .. 1] /\ tu[p] = n /\ \A x \in Proc : x # p => tu[x] = turns[x]
  BY <1>1
<1> HIDE DEF ti, tl, st, tu
<1>4. /\ r.time = ti /\ r.tlink = tl /\ r.state = st /\ r.turns = tu
      /\ r.tptr = tptr /\ r.tnext = tnext /\ r.sleepers = sleepers
  OBVIOUS
<1>5. r \in Lists
  BY <1>1, <1>2, <1>3 DEF Lists
<1>6. Rewritten(p, t, k, s, n) = r
  BY DEF Rewritten, ListWith, ti, tl, st, tu
<1> HIDE DEF r
<1> QED BY <1>2, <1>3, <1>4, <1>5, <1>6 DEF ListTyped, OneRewritten

\* A step that changes the words of a process, and leaves its place in the list.
LEMMA RewriteStep ==
  ASSUME TimerInv, UNCHANGED registers, NEW p \in Proc, NEW t \in Time,
         NEW k \in Proc \union {NoProcess, "notSet", "set"}, NEW s \in Mark, NEW n \in 0 .. 1,
         Holds(sleepers, p) => t = time[p] /\ k = tlink[p] /\ left'[p] = left[p],
         \A x \in Proc : x # p => /\ left'[x] = left[x]
                                  /\ Program'.pc[x] = pc[x] /\ Program'.temp[x] = temp[x]
                                  /\ Program'.guards[x] = guards[x]
                                  /\ Program'.armed[x] = armed[x] /\ Program'.sender[x] = sender[x],
         left' = [x \in Proc |-> left'[x]], ProgramTyped(Program'),
         pc'[p] = "free" /\ n > 0 => left'[p] = Nothing, pc[p] = "free" /\ turns[p] = 0 => n = 0,
         Fine(clock, View(left', Rewritten(p, t, k, s, n), Program', p)),
         EndInstruction(Rewritten(p, t, k, s, n))
  PROVE  TimerInv' /\ SleepersStay
<1> DEFINE r == Rewritten(p, t, k, s, n)
<1>1. /\ ListTyped(r) /\ r.tptr = tptr /\ r.tnext = tnext /\ r.sleepers = sleepers
      /\ r.time[p] = t /\ r.tlink[p] = k /\ r.turns[p] = n
      /\ \A x \in Proc : x # p => /\ r.time[x] = time[x] /\ r.tlink[x] = tlink[x]
                                  /\ r.state[x] = state[x] /\ r.turns[x] = turns[x]
  <2>1. OneRewritten(r, p, t, k, s, n)
    BY RewrittenIs
  <2> HIDE DEF r
  <2> QED BY <2>1 DEF OneRewritten
<1>2. /\ List.tptr = tptr /\ List.tnext = tnext /\ List.time = time /\ List.tlink = tlink
      /\ List.state = state /\ List.turns = turns /\ List.sleepers = sleepers
      /\ Program.pc = pc /\ Program.temp = temp /\ Program.guards = guards
      /\ Program.armed = armed /\ Program.sender = sender
  BY DEF List, Program
<1> HIDE DEF r
<1>3. \A x \in Proc : x # p => Untouched(x, left, List, Program, left', r, Program')
  BY <1>1, <1>2 DEF Untouched
<1>4. Touched(p, left, List, Program, left', r, Program')
  BY <1>1, <1>2, <1>3 DEF Touched
<1> QED BY <1>1, <1>4, TouchedStep DEF r

\* What a process is after such a step.
LEMMA RewrittenView ==
  ASSUME TimerInv, NEW p \in Proc, NEW t \in Time,
         NEW k \in Proc \union {NoProcess, "notSet", "set"}, NEW s \in Mark, NEW n \in 0 .. 1
  PROVE  LET w == View(left', Rewritten(p, t, k, s, n), Program', p)
         IN  /\ w.pc = pc'[p] /\ w.temp = temp'[p] /\ w.guards = guards'[p]
             /\ w.armed = armed'[p] /\ w.sender = sender'[p] /\ w.left = left'[p]
             /\ w.time = t /\ w.state = s /\ w.turns = n /\ w.listed = Holds(sleepers, p)
             /\ w.link = IF Holds(sleepers, p) THEN NoProcess ELSE k
<1> DEFINE r == Rewritten(p, t, k, s, n)
           w == View(left', r, Program', p)
<1>1. r.time[p] = t /\ r.tlink[p] = k /\ r.state[p] = s /\ r.turns[p] = n /\ r.sleepers = sleepers
  <2>1. OneRewritten(r, p, t, k, s, n)
    BY RewrittenIs
  <2> HIDE DEF r
  <2> QED BY <2>1 DEF OneRewritten
<1> HIDE DEF r
<1>2. /\ w.pc = pc'[p] /\ w.temp = temp'[p] /\ w.guards = guards'[p]
      /\ w.armed = armed'[p] /\ w.sender = sender'[p] /\ w.left = left'[p]
  BY ViewIs DEF Program
<1>3. /\ w.time = r.time[p] /\ w.state = r.state[p] /\ w.turns = r.turns[p]
      /\ w.listed = Holds(r.sleepers, p)
      /\ w.link = IF Holds(r.sleepers, p) THEN NoProcess ELSE r.tlink[p]
  BY ViewIs
<1> HIDE DEF w
<1> QED BY <1>1, <1>2, <1>3 DEF w, r

\* A word that is written with what it holds stays as it is.
LEMMA SameWords ==
  ASSUME TimerInv, NEW p \in Proc
  PROVE  /\ [time EXCEPT ![p] = time[p]] = time /\ [tlink EXCEPT ![p] = tlink[p]] = tlink
         /\ [state EXCEPT ![p] = state[p]] = state /\ [turns EXCEPT ![p] = turns[p]] = turns
         /\ time[p] \in Time /\ tlink[p] \in Proc \union {NoProcess, "notSet", "set"}
         /\ state[p] \in Mark /\ turns[p] \in 0 .. 1
BY StateIs

\* What has been asked for is a function of the process.
LEMMA LeftChanges ==
  ASSUME TimerInv, NEW p \in Proc, NEW a, left' = [left EXCEPT ![p] = a]
  PROVE  /\ left' = [x \in Proc |-> left'[x]]
         /\ left'[p] = a /\ \A x \in Proc : x # p => left'[x] = left[x]
<1>1. left = [x \in Proc |-> left[x]]
  BY DEF TimerInv, Tidy
<1> QED BY <1>1

\* talt
LEMMA BeginKeeps == ASSUME TimerInv, NEW p \in roles.choosers, BeginTimed(p) PROVE TimerInv' /\ SleepersStay
<1> DEFINE t == time[p]
           k == "notSet"
           s == "enabling"
           n == turns[p]
           r == Rewritten(p, t, k, s, n)
           v == View(left, List, Program, p)
           w == View(left', r, Program', p)
<1>1. p \in Proc /\ Runs(p, "free")
  BY StateIs DEF BeginTimed
<1>2. /\ pc' = [pc EXCEPT ![p] = "enabling"] /\ left' = [left EXCEPT ![p] = Nothing]
      /\ UNCHANGED registers /\ temp' = temp /\ guards' = guards /\ armed' = armed /\ sender' = sender
      /\ EndInstruction([List EXCEPT !.state[p] = "enabling", !.tlink[p] = "notSet"])
  BY DEF BeginTimed
<1>3. t \in Time /\ k \in Proc \union {NoProcess, "notSet", "set"} /\ s \in Mark /\ n \in 0 .. 1
  BY <1>1, SameWords DEF Mark
<1>4. [List EXCEPT !.state[p] = "enabling", !.tlink[p] = "notSet"] = r
  <2> DEFINE st == [state EXCEPT ![p] = "enabling"]
             tl == [tlink EXCEPT ![p] = "notSet"]
  <2>1. List.state = state /\ List.tlink = tlink /\ List = ListWith(time, tlink, state, turns)
    BY DEF List, ListWith
  <2>2. [List EXCEPT !.state[p] = "enabling", !.tlink[p] = "notSet"] =
        [[List EXCEPT !.state = st] EXCEPT !.tlink = tl]
    BY <2>1
  <2>3. r = ListWith(time, tl, st, turns)
    BY <1>1, SameWords DEF Rewritten
  <2> HIDE DEF st, tl, r
  <2>4. [ListWith(time, tlink, state, turns) EXCEPT !.state = st] = ListWith(time, tlink, st, turns)
    BY DEF ListWith
  <2>5. [ListWith(time, tlink, st, turns) EXCEPT !.tlink = tl] = ListWith(time, tl, st, turns)
    BY DEF ListWith
  <2> QED BY <2>1, <2>2, <2>3, <2>4, <2>5
<1>5. pc \in [Proc -> {"free", "enabling", "disabling"}] /\ pc'[p] = "enabling"
  BY <1>1, <1>2, StateIs
<1>6. /\ left' = [x \in Proc |-> left'[x]] /\ left'[p] = Nothing
      /\ \A x \in Proc : x # p => left'[x] = left[x]
  BY <1>1, <1>2, LeftChanges
<1>7. /\ Fine(clock, v) /\ v.pc = "free" /\ v.turns = 1
      /\ v.temp = temp[p] /\ v.guards = guards[p] /\ v.armed = armed[p]
      /\ v.sender = sender[p] /\ v.left = left[p] /\ v.time = time[p] /\ v.state = state[p]
      /\ v.listed = Holds(sleepers, p)
      /\ v.link = IF Holds(sleepers, p) THEN NoProcess ELSE tlink[p]
  BY <1>1, RunsIs
<1>8. turns[p] = 1
  BY <1>7, ViewIs DEF List
<1>9. ~v.listed
  <2> HIDE DEF v
  <2> QED BY <1>7 DEF Fine, FreeFine
<1>10. /\ w.pc = pc'[p] /\ w.temp = temp'[p] /\ w.guards = guards'[p]
       /\ w.armed = armed'[p] /\ w.sender = sender'[p] /\ w.left = left'[p]
       /\ w.time = t /\ w.state = s /\ w.turns = n /\ w.listed = Holds(sleepers, p)
       /\ w.link = IF Holds(sleepers, p) THEN NoProcess ELSE k
  BY <1>1, <1>3, RewrittenView, SMTT(40)
<1> HIDE DEF v, w
<1>11. Began(v, w)
  BY <1>2, <1>5, <1>6, <1>7, <1>8, <1>9, <1>10 DEF Began
<1>12. Fine(clock, w)
  BY <1>7, <1>9, <1>11, BeganFine
<1> DEFINE P == "enabling"
<1>13. /\ P \in {"free", "enabling", "disabling"} /\ temp[p] \in Time \union {NONE_SELECTED, CHANNEL}
       /\ guards[p] \in SUBSET Time /\ armed[p] \in BOOLEAN /\ sender[p] \in BOOLEAN
  BY <1>1, StateIs
<1>14. /\ ProgramTyped(Program')
       /\ \A x \in Proc : x # p =>
            /\ Program'.pc[x] = pc[x] /\ Program'.temp[x] = temp[x]
            /\ Program'.guards[x] = guards[x]
            /\ Program'.armed[x] = armed[x] /\ Program'.sender[x] = sender[x]
  <2>1. Writes(p, P, temp[p], guards[p], armed[p], sender[p])
    BY <1>2 DEF Writes
  <2> HIDE DEF P
  <2> QED BY <1>1, <1>2, <1>13, <2>1, ProgramStays
<1>15. ~Holds(sleepers, p) /\ EndInstruction(r) /\ turns[p] # 0
  BY <1>2, <1>4, <1>7, <1>8, <1>9
<1> HIDE DEF t, k, s, n, r
<1> QED BY <1>1, <1>2, <1>3, <1>5, <1>6, <1>12, <1>14, <1>15, RewriteStep DEF r, w

\* What p asked for becomes a.
LeftBecomes(p, a) == left' = [left EXCEPT ![p] = a]

\* The words and what is asked for may be written so.
Writable(p, t, k, s, n, P, T, G, A, S, a) ==
  /\ t \in Time /\ k \in Proc \union {NoProcess, "notSet", "set"} /\ s \in Mark /\ n \in 0 .. 1
  /\ P \in {"free", "enabling", "disabling"} /\ T \in Time \union {NONE_SELECTED, CHANNEL}
  /\ G \in SUBSET Time /\ A \in BOOLEAN /\ S \in BOOLEAN
  /\ Holds(sleepers, p) => t = time[p] /\ k = tlink[p] /\ a = left[p]
  /\ pc'[p] = "free" /\ n > 0 => a = Nothing
  /\ pc[p] = "free" /\ turns[p] = 0 => n = 0
  /\ Fine(clock, View(left', Rewritten(p, t, k, s, n), Program', p))

\* A step writes them.
Written(p, t, k, s, n, P, T, G, A, S, a) ==
  /\ UNCHANGED registers /\ Writes(p, P, T, G, A, S) /\ LeftBecomes(p, a)
  /\ EndInstruction(Rewritten(p, t, k, s, n))

\* A step of one process that leaves its place in the list.
LEMMA WordsStep ==
  ASSUME TimerInv, NEW p \in Proc, NEW t, NEW k, NEW s, NEW n, NEW P, NEW T, NEW G, NEW A, NEW S,
         NEW a, Writable(p, t, k, s, n, P, T, G, A, S, a), Written(p, t, k, s, n, P, T, G, A, S, a)
  PROVE  TimerInv' /\ SleepersStay
<1>0. /\ t \in Time /\ k \in Proc \union {NoProcess, "notSet", "set"} /\ s \in Mark /\ n \in 0 .. 1
      /\ P \in {"free", "enabling", "disabling"} /\ T \in Time \union {NONE_SELECTED, CHANNEL}
      /\ G \in SUBSET Time /\ A \in BOOLEAN /\ S \in BOOLEAN
      /\ Holds(sleepers, p) => t = time[p] /\ k = tlink[p] /\ a = left[p]
      /\ pc'[p] = "free" /\ n > 0 => a = Nothing
      /\ pc[p] = "free" /\ turns[p] = 0 => n = 0
      /\ Fine(clock, View(left', Rewritten(p, t, k, s, n), Program', p))
      /\ UNCHANGED registers /\ Writes(p, P, T, G, A, S) /\ LeftBecomes(p, a)
      /\ EndInstruction(Rewritten(p, t, k, s, n))
  BY DEF Writable, Written
<1>1. /\ left' = [x \in Proc |-> left'[x]] /\ left'[p] = a
      /\ \A x \in Proc : x # p => left'[x] = left[x]
  BY <1>0, LeftChanges DEF LeftBecomes
<1>2. /\ ProgramTyped(Program')
      /\ \A x \in Proc : x # p =>
           /\ Program'.pc[x] = pc[x] /\ Program'.temp[x] = temp[x]
           /\ Program'.guards[x] = guards[x]
           /\ Program'.armed[x] = armed[x] /\ Program'.sender[x] = sender[x]
  BY <1>0, ProgramStays
<1> QED BY <1>0, <1>1, <1>2, RewriteStep

\* What is asked for stays as it is.
LEMMA SameLeft ==
  ASSUME TimerInv, NEW p \in Proc, left' = left
  PROVE  LeftBecomes(p, left[p])
<1>1. left = [x \in Proc |-> left[x]]
  BY DEF TimerInv, Tidy
<1> QED BY <1>1 DEF LeftBecomes

\* enbt
LEMMA EnableTimerKeeps ==
  ASSUME TimerInv, NEW p \in roles.choosers, NEW d \in Distance, EnableTimer(p, d)
  PROVE  TimerInv' /\ SleepersStay
<1> DEFINE u == (clock + d) % Modulus
           G == guards[p] \union {u}
           a == [x \in G |-> IF x = u THEN Until(d) ELSE left[p][x]]
           t == IF Earliest(p, u) THEN u ELSE time[p]
           k == IF tlink[p] = "notSet" THEN "set" ELSE tlink[p]
           r == Rewritten(p, t, k, state[p], turns[p])
           v == View(left, List, Program, p)
           w == View(left', r, Program', p)
           q == [List EXCEPT !.tlink[p] = IF @ = "notSet" THEN "set" ELSE @,
                             !.time[p] = IF Earliest(p, u) THEN u ELSE @]
<1>1. p \in Proc /\ Runs(p, "enabling") /\ u \notin guards[p]
  BY StateIs DEF EnableTimer
<1>2. /\ guards' = [guards EXCEPT ![p] = G]
      /\ UNCHANGED registers /\ temp' = temp /\ pc' = pc /\ armed' = armed /\ sender' = sender
  <2>1. guards' = [guards EXCEPT ![p] = guards[p] \union {u}]
    BY DEF EnableTimer
  <2> QED BY <2>1 DEF EnableTimer
<1>3. guards'[p] = G
  BY <1>1, <1>2, StateIs
<1>4. left' = [left EXCEPT ![p] = a] /\ EndInstruction(q)
  BY <1>3 DEF EnableTimer
<1>5. clock \in Time /\ u \in Time
  BY DistanceIs, StateIs
<1> HIDE DEF u
<1>6. /\ t \in Time /\ k \in Proc \union {NoProcess, "notSet", "set"}
      /\ state[p] \in Mark /\ turns[p] \in 0 .. 1
  BY <1>1, <1>5, SameWords
<1>7. q = r
  <2> DEFINE ti == [time EXCEPT ![p] = t]
             tl == [tlink EXCEPT ![p] = k]
  <2>1. List.time = time /\ List.tlink = tlink /\ List = ListWith(time, tlink, state, turns)
    BY DEF List, ListWith
  <2>2. q = [[List EXCEPT !.tlink = tl] EXCEPT !.time = ti]
    BY <2>1
  <2>3. r = ListWith(ti, tl, state, turns)
    BY <1>1, SameWords DEF Rewritten
  <2> HIDE DEF ti, tl, r, q
  <2>4. [ListWith(time, tlink, state, turns) EXCEPT !.tlink = tl] = ListWith(time, tl, state, turns)
    BY DEF ListWith
  <2>5. [ListWith(time, tl, state, turns) EXCEPT !.time = ti] = ListWith(ti, tl, state, turns)
    BY DEF ListWith
  <2> QED BY <2>1, <2>2, <2>3, <2>4, <2>5
<1>8. left'[p] = a
  <2> HIDE DEF a
  <2> QED BY <1>1, <1>4, LeftChanges
<1>9. /\ Fine(clock, v) /\ v.pc = "enabling" /\ v.turns = 1
      /\ v.temp = temp[p] /\ v.guards = guards[p] /\ v.armed = armed[p]
      /\ v.sender = sender[p] /\ v.left = left[p] /\ v.time = time[p] /\ v.state = state[p]
      /\ v.listed = Holds(sleepers, p)
      /\ v.link = IF Holds(sleepers, p) THEN NoProcess ELSE tlink[p]
  BY <1>1, RunsIs
<1>10. turns[p] = 1 /\ pc[p] = "enabling"
  BY <1>9, ViewIs DEF List, Program
<1>11. ~v.listed
  <2> HIDE DEF v
  <2> QED BY <1>9 DEF Fine, EnablingFine
<1> HIDE DEF t, k
<1>12. /\ w.pc = pc'[p] /\ w.temp = temp'[p] /\ w.guards = guards'[p]
       /\ w.armed = armed'[p] /\ w.sender = sender'[p] /\ w.left = left'[p]
       /\ w.time = t /\ w.state = state[p] /\ w.turns = turns[p] /\ w.listed = Holds(sleepers, p)
       /\ w.link = IF Holds(sleepers, p) THEN NoProcess ELSE k
  BY <1>1, <1>6, RewrittenView, SMTT(40)
<1> HIDE DEF v, w, q, r
<1>13. Enabled(clock, v, w, u, d)
  <2>1. w.left = [x \in w.guards |-> IF x = u THEN Until(d) ELSE v.left[x]]
    BY <1>3, <1>8, <1>9, <1>12
  <2>2. w.guards = v.guards \union {u}
    BY <1>3, <1>9, <1>12
  <2>3. v.link = tlink[p] /\ w.link = k
    BY <1>9, <1>11, <1>12
  <2>4. w.time = IF v.link = "notSet" \/ After(v.time, u) THEN u ELSE v.time
    BY <1>9, <1>12, <2>3 DEF t, Earliest
  <2>5. w.link = IF v.link = "notSet" THEN "set" ELSE v.link
    BY <2>3 DEF k
  <2> HIDE DEF a
  <2> QED BY <1>2, <1>9, <1>10, <1>12, <2>1, <2>2, <2>4, <2>5 DEF Enabled
<1>14. Fine(clock, w)
  BY <1>1, <1>5, <1>9, <1>13, EnabledFine DEF u
<1>15. /\ pc[p] \in {"free", "enabling", "disabling"} /\ temp[p] \in Time \union {NONE_SELECTED, CHANNEL}
       /\ G \in SUBSET Time /\ armed[p] \in BOOLEAN /\ sender[p] \in BOOLEAN
  <2>1. guards[p] \subseteq Time
    BY <1>1, StateIs
  <2> QED BY <1>1, <1>5, <2>1, StateIs
<1> HIDE DEF G, a
<1>16. Writes(p, pc[p], temp[p], G, armed[p], sender[p])
  BY <1>2 DEF Writes
<1>17. ~Holds(sleepers, p) /\ EndInstruction(r) /\ pc'[p] # "free" /\ LeftBecomes(p, a)
  BY <1>2, <1>4, <1>7, <1>9, <1>10, <1>11 DEF LeftBecomes
<1>18. /\ Writable(p, t, k, state[p], turns[p], pc[p], temp[p], G, armed[p], sender[p], a)
       /\ Written(p, t, k, state[p], turns[p], pc[p], temp[p], G, armed[p], sender[p], a)
  BY <1>2, <1>6, <1>10, <1>14, <1>15, <1>16, <1>17 DEF Writable, Written, r, w
<1> QED BY <1>1, <1>18, WordsStep

\* A process as it is.
LEMMA ViewNow ==
  ASSUME TimerInv, NEW p \in Proc
  PROVE  LET v == View(left, List, Program, p)
         IN  /\ Fine(clock, v) /\ v.pc = pc[p] /\ v.turns = turns[p]
             /\ v.temp = temp[p] /\ v.guards = guards[p] /\ v.armed = armed[p]
             /\ v.sender = sender[p] /\ v.left = left[p] /\ v.time = time[p] /\ v.state = state[p]
             /\ v.listed = Holds(sleepers, p)
             /\ v.link = IF Holds(sleepers, p) THEN NoProcess ELSE tlink[p]
<1> DEFINE v == View(left, List, Program, p)
<1>1. Fine(clock, v)
  BY DEF TimerInv, Good
<1>2. /\ v.turns = turns[p] /\ v.pc = pc[p]
      /\ v.temp = temp[p] /\ v.guards = guards[p] /\ v.armed = armed[p]
      /\ v.sender = sender[p] /\ v.left = left[p] /\ v.time = time[p] /\ v.state = state[p]
      /\ v.listed = Holds(sleepers, p)
      /\ v.link = IF Holds(sleepers, p) THEN NoProcess ELSE tlink[p]
  BY ViewIs DEF List, Program
<1> QED BY <1>1, <1>2

\* One that runs.
LEMMA RunsNow ==
  ASSUME TimerInv, NEW p \in Proc, NEW at, Runs(p, at)
  PROVE  turns[p] = 1 /\ pc[p] = at /\ held = NoProcess
<1>1. turns[p] \in 0 .. 1 /\ turns[p] > 0
  BY StateIs DEF Runs
<1> QED BY <1>1 DEF Runs

\* The list with one word written.
LEMMA OneWord ==
  ASSUME TimerInv, NEW p \in Proc, NEW s
  PROVE  [List EXCEPT !.state[p] = s] = Rewritten(p, time[p], tlink[p], s, turns[p])
<1> DEFINE st == [state EXCEPT ![p] = s]
<1>1. List.state = state /\ List = ListWith(time, tlink, state, turns)
  BY DEF List, ListWith
<1>2. [List EXCEPT !.state[p] = s] = [List EXCEPT !.state = st]
  BY <1>1
<1>3. Rewritten(p, time[p], tlink[p], s, turns[p]) = ListWith(time, tlink, st, turns)
  BY SameWords DEF Rewritten
<1> HIDE DEF st
<1>4. [ListWith(time, tlink, state, turns) EXCEPT !.state = st] = ListWith(time, tlink, st, turns)
  BY DEF ListWith
<1> QED BY <1>1, <1>2, <1>3, <1>4

\* The list with the state and the turn of a process written.
LEMMA StateAndTurn ==
  ASSUME TimerInv, NEW p \in Proc, NEW s, NEW n
  PROVE  [List EXCEPT !.state[p] = s, !.turns[p] = n] = Rewritten(p, time[p], tlink[p], s, n)
<1> DEFINE st == [state EXCEPT ![p] = s]
           tu == [turns EXCEPT ![p] = n]
<1>1. List.state = state /\ List.turns = turns /\ List = ListWith(time, tlink, state, turns)
  BY DEF List, ListWith
<1>2. [List EXCEPT !.state[p] = s, !.turns[p] = n] = [[List EXCEPT !.state = st] EXCEPT !.turns = tu]
  BY <1>1
<1>3. Rewritten(p, time[p], tlink[p], s, n) = ListWith(time, tlink, st, tu)
  BY SameWords DEF Rewritten
<1> HIDE DEF st, tu
<1>4. [ListWith(time, tlink, state, turns) EXCEPT !.state = st] = ListWith(time, tlink, st, turns)
  BY DEF ListWith
<1>5. [ListWith(time, tlink, st, turns) EXCEPT !.turns = tu] = ListWith(time, tlink, st, tu)
  BY DEF ListWith
<1> QED BY <1>1, <1>2, <1>3, <1>4, <1>5

\* The list with the state and the time of a process written.
LEMMA StateAndTime ==
  ASSUME TimerInv, NEW p \in Proc, NEW s, NEW t
  PROVE  [List EXCEPT !.state[p] = s, !.time[p] = t] = Rewritten(p, t, tlink[p], s, turns[p])
<1> DEFINE st == [state EXCEPT ![p] = s]
           ti == [time EXCEPT ![p] = t]
<1>1. List.state = state /\ List.time = time /\ List = ListWith(time, tlink, state, turns)
  BY DEF List, ListWith
<1>2. [List EXCEPT !.state[p] = s, !.time[p] = t] = [[List EXCEPT !.state = st] EXCEPT !.time = ti]
  BY <1>1
<1>3. Rewritten(p, t, tlink[p], s, turns[p]) = ListWith(ti, tlink, st, turns)
  BY SameWords DEF Rewritten
<1> HIDE DEF st, ti
<1>4. [ListWith(time, tlink, state, turns) EXCEPT !.state = st] = ListWith(time, tlink, st, turns)
  BY DEF ListWith
<1>5. [ListWith(time, tlink, st, turns) EXCEPT !.time = ti] = ListWith(ti, tlink, st, turns)
  BY DEF ListWith
<1> QED BY <1>1, <1>2, <1>3, <1>4, <1>5

\* The list with no word written.
LEMMA NoWord ==
  ASSUME TimerInv, NEW p \in Proc
  PROVE  List = Rewritten(p, time[p], tlink[p], state[p], turns[p])
BY SameWords DEF List, Rewritten, ListWith

\* The words of the program are typed.
LEMMA ProgramWords ==
  ASSUME TimerInv, NEW p \in Proc
  PROVE  /\ pc[p] \in {"free", "enabling", "disabling"} /\ temp[p] \in Time \union {NONE_SELECTED, CHANNEL}
         /\ guards[p] \in SUBSET Time /\ armed[p] \in BOOLEAN /\ sender[p] \in BOOLEAN
BY StateIs

\* enbc
LEMMA EnableChannelKeeps ==
  ASSUME TimerInv, NEW p \in roles.choosers, EnableChannel(p) PROVE TimerInv' /\ SleepersStay
<1> DEFINE A == TRUE
           s == IF sender[p] THEN "ready" ELSE state[p]
           r == Rewritten(p, time[p], tlink[p], s, turns[p])
           v == View(left, List, Program, p)
           w == View(left', r, Program', p)
<1>1. p \in Proc /\ Runs(p, "enabling")
  BY StateIs DEF EnableChannel
<1>2. turns[p] = 1 /\ pc[p] = "enabling"
  BY <1>1, RunsNow
<1>3. /\ armed' = [armed EXCEPT ![p] = A] /\ UNCHANGED registers /\ temp' = temp /\ pc' = pc
      /\ guards' = guards /\ sender' = sender /\ left' = left
      /\ EndInstruction([List EXCEPT !.state[p] = IF sender[p] THEN "ready" ELSE @])
  BY DEF EnableChannel
<1>4. EndInstruction(r)
  <2>1. [List EXCEPT !.state[p] = IF sender[p] THEN "ready" ELSE @] = [List EXCEPT !.state[p] = s]
    BY DEF List
  <2> HIDE DEF s
  <2>2. [List EXCEPT !.state[p] = s] = r
    BY <1>1, OneWord
  <2> HIDE DEF r
  <2> QED BY <1>3, <2>1, <2>2
<1>5. /\ time[p] \in Time /\ tlink[p] \in Proc \union {NoProcess, "notSet", "set"}
      /\ s \in Mark /\ turns[p] \in 0 .. 1
  BY <1>1, SameWords DEF Mark
<1>6. armed'[p] = TRUE
  BY <1>1, <1>3, StateIs
<1>7. /\ Fine(clock, v) /\ v.pc = pc[p] /\ v.turns = turns[p]
      /\ v.temp = temp[p] /\ v.guards = guards[p] /\ v.armed = armed[p]
      /\ v.sender = sender[p] /\ v.left = left[p] /\ v.time = time[p] /\ v.state = state[p]
      /\ v.listed = Holds(sleepers, p)
      /\ v.link = IF Holds(sleepers, p) THEN NoProcess ELSE tlink[p]
  BY <1>1, ViewNow
<1> HIDE DEF s
<1>8. /\ w.pc = pc'[p] /\ w.temp = temp'[p] /\ w.guards = guards'[p]
      /\ w.armed = armed'[p] /\ w.sender = sender'[p] /\ w.left = left'[p]
      /\ w.time = time[p] /\ w.state = s /\ w.turns = turns[p] /\ w.listed = Holds(sleepers, p)
      /\ w.link = IF Holds(sleepers, p) THEN NoProcess ELSE tlink[p]
  BY <1>1, <1>5, RewrittenView, SMTT(40)
<1> HIDE DEF v, w, r
<1>9. Armed(v, w)
  BY <1>3, <1>6, <1>7, <1>8 DEF Armed, s
<1>10. Fine(clock, w)
  BY <1>2, <1>7, <1>9, ArmedFine
<1>11. /\ pc[p] \in {"free", "enabling", "disabling"} /\ temp[p] \in Time \union {NONE_SELECTED, CHANNEL}
       /\ guards[p] \in SUBSET Time /\ sender[p] \in BOOLEAN
  BY <1>1, ProgramWords
<1>12. A \in BOOLEAN
  OBVIOUS
<1> HIDE DEF A
<1>13. Writes(p, pc[p], temp[p], guards[p], A, sender[p])
  BY <1>3 DEF Writes
<1>14. LeftBecomes(p, left[p]) /\ pc'[p] # "free"
  BY <1>1, <1>2, <1>3, SameLeft
<1>15. /\ Writable(p, time[p], tlink[p], s, turns[p], pc[p], temp[p], guards[p], A, sender[p], left[p])
       /\ Written(p, time[p], tlink[p], s, turns[p], pc[p], temp[p], guards[p], A, sender[p], left[p])
  BY <1>2, <1>3, <1>4, <1>5, <1>10, <1>11, <1>12, <1>13, <1>14 DEF Writable, Written, r, w
<1> QED BY <1>1, <1>15, WordsStep

\* A sender comes.
LEMMA SendKeeps ==
  ASSUME TimerInv, NEW p \in roles.choosers, Send(p) PROVE TimerInv' /\ SleepersStay
<1> DEFINE S == TRUE
           s == IF armed[p] THEN "ready" ELSE state[p]
           n == IF armed[p] /\ state[p] = "waiting" THEN turns[p] + 1 ELSE turns[p]
           r == Rewritten(p, time[p], tlink[p], s, n)
           v == View(left, List, Program, p)
           w == View(left', r, Program', p)
           q == [List EXCEPT !.state[p] = "ready",
                             !.turns[p] = IF state[p] = "waiting" THEN @ + 1 ELSE @]
<1>1. p \in Proc
  BY StateIs
<1>2. /\ sender' = [sender EXCEPT ![p] = S] /\ UNCHANGED registers /\ temp' = temp /\ pc' = pc
      /\ guards' = guards /\ armed' = armed /\ left' = left
      /\ EndInstruction(IF ~armed[p] THEN List ELSE q)
  BY DEF Send
<1>3. /\ time[p] \in Time /\ tlink[p] \in Proc \union {NoProcess, "notSet", "set"}
      /\ state[p] \in Mark /\ turns[p] \in 0 .. 1
  BY <1>1, SameWords
<1>4. EndInstruction(r)
  <2>1. CASE ~armed[p]
    <3>1. s = state[p] /\ n = turns[p]
      BY <2>1
    <3> HIDE DEF s, n
    <3>2. List = r
      BY <1>1, <3>1, NoWord
    <3> HIDE DEF r
    <3> QED BY <1>2, <2>1, <3>2
  <2>2. CASE armed[p]
    <3>1. s = "ready" /\ n = IF state[p] = "waiting" THEN turns[p] + 1 ELSE turns[p]
      BY <2>2
    <3>2. q = [List EXCEPT !.state[p] = s, !.turns[p] = n]
      BY <3>1 DEF List
    <3> HIDE DEF s, n, q
    <3>3. q = r
      BY <1>1, <3>2, StateAndTurn
    <3> HIDE DEF r
    <3> QED BY <1>2, <2>2, <3>3
  <2> QED BY <2>1, <2>2
<1>5. sender'[p] = TRUE
  BY <1>1, <1>2, StateIs
<1>6. /\ Fine(clock, v) /\ v.pc = pc[p] /\ v.turns = turns[p]
      /\ v.temp = temp[p] /\ v.guards = guards[p] /\ v.armed = armed[p]
      /\ v.sender = sender[p] /\ v.left = left[p] /\ v.time = time[p] /\ v.state = state[p]
      /\ v.listed = Holds(sleepers, p)
      /\ v.link = IF Holds(sleepers, p) THEN NoProcess ELSE tlink[p]
  BY <1>1, ViewNow
<1>7. s \in Mark /\ n \in 0 .. 1
  <2>1. state[p] = "waiting" => turns[p] = 0
    <3> HIDE DEF v
    <3> QED BY <1>6 DEF Fine, FreeFine, EnablingFine, DisablingFine
  <2>2. s \in Mark
    BY <1>3 DEF Mark
  <2> HIDE DEF s
  <2> QED BY <1>3, <2>1, <2>2
<1> HIDE DEF s, n
<1>8. /\ w.pc = pc'[p] /\ w.temp = temp'[p] /\ w.guards = guards'[p]
      /\ w.armed = armed'[p] /\ w.sender = sender'[p] /\ w.left = left'[p]
      /\ w.time = time[p] /\ w.state = s /\ w.turns = n /\ w.listed = Holds(sleepers, p)
      /\ w.link = IF Holds(sleepers, p) THEN NoProcess ELSE tlink[p]
  BY <1>1, <1>3, <1>7, RewrittenView, SMTT(40)
<1> HIDE DEF v, w, r
<1>9. Sent(v, w)
  BY <1>2, <1>5, <1>6, <1>8 DEF Sent, s, n
<1>10. Fine(clock, w)
  BY <1>6, <1>9, SentFine
<1>11. /\ pc[p] \in {"free", "enabling", "disabling"} /\ temp[p] \in Time \union {NONE_SELECTED, CHANNEL}
       /\ guards[p] \in SUBSET Time /\ armed[p] \in BOOLEAN
  BY <1>1, ProgramWords
<1>12. S \in BOOLEAN
  OBVIOUS
<1> HIDE DEF S
<1>13. Writes(p, pc[p], temp[p], guards[p], armed[p], S)
  BY <1>2 DEF Writes
<1>14. LeftBecomes(p, left[p])
  BY <1>1, <1>2, SameLeft
<1>15. pc'[p] = "free" /\ n > 0 => left[p] = Nothing
  <2> SUFFICES ASSUME pc'[p] = "free", n > 0 PROVE left[p] = Nothing
    OBVIOUS
  <2>1. pc[p] = "free"
    BY <1>2
  <2>2. v.armed = FALSE
    BY <1>6, <2>1 DEF Fine, FreeFine, Kinds
  <2>3. n = turns[p]
    BY <1>6, <2>2 DEF n
  <2>4. Program.pc[p] = "free" /\ List.turns[p] > 0 /\ Tidy(left, List, Program)
    BY <2>1, <2>3 DEF Program, List, TimerInv
  <2> QED BY <1>1, <2>4 DEF Tidy
<1>16. pc[p] = "free" /\ turns[p] = 0 => n = 0
  BY <1>6 DEF Fine, FreeFine, n
<1>17. /\ Writable(p, time[p], tlink[p], s, n, pc[p], temp[p], guards[p], armed[p], S, left[p])
       /\ Written(p, time[p], tlink[p], s, n, pc[p], temp[p], guards[p], armed[p], S, left[p])
  BY <1>2, <1>3, <1>4, <1>7, <1>10, <1>11, <1>12, <1>13, <1>14, <1>15, <1>16 DEF Writable, Written, r, w
<1> QED BY <1>1, <1>17, WordsStep

\* taltwt, when a guard is ready.
LEMMA FoundKeeps ==
  ASSUME TimerInv, NEW p \in Proc, Runs(p, "enabling"), guards[p] # {} \/ armed[p],
         pc' = [pc EXCEPT ![p] = "disabling"], temp' = [temp EXCEPT ![p] = NONE_SELECTED],
         UNCHANGED <<registers, guards, armed, sender, left>>, FoundReady(p)
  PROVE  TimerInv' /\ SleepersStay
<1> DEFINE P == "disabling"
           s == "ready"
           r == Rewritten(p, clock, tlink[p], s, turns[p])
           v == View(left, List, Program, p)
           w == View(left', r, Program', p)
<1>1. turns[p] = 1 /\ pc[p] = "enabling"
  BY RunsNow
<1>2. UNCHANGED registers /\ guards' = guards /\ armed' = armed /\ sender' = sender /\ left' = left
  OBVIOUS
<1>3. /\ state[p] = "ready" \/ (tlink[p] = "set" /\ After(clock, time[p]))
      /\ EndInstruction([List EXCEPT !.state[p] = "ready", !.time[p] = clock])
  BY DEF FoundReady
<1>4. EndInstruction(r)
  <2>1. [List EXCEPT !.state[p] = s, !.time[p] = clock] = r
    BY StateAndTime
  <2> HIDE DEF r
  <2> QED BY <1>3, <2>1
<1>5. /\ clock \in Time /\ tlink[p] \in Proc \union {NoProcess, "notSet", "set"}
      /\ s \in Mark /\ turns[p] \in 0 .. 1
  BY SameWords, StateIs DEF Mark
<1>6. pc'[p] = "disabling" /\ temp'[p] = NONE_SELECTED
  BY StateIs
<1>7. /\ Fine(clock, v) /\ v.pc = pc[p] /\ v.turns = turns[p]
      /\ v.temp = temp[p] /\ v.guards = guards[p] /\ v.armed = armed[p]
      /\ v.sender = sender[p] /\ v.left = left[p] /\ v.time = time[p] /\ v.state = state[p]
      /\ v.listed = Holds(sleepers, p)
      /\ v.link = IF Holds(sleepers, p) THEN NoProcess ELSE tlink[p]
  BY ViewNow
<1> HIDE DEF s
<1>8. /\ w.pc = pc'[p] /\ w.temp = temp'[p] /\ w.guards = guards'[p]
      /\ w.armed = armed'[p] /\ w.sender = sender'[p] /\ w.left = left'[p]
      /\ w.time = clock /\ w.state = s /\ w.turns = turns[p] /\ w.listed = Holds(sleepers, p)
      /\ w.link = IF Holds(sleepers, p) THEN NoProcess ELSE tlink[p]
  BY <1>5, RewrittenView, SMTT(40)
<1> HIDE DEF v, w, r
<1>9. ~Holds(sleepers, p)
  BY <1>1, <1>7 DEF Fine, EnablingFine
<1>10. Found(clock, v, w)
  BY <1>2, <1>6, <1>7, <1>8, <1>9 DEF Found, s
<1>11. Fine(clock, w)
  <2>1. v.guards # {} \/ v.armed
    BY <1>7
  <2>2. v.state = "ready" \/ (v.link = "set" /\ After(clock, v.time))
    BY <1>3, <1>7, <1>9
  <2> QED BY <1>1, <1>5, <1>7, <1>10, <2>1, <2>2, FoundFine
<1>12. /\ guards[p] \in SUBSET Time /\ armed[p] \in BOOLEAN /\ sender[p] \in BOOLEAN
       /\ NONE_SELECTED \in Time \union {NONE_SELECTED, CHANNEL}
  BY ProgramWords
<1>13. P \in {"free", "enabling", "disabling"} /\ pc'[p] # "free"
  BY <1>6
<1> HIDE DEF P
<1>14. Writes(p, P, NONE_SELECTED, guards[p], armed[p], sender[p])
  BY <1>2 DEF Writes, P
<1>15. LeftBecomes(p, left[p])
  BY <1>2, SameLeft
<1>16. /\ Writable(p, clock, tlink[p], s, turns[p], P, NONE_SELECTED, guards[p], armed[p], sender[p], left[p])
       /\ Written(p, clock, tlink[p], s, turns[p], P, NONE_SELECTED, guards[p], armed[p], sender[p], left[p])
  BY <1>1, <1>2, <1>4, <1>5, <1>9, <1>11, <1>12, <1>13, <1>14, <1>15 DEF Writable, Written, r, w
<1> QED BY <1>16, WordsStep

\* taltwt, without a timer guard.
LEMMA SleptKeeps ==
  ASSUME TimerInv, NEW p \in Proc, Runs(p, "enabling"), guards[p] # {} \/ armed[p],
         pc' = [pc EXCEPT ![p] = "disabling"], temp' = [temp EXCEPT ![p] = NONE_SELECTED],
         UNCHANGED <<registers, guards, armed, sender, left>>, SleepUntimed(p)
  PROVE  TimerInv' /\ SleepersStay
<1> DEFINE P == "disabling"
           s == "waiting"
           n == turns[p] - 1
           r == Rewritten(p, time[p], tlink[p], s, n)
           v == View(left, List, Program, p)
           w == View(left', r, Program', p)
<1>1. turns[p] = 1 /\ pc[p] = "enabling"
  BY RunsNow
<1>2. UNCHANGED registers /\ guards' = guards /\ armed' = armed /\ sender' = sender /\ left' = left
  OBVIOUS
<1>3. /\ tlink[p] = "notSet"
      /\ EndInstruction([List EXCEPT !.state[p] = "waiting", !.turns[p] = @ - 1])
  BY DEF SleepUntimed
<1>4. EndInstruction(r)
  <2>1. [List EXCEPT !.state[p] = "waiting", !.turns[p] = @ - 1]
        = [List EXCEPT !.state[p] = s, !.turns[p] = n]
    BY DEF List
  <2> HIDE DEF n
  <2>2. [List EXCEPT !.state[p] = s, !.turns[p] = n] = r
    BY StateAndTurn
  <2> HIDE DEF r
  <2> QED BY <1>3, <2>1, <2>2
<1>5. /\ time[p] \in Time /\ tlink[p] \in Proc \union {NoProcess, "notSet", "set"}
      /\ s \in Mark /\ n \in 0 .. 1
  BY <1>1, SameWords DEF Mark
<1>6. pc'[p] = "disabling" /\ temp'[p] = NONE_SELECTED
  BY StateIs
<1>7. /\ Fine(clock, v) /\ v.pc = pc[p] /\ v.turns = turns[p]
      /\ v.temp = temp[p] /\ v.guards = guards[p] /\ v.armed = armed[p]
      /\ v.sender = sender[p] /\ v.left = left[p] /\ v.time = time[p] /\ v.state = state[p]
      /\ v.listed = Holds(sleepers, p)
      /\ v.link = IF Holds(sleepers, p) THEN NoProcess ELSE tlink[p]
  BY ViewNow
<1> HIDE DEF s, n
<1>8. /\ w.pc = pc'[p] /\ w.temp = temp'[p] /\ w.guards = guards'[p]
      /\ w.armed = armed'[p] /\ w.sender = sender'[p] /\ w.left = left'[p]
      /\ w.time = time[p] /\ w.state = s /\ w.turns = n /\ w.listed = Holds(sleepers, p)
      /\ w.link = IF Holds(sleepers, p) THEN NoProcess ELSE tlink[p]
  BY <1>5, RewrittenView, SMTT(40)
<1> HIDE DEF v, w, r
<1>9. ~Holds(sleepers, p)
  BY <1>1, <1>7 DEF Fine, EnablingFine
<1>10. Slept(v, w)
  BY <1>2, <1>6, <1>7, <1>8 DEF Slept, s, n
<1>11. Fine(clock, w)
  <2>1. v.guards # {} \/ v.armed
    BY <1>7
  <2>2. v.link = "notSet" /\ clock \in Time
    BY <1>3, <1>7, <1>9, StateIs
  <2> QED BY <1>1, <1>7, <1>10, <2>1, <2>2, SleptFine
<1>12. /\ guards[p] \in SUBSET Time /\ armed[p] \in BOOLEAN /\ sender[p] \in BOOLEAN
       /\ NONE_SELECTED \in Time \union {NONE_SELECTED, CHANNEL}
  BY ProgramWords
<1>13. P \in {"free", "enabling", "disabling"} /\ pc'[p] # "free"
  BY <1>6
<1> HIDE DEF P
<1>14. Writes(p, P, NONE_SELECTED, guards[p], armed[p], sender[p])
  BY <1>2 DEF Writes, P
<1>15. LeftBecomes(p, left[p])
  BY <1>2, SameLeft
<1>16. /\ Writable(p, time[p], tlink[p], s, n, P, NONE_SELECTED, guards[p], armed[p], sender[p], left[p])
       /\ Written(p, time[p], tlink[p], s, n, P, NONE_SELECTED, guards[p], armed[p], sender[p], left[p])
  BY <1>1, <1>2, <1>4, <1>5, <1>9, <1>11, <1>12, <1>13, <1>14, <1>15 DEF Writable, Written, r, w
<1> QED BY <1>16, WordsStep

\* disc
LEMMA DisableChannelKeeps ==
  ASSUME TimerInv, NEW p \in roles.choosers, DisableChannel(p) PROVE TimerInv' /\ SleepersStay
<1> DEFINE A == FALSE
           T == IF sender[p] /\ temp[p] = NONE_SELECTED THEN CHANNEL ELSE temp[p]
           r == Rewritten(p, time[p], tlink[p], state[p], turns[p])
           v == View(left, List, Program, p)
           w == View(left', r, Program', p)
<1>1. p \in Proc /\ Runs(p, "disabling")
  BY StateIs DEF DisableChannel
<1>2. turns[p] = 1 /\ pc[p] = "disabling"
  BY <1>1, RunsNow
<1>3. /\ armed' = [armed EXCEPT ![p] = A] /\ UNCHANGED registers /\ pc' = pc
      /\ guards' = guards /\ sender' = sender /\ left' = left /\ EndInstruction(List)
      /\ IF sender[p] THEN Selected(p, CHANNEL) ELSE UNCHANGED temp
  BY DEF DisableChannel
<1>4. temp' = [temp EXCEPT ![p] = T]
  <2>1. CASE sender[p]
    <3>1. temp' = [temp EXCEPT ![p] = IF temp[p] = NONE_SELECTED THEN CHANNEL ELSE temp[p]]
      BY <1>3, <2>1 DEF Selected
    <3> QED BY <2>1, <3>1
  <2>2. CASE ~sender[p]
    <3>1. T = temp[p] /\ temp' = temp
      BY <1>3, <2>2
    <3> HIDE DEF T
    <3> QED BY <3>1, StateIs
  <2> QED BY <2>1, <2>2
<1>5. EndInstruction(r)
  <2>1. List = r
    BY <1>1, NoWord
  <2> HIDE DEF r
  <2> QED BY <1>3, <2>1
<1>6. /\ time[p] \in Time /\ tlink[p] \in Proc \union {NoProcess, "notSet", "set"}
      /\ state[p] \in Mark /\ turns[p] \in 0 .. 1
  BY <1>1, SameWords
<1>7. /\ Fine(clock, v) /\ v.pc = pc[p] /\ v.turns = turns[p]
      /\ v.temp = temp[p] /\ v.guards = guards[p] /\ v.armed = armed[p]
      /\ v.sender = sender[p] /\ v.left = left[p] /\ v.time = time[p] /\ v.state = state[p]
      /\ v.listed = Holds(sleepers, p)
      /\ v.link = IF Holds(sleepers, p) THEN NoProcess ELSE tlink[p]
  BY <1>1, ViewNow
<1>8. /\ w.pc = pc'[p] /\ w.temp = temp'[p] /\ w.guards = guards'[p]
      /\ w.armed = armed'[p] /\ w.sender = sender'[p] /\ w.left = left'[p]
      /\ w.time = time[p] /\ w.state = state[p] /\ w.turns = turns[p] /\ w.listed = Holds(sleepers, p)
      /\ w.link = IF Holds(sleepers, p) THEN NoProcess ELSE tlink[p]
  BY <1>1, <1>6, RewrittenView, SMTT(40)
<1> HIDE DEF v, w, r, T
<1>9. armed'[p] = FALSE /\ temp'[p] = T
  BY <1>1, <1>3, <1>4, StateIs
<1>10. Disarmed(v, w)
  BY <1>3, <1>7, <1>8, <1>9 DEF Disarmed, T
<1>11. Fine(clock, w)
  <2>1. clock \in Time
    BY StateIs
  <2> QED BY <1>2, <1>7, <1>10, <2>1, DisarmedFine
<1>12. /\ pc[p] \in {"free", "enabling", "disabling"} /\ T \in Time \union {NONE_SELECTED, CHANNEL}
       /\ guards[p] \in SUBSET Time /\ sender[p] \in BOOLEAN
  BY <1>1, ProgramWords DEF T
<1>13. A \in BOOLEAN
  OBVIOUS
<1> HIDE DEF A
<1>14. Writes(p, pc[p], T, guards[p], A, sender[p])
  BY <1>3, <1>4 DEF Writes
<1>15. LeftBecomes(p, left[p]) /\ pc'[p] # "free"
  BY <1>1, <1>2, <1>3, SameLeft
<1>16. /\ Writable(p, time[p], tlink[p], state[p], turns[p], pc[p], T, guards[p], A, sender[p], left[p])
       /\ Written(p, time[p], tlink[p], state[p], turns[p], pc[p], T, guards[p], A, sender[p], left[p])
  BY <1>2, <1>3, <1>5, <1>6, <1>11, <1>12, <1>13, <1>14, <1>15 DEF Writable, Written, r, w
<1> QED BY <1>1, <1>16, WordsStep

\* altend
LEMMA FinishKeeps ==
  ASSUME TimerInv, NEW p \in roles.choosers, Finish(p) PROVE TimerInv' /\ SleepersStay
<1> DEFINE P == "free"
           S == IF temp[p] = CHANNEL THEN FALSE ELSE sender[p]
           r == Rewritten(p, time[p], tlink[p], state[p], turns[p])
           v == View(left, List, Program, p)
           w == View(left', r, Program', p)
<1>1. p \in Proc /\ Runs(p, "disabling") /\ guards[p] = {} /\ ~armed[p]
  BY StateIs DEF Finish
<1>2. turns[p] = 1 /\ pc[p] = "disabling"
  BY <1>1, RunsNow
<1>3. /\ pc' = [pc EXCEPT ![p] = P] /\ left' = [left EXCEPT ![p] = Nothing]
      /\ sender' = IF temp[p] = CHANNEL THEN [sender EXCEPT ![p] = FALSE] ELSE sender
      /\ UNCHANGED registers /\ temp' = temp /\ guards' = guards /\ armed' = armed /\ EndInstruction(List)
  BY DEF Finish
<1>4. pc'[p] = "free" /\ sender'[p] \in BOOLEAN /\ left'[p] = Nothing
  BY <1>1, <1>3, StateIs, LeftChanges
<1>5. EndInstruction(r)
  <2>1. List = r
    BY <1>1, NoWord
  <2> HIDE DEF r
  <2> QED BY <1>3, <2>1
<1>6. /\ time[p] \in Time /\ tlink[p] \in Proc \union {NoProcess, "notSet", "set"}
      /\ state[p] \in Mark /\ turns[p] \in 0 .. 1
  BY <1>1, SameWords
<1>7. /\ Fine(clock, v) /\ v.pc = pc[p] /\ v.turns = turns[p]
      /\ v.temp = temp[p] /\ v.guards = guards[p] /\ v.armed = armed[p]
      /\ v.sender = sender[p] /\ v.left = left[p] /\ v.time = time[p] /\ v.state = state[p]
      /\ v.listed = Holds(sleepers, p)
      /\ v.link = IF Holds(sleepers, p) THEN NoProcess ELSE tlink[p]
  BY <1>1, ViewNow
<1>8. /\ w.pc = pc'[p] /\ w.temp = temp'[p] /\ w.guards = guards'[p]
      /\ w.armed = armed'[p] /\ w.sender = sender'[p] /\ w.left = left'[p]
      /\ w.time = time[p] /\ w.state = state[p] /\ w.turns = turns[p] /\ w.listed = Holds(sleepers, p)
      /\ w.link = IF Holds(sleepers, p) THEN NoProcess ELSE tlink[p]
  BY <1>1, <1>6, RewrittenView, SMTT(40)
<1> HIDE DEF v, w, r
<1>9. Ended(v, w)
  BY <1>3, <1>4, <1>7, <1>8 DEF Ended
<1>10. Fine(clock, w) /\ ~Holds(sleepers, p)
  <2>1. clock \in Time
    BY StateIs
  <2> QED BY <1>1, <1>2, <1>7, <1>9, <2>1, EndedFine
<1>11. /\ temp[p] \in Time \union {NONE_SELECTED, CHANNEL}
       /\ guards[p] \in SUBSET Time /\ armed[p] \in BOOLEAN /\ S \in BOOLEAN
  BY <1>1, ProgramWords
<1>12. P \in {"free", "enabling", "disabling"}
  OBVIOUS
<1>13. Writes(p, P, temp[p], guards[p], armed[p], S)
  <2>1. sender' = [sender EXCEPT ![p] = S] \/ sender' = sender
    BY <1>3
  <2> HIDE DEF P, S
  <2> QED BY <1>3, <2>1 DEF Writes
<1> HIDE DEF P, S
<1>14. LeftBecomes(p, Nothing)
  BY <1>3 DEF LeftBecomes
<1>15. /\ Writable(p, time[p], tlink[p], state[p], turns[p], P, temp[p], guards[p], armed[p], S, Nothing)
       /\ Written(p, time[p], tlink[p], state[p], turns[p], P, temp[p], guards[p], armed[p], S, Nothing)
  BY <1>2, <1>3, <1>5, <1>6, <1>10, <1>11, <1>12, <1>13, <1>14 DEF Writable, Written, r, w
<1> QED BY <1>1, <1>15, WordsStep

-----------------------------------------------------------------------------
(* Sleeping *)

\* r is q with p asleep at place n until d.
Sleeps(q, r, n, p, d, s) ==
  /\ Inserted(q.sleepers, n, p, r.sleepers)
  /\ InsertLinks(q.tlink, q.sleepers, n, p, r.tlink)
  /\ r.tptr = IF n = 1 THEN p ELSE q.tptr
  /\ r.tnext = IF n = 1 THEN d ELSE q.tnext
  /\ r.time[p] = d /\ r.state[p] = s /\ r.turns[p] = 0
  /\ \A x \in Proc : x # p =>
       r.time[x] = q.time[x] /\ r.state[x] = q.state[x] /\ r.turns[x] = q.turns[x]

\* The deadline of a time.
DeadlineOf(t) == (t + 1) % Modulus

\* What waitTimer makes of a list.
LEMMA SleepIs ==
  ASSUME NEW q, ListTyped(q), Linked(q.tlink, q.tptr, q.sleepers), NEW p \in Proc,
         ~Holds(q.sleepers, p), q.turns[p] = 1, NEW t \in Time, NEW s \in Mark
  PROVE  \E n \in Nat :
           /\ PlaceIs(n, q.sleepers, {w \in Proc : After(q.time[w], DeadlineOf(t))})
           /\ Sleeps(q, Sleep(q, p, t, s), n, p, DeadlineOf(t), s)
           /\ ListTyped(Sleep(q, p, t, s))
<1> DEFINE d    == DeadlineOf(t)
           S    == {w \in Proc : After(q.time[w], d)}
           ws   == q.sleepers
           walk == Walk(q)
           n    == FirstPlace(walk, S)
           tp   == IF n = 1 THEN p ELSE q.tptr
           tn   == IF n = 1 THEN d ELSE q.tnext
           tl   == IF n = 1 THEN [q.tlink EXCEPT ![p] = walk[1]]
                   ELSE [q.tlink EXCEPT ![p] = walk[n], ![walk[n - 1]] = p]
           ti   == [q.time EXCEPT ![p] = d]
           st   == [q.state EXCEPT ![p] = s]
           tu   == [q.turns EXCEPT ![p] = q.turns[p] - 1]
           sl   == SubSeq(ws, 1, n - 1) \o <<p>> \o SubSeq(ws, n, Len(ws))
           r    == Sleep(q, p, t, s)
<1>1. /\ PlaceIs(n, ws, S) /\ ws \in Seq(Proc)
      /\ walk[n] = IF n <= Len(ws) THEN ws[n] ELSE NoProcess
      /\ \A m \in 1 .. n - 1 : walk[m] = ws[m]
  <2>1. S \subseteq Proc
    OBVIOUS
  <2> HIDE DEF S
  <2> QED BY <2>1, PlaceInList
<1>2. /\ q.tptr \in Proc \union {NoProcess} /\ q.tnext \in Time
      /\ q.time \in [Proc -> Time] /\ q.tlink \in [Proc -> Proc \union {NoProcess, "notSet", "set"}]
      /\ q.state \in [Proc -> Mark] /\ q.turns \in [Proc -> 0 .. 1]
  BY ListIs
<1>3. r = [q EXCEPT !.tptr = tp, !.tnext = tn, !.tlink = tl, !.time = ti,
                    !.state = st, !.turns = tu, !.sleepers = sl]
  BY DEF Sleep, DeadlineOf
<1>4. d \in Time
  <2> DEFINE u == t + 1
  <2>1. u \in Int
    BY ClockBounds
  <2> HIDE DEF u
  <2>2. u % Modulus \in Time
    BY <2>1, TimeAt
  <2> QED BY <2>2 DEF u, DeadlineOf
<1>5. n \in Nat /\ n >= 1 /\ n <= Len(ws) + 1 /\ Len(ws) \in Nat
      /\ \A m \in 1 .. n - 1 : m \in 1 .. Len(ws)
  BY <1>1, LenProperties DEF PlaceIs
<1>6. \A i \in 1 .. Len(ws) : ws[i] \in Proc /\ ws[i] # p
  BY <1>1, ElementOfSeq DEF Holds
<1> HIDE DEF S, walk, n, d, r
<1>7. walk[n] \in Proc \union {NoProcess}
  BY <1>1, <1>5, <1>6
<1>8. tl \in [Proc -> Proc \union {NoProcess, "notSet", "set"}]
      /\ \A x \in Proc : tl[x] = IF x = p THEN walk[n]
                                 ELSE IF n > 1 /\ x = ws[n - 1] THEN p ELSE q.tlink[x]
  <2>1. CASE n = 1
    <3>1. tl = [q.tlink EXCEPT ![p] = walk[n]]
      BY <2>1
    <3> HIDE DEF tl
    <3> QED BY <1>2, <1>7, <2>1, <3>1
  <2>2. CASE n # 1
    <3>1. n > 1 /\ n - 1 \in 1 .. n - 1 /\ n - 1 \in 1 .. Len(ws)
      BY <1>5, <2>2
    <3> DEFINE e == walk[n - 1]
    <3>2. tl = [q.tlink EXCEPT ![p] = walk[n], ![e] = p]
      BY <2>2
    <3>3. e = ws[n - 1] /\ e \in Proc /\ e # p
      BY <1>1, <1>6, <3>1
    <3> HIDE DEF e, tl
    <3>4. tl \in [Proc -> Proc \union {NoProcess, "notSet", "set"}]
      BY <1>2, <1>7, <3>2, <3>3
    <3>5. \A x \in Proc : tl[x] = IF x = e THEN p ELSE IF x = p THEN walk[n] ELSE q.tlink[x]
      BY <1>2, <3>2, <3>3
    <3> QED BY <3>1, <3>3, <3>4, <3>5
  <2> QED BY <2>1, <2>2
<1>9. ti \in [Proc -> Time] /\ ti[p] = d /\ \A x \in Proc : x # p => ti[x] = q.time[x]
  BY <1>2, <1>4
<1>10. st \in [Proc -> Mark] /\ st[p] = s /\ \A x \in Proc : x # p => st[x] = q.state[x]
  BY <1>2
<1>11. tu \in [Proc -> 0 .. 1] /\ tu[p] = 0 /\ \A x \in Proc : x # p => tu[x] = q.turns[x]
  <2> DEFINE y == q.turns[p] - 1
  <2>1. y = 0 /\ y \in 0 .. 1
    OBVIOUS
  <2> HIDE DEF y
  <2>2. [q.turns EXCEPT ![p] = y] \in [Proc -> 0 .. 1]
    BY <1>2, <2>1
  <2> QED BY <1>2, <2>1, <2>2 DEF y
<1>12. sl \in Seq(Proc) /\ Inserted(ws, n, p, sl)
  <2>1. ws \in Seq(Proc) /\ n \in Nat /\ n >= 1 /\ n <= Len(ws) + 1
    BY <1>1, <1>5
  <2> HIDE DEF ws
  <2>2. Inserted(ws, n, p, sl)
    BY <2>1, InsertedIs
  <2> HIDE DEF sl
  <2> QED BY <2>2 DEF Inserted
<1>13. tp \in Proc \union {NoProcess} /\ tn \in Time
  BY <1>2, <1>4
<1> HIDE DEF tp, tn, tl, ti, st, tu, sl
<1>14. r.tptr = tp /\ r.tnext = tn /\ r.state = st
  BY <1>3 DEF ListTyped, Lists
<1>15. r.time = ti /\ r.tlink = tl /\ r.turns = tu /\ r.sleepers = sl
  BY <1>3 DEF ListTyped, Lists
<1>16. r \in Lists
  <2>1. q \in Lists
    BY DEF ListTyped
  <2> QED BY <1>3, <1>8, <1>9, <1>10, <1>11, <1>12, <1>13, <2>1 DEF Lists
<1>17. InsertLinks(q.tlink, ws, n, p, r.tlink)
  BY <1>1, <1>8, <1>15 DEF InsertLinks
<1>18. Sleeps(q, r, n, p, d, s)
  BY <1>9, <1>10, <1>11, <1>12, <1>14, <1>15, <1>17 DEF Sleeps, tp, tn
<1> QED BY <1>1, <1>5, <1>16, <1>18 DEF ListTyped, r, d, S

\* The others are as they were.
OthersSame(p, l, g, m, f) ==
  \A x \in Proc : x # p =>
    /\ m[x] = l[x] /\ f.pc[x] = g.pc[x] /\ f.temp[x] = g.temp[x] /\ f.guards[x] = g.guards[x]
    /\ f.armed[x] = g.armed[x] /\ f.sender[x] = g.sender[x]

\* An entry is after a deadline when more ticks are left until its own.
LEMMA BehindDeadline ==
  ASSUME NEW c, NEW h, NEW l, NEW q, NEW g, Good(c, h, l, q, g), NEW x \in Proc, Holds(q.sleepers, x),
         NEW y \in Span, y >= 1
  PROVE  After(q.time[x], (c + y) % Modulus) <=> Soonest(l[x]) > y
<1> DEFINE z == Soonest(l[x])
<1>1. z \in Span /\ z \in Int /\ q.time[x] = (c + z) % Modulus
  BY EntryIs
<1>2. c \in Int
  BY ClockBounds DEF Good
<1> HIDE DEF z
<1>3. y \in Int /\ -Half <= z - y /\ z - y < Half
  BY <1>1, ClockBounds DEF Span
<1>4. After((c + z) % Modulus, (c + y) % Modulus) <=> z > y
  BY <1>1, <1>2, <1>3, AfterIs
<1> QED BY <1>1, <1>4 DEF z

\* The list with one more entry, in its place.
LEMMA SleepGood ==
  ASSUME NEW c, NEW l, NEW q, NEW g, Good(c, NoProcess, l, q, g), NEW p \in Proc,
         ~Holds(q.sleepers, p), q.turns[p] = 1, NEW t \in Time, NEW s \in Mark,
         NEW m, NEW f, ProgramTyped(f), OthersSame(p, l, g, m, f),
         \A r : r.time[p] = DeadlineOf(t) /\ r.state[p] = s /\ r.turns[p] = 0 /\ Holds(r.sleepers, p)
                  => Fine(c, View(m, r, f, p)),
         Soonest(m[p]) >= 1, Soonest(m[p]) \in Span, DeadlineOf(t) = (c + Soonest(m[p])) % Modulus
  PROVE  /\ Good(c, NoProcess, m, Sleep(q, p, t, s), f)
         /\ \A on : Awake(on, NoProcess, l, q) => Awake(on, NoProcess, m, Sleep(q, p, t, s))
         /\ \A x \in Proc : x # p => Sleep(q, p, t, s).turns[x] = q.turns[x]
<1> DEFINE d == DeadlineOf(t)
           r == Sleep(q, p, t, s)
           ws == q.sleepers
           rs == r.sleepers
           S == {w \in Proc : After(q.time[w], d)}
           y == Soonest(m[p])
<1>1. /\ c \in Time /\ NoProcess \in Proc \union {NoProcess}
      /\ ListTyped(q) /\ ProgramTyped(g) /\ Listed(NoProcess, l, q)
      /\ \A x \in Proc : Fine(c, View(l, q, g, x))
  BY DEF Good
<1>2. Linked(q.tlink, q.tptr, ws) /\ InOrder(l, ws) /\ (q.tptr # NoProcess => q.tnext = q.time[q.tptr])
  BY <1>1 DEF Listed
<1>3. PICK n \in Nat : PlaceIs(n, ws, S) /\ Sleeps(q, r, n, p, d, s) /\ ListTyped(r)
  BY <1>1, <1>2, SleepIs
<1>4. /\ ws \in Seq(Proc) /\ Len(ws) \in Nat
      /\ \A i \in 1 .. Len(ws) : ws[i] \in Proc /\ Holds(ws, ws[i]) /\ Rank(l, ws, i) \in Span
      /\ Ranked(l, ws)
  BY PlacesAre
<1>5. n >= 1 /\ n <= Len(ws) + 1 /\ Place(ws, n) /\ \A i \in 1 .. n - 1 : i \in 1 .. Len(ws)
  BY <1>3 DEF PlaceIs, Place
<1> HIDE DEF r, ws, rs, S, d
<1>6. /\ Inserted(ws, n, p, rs) /\ InsertLinks(q.tlink, ws, n, p, r.tlink)
      /\ r.tptr = IF n = 1 THEN p ELSE q.tptr
      /\ r.tnext = IF n = 1 THEN d ELSE q.tnext
      /\ r.time[p] = d /\ r.state[p] = s /\ r.turns[p] = 0
      /\ \A x \in Proc : x # p =>
           r.time[x] = q.time[x] /\ r.state[x] = q.state[x] /\ r.turns[x] = q.turns[x]
  BY <1>3 DEF Sleeps, rs, ws
<1>7. \A x : Holds(rs, x) <=> (Holds(ws, x) \/ x = p)
  BY <1>4, <1>5, <1>6, InsertedHolds
<1>8. ~Holds(ws, p)
  BY DEF ws
<1>9. ASSUME NEW x \in Proc PROVE Fine(c, View(m, r, f, x))
  <2>1. CASE x = p
    <3>1. r.time[p] = DeadlineOf(t) /\ Holds(r.sleepers, p)
      BY <1>6, <1>7 DEF d, rs
    <3> QED BY <1>6, <2>1, <3>1
  <2>2. CASE x # p
    <3>1. Holds(rs, x) <=> Holds(ws, x)
      BY <1>7, <2>2
    <3>2. Holds(r.sleepers, x) = Holds(q.sleepers, x)
      BY <3>1 DEF rs, ws, Holds
    <3>3. ~Holds(ws, x) => r.tlink[x] = q.tlink[x]
      <4> SUFFICES ASSUME ~Holds(ws, x) PROVE r.tlink[x] = q.tlink[x]
        OBVIOUS
      <4>1. n > 1 => ws[n - 1] # x
        <5>1. n > 1 => n - 1 \in 1 .. Len(ws)
          BY <1>4, <1>5
        <5> QED BY <1>4, <5>1
      <4> QED BY <1>6, <2>2, <4>1 DEF InsertLinks
    <3>4. View(m, r, f, x) = View(l, q, g, x)
      BY <1>6, <2>2, <3>2, <3>3 DEF View, OthersSame, ws
    <3> QED BY <1>1, <3>4
  <2> QED BY <2>1, <2>2
<1>10. Linked(r.tlink, r.tptr, rs)
  <2> DEFINE to == r.tlink
             front == q.tptr
  <2>1. Linked(q.tlink, front, ws) /\ InsertLinks(q.tlink, ws, n, p, to)
    BY <1>2, <1>6
  <2> HIDE DEF to, front
  <2>2. Linked(to, IF n = 1 THEN p ELSE front, rs)
    BY <1>4, <1>5, <1>6, <1>8, <2>1, InsertedLinked
  <2> QED BY <1>6, <2>2 DEF to, front
<1>11. \A i \in 1 .. Len(ws) : ws[i] # p /\ m[ws[i]] = l[ws[i]] /\ (ws[i] \in S <=> Rank(l, ws, i) > y)
  <2> SUFFICES ASSUME NEW i \in 1 .. Len(ws)
               PROVE  ws[i] # p /\ m[ws[i]] = l[ws[i]] /\ (ws[i] \in S <=> Rank(l, ws, i) > y)
    OBVIOUS
  <2>1. ws[i] \in Proc /\ Holds(q.sleepers, ws[i]) /\ ws[i] # p
    BY <1>4, <1>8 DEF ws
  <2>2. After(q.time[ws[i]], d) <=> Rank(l, ws, i) > y
    <3> DEFINE x == ws[i]
    <3>1. x \in Proc /\ Holds(q.sleepers, x) /\ d = (c + y) % Modulus
      BY <2>1 DEF d
    <3> HIDE DEF x
    <3>2. y \in Span /\ y >= 1
      OBVIOUS
    <3> HIDE DEF y
    <3>3. After(q.time[x], (c + y) % Modulus) <=> Soonest(l[x]) > y
      BY <3>1, <3>2, BehindDeadline
    <3> QED BY <3>1, <3>3 DEF x, Rank
  <2> QED BY <2>1, <2>2 DEF OthersSame, S
<1>12. y \in Int
  BY ClockBounds DEF Span
<1>13. InOrder(m, rs)
  <2>1. \A i \in 1 .. n - 1 : Rank(l, ws, i) <= y
    <3> SUFFICES ASSUME NEW i \in 1 .. n - 1 PROVE Rank(l, ws, i) <= y
      OBVIOUS
    <3>1. i \in 1 .. Len(ws) /\ ws[i] \notin S
      BY <1>3, <1>5 DEF PlaceIs
    <3>2. Rank(l, ws, i) \in Int /\ ~(Rank(l, ws, i) > y)
      BY <1>4, <1>11, <3>1 DEF Ranked
    <3> HIDE DEF y
    <3> QED BY <1>12, <3>2
  <2>2. n <= Len(ws) => y <= Rank(l, ws, n)
    <3> SUFFICES ASSUME n <= Len(ws) PROVE y <= Rank(l, ws, n)
      OBVIOUS
    <3>1. n \in 1 .. Len(ws) /\ ws[n] \in S
      BY <1>3, <1>4, <1>5 DEF PlaceIs
    <3>2. Rank(l, ws, n) \in Int /\ Rank(l, ws, n) > y
      BY <1>4, <1>11, <3>1 DEF Ranked
    <3> HIDE DEF y
    <3> QED BY <1>12, <3>2
  <2>3. \A i \in 1 .. Len(ws) : m[ws[i]] = l[ws[i]]
    BY <1>11
  <2> QED BY <1>2, <1>4, <1>5, <1>6, <1>12, <2>1, <2>2, <2>3, InsertedInOrder
<1>14. r.tptr # NoProcess => r.tnext = r.time[r.tptr]
  <2> SUFFICES ASSUME r.tptr # NoProcess PROVE r.tnext = r.time[r.tptr]
    OBVIOUS
  <2>1. CASE n = 1
    BY <1>6, <2>1
  <2>2. CASE n # 1
    <3>1. r.tptr = q.tptr /\ r.tnext = q.tnext /\ q.tnext = q.time[q.tptr]
      BY <1>2, <1>6, <2>2
    <3>2. q.tptr \in Proc /\ q.tptr # p
      BY <1>8, <3>1, FrontIs DEF ws
    <3> QED BY <1>6, <3>1, <3>2
  <2> QED BY <2>1, <2>2
<1>15. Listed(NoProcess, m, r)
  BY <1>10, <1>13, <1>14 DEF Listed, rs
<1>16. Good(c, NoProcess, m, r, f)
  BY <1>1, <1>3, <1>9, <1>15 DEF Good
<1>17. ASSUME NEW on, Awake(on, NoProcess, l, q), on, NEW i \in 1 .. Len(rs)
       PROVE  Soonest(m[rs[i]]) > 0
  <2>1. \A j \in 1 .. Len(ws) : Soonest(l[ws[j]]) > 0
    BY <1>17 DEF Awake, ws
  <2>2. Holds(rs, rs[i])
    BY DEF Holds
  <2>3. CASE rs[i] = p
    BY <1>12, <2>3
  <2>4. CASE rs[i] # p
    <3>1. Holds(ws, rs[i])
      BY <1>7, <2>2, <2>4
    <3>2. PICK j \in 1 .. Len(ws) : ws[j] = rs[i]
      BY <3>1 DEF Holds
    <3> QED BY <1>11, <2>1, <3>2
  <2> QED BY <2>3, <2>4
<1>18. \A on : Awake(on, NoProcess, l, q) => Awake(on, NoProcess, m, r)
  BY <1>17 DEF Awake, rs
<1> QED BY <1>6, <1>16, <1>18 DEF r

\* A process that runs has asked for a.
AsksFor(v, w, a) ==
  /\ w.pc = v.pc /\ w.temp = v.temp /\ w.guards = v.guards
  /\ w.armed = v.armed /\ w.sender = v.sender /\ w.left = a /\ w.time = v.time
  /\ w.state = v.state /\ w.turns = v.turns /\ w.listed = v.listed

\* It runs on.
LEMMA AsksForFine ==
  ASSUME NEW c, NEW v, Fine(c, v), v.pc = "free", v.turns = 1, NEW a, Asks(c, a),
         NEW w, AsksFor(v, w, a)
  PROVE  Fine(c, w)
<1>1. Kinds(v) /\ FreeFine(v)
  BY DEF Fine
<1>2. ~v.listed
  BY <1>1 DEF FreeFine
<1>3. Kinds(w)
  BY <1>1 DEF AsksFor, Kinds
<1>4. FreeFine(w)
  BY <1>1, <1>2 DEF AsksFor, FreeFine
<1> QED BY <1>2, <1>3, <1>4 DEF AsksFor, Fine

\* The one time that is asked for.
LEMMA OneTime ==
  ASSUME NEW c \in Time, NEW d \in Distance
  PROVE  Asks(c, [u \in {(c + d) % Modulus} |-> Until(d)])
<1> DEFINE t == (c + d) % Modulus
           n == Until(d)
           a == [u \in {t} |-> n]
<1>1. t \in Time /\ n \in Span /\ t = (c + n - 1) % Modulus
  BY DistanceIs
<1> HIDE DEF t, n
<1>2. Asks(c, a)
  BY <1>1 DEF Asks
<1> QED BY <1>2 DEF t, n

\* tin
LEMMA TinKeeps ==
  ASSUME TimerInv, NEW p \in roles.sleepers, NEW d \in Distance, Tin(p, d) PROVE TimerInv' /\ SleepersStay
<1> DEFINE t == (clock + d) % Modulus
           a == [u \in {t} |-> Until(d)]
           m == [left EXCEPT ![p] = a]
           s == "enabling"
           v == View(left, List, Program, p)
<1>1. p \in Proc /\ Runs(p, "free")
  BY StateIs DEF Tin
<1>2. turns[p] = 1 /\ pc[p] = "free" /\ held = NoProcess
  BY <1>1, RunsNow
<1>3. /\ clock' = clock /\ held' = held /\ alarms' = alarms /\ roles' = roles /\ Program' = Program
      /\ EndInstruction(IF After(clock, t) THEN List ELSE Sleep(List, p, t, "enabling")) /\ Keep(m)
  BY DEF Tin, registers, program, Program
<1>4. /\ Good(clock, held, left, List, Program) /\ Awake(alarms, held, left, List)
      /\ roles \in Roles /\ alarms \in BOOLEAN
      /\ ListTyped(List) /\ ProgramTyped(Program) /\ clock \in Time
  BY DEF TimerInv, Good
<1>5. /\ Fine(clock, v) /\ v.pc = pc[p] /\ v.turns = turns[p] /\ v.left = left[p]
      /\ v.listed = Holds(sleepers, p)
      /\ v.link = IF Holds(sleepers, p) THEN NoProcess ELSE tlink[p]
  BY <1>1, ViewNow
<1>6. /\ v.pc = Program.pc[p] /\ v.temp = Program.temp[p] /\ v.guards = Program.guards[p]
       /\ v.armed = Program.armed[p] /\ v.sender = Program.sender[p] /\ v.turns = List.turns[p]
  BY ViewIs
<1>7. ~Holds(List.sleepers, p) /\ List.turns[p] = 1
  <2> HIDE DEF v
  <2> QED BY <1>2, <1>5 DEF Fine, FreeFine, List
<1>8. m[p] = a /\ \A x \in Proc : x # p => m[x] = left[x]
  <2>1. left = [x \in Proc |-> left[x]]
    BY DEF TimerInv, Tidy
  <2> HIDE DEF a
  <2> QED BY <1>1, <2>1
<1>9. Asks(clock, a) /\ t \in Time
  BY <1>4, OneTime, DistanceIs
<1>10. CASE After(clock, t)
  <2>1. EndInstruction(List)
    BY <1>3, <1>10
  <2> HIDE DEF a, t, m
  <2>2. Fine(clock, View(m, List, Program, p))
    <3> DEFINE w == View(m, List, Program, p)
    <3>1. AsksFor(v, w, a)
      <4>1. /\ v.pc = Program.pc[p] /\ v.temp = Program.temp[p] /\ v.guards = Program.guards[p]
            /\ v.armed = Program.armed[p] /\ v.sender = Program.sender[p]
            /\ v.time = List.time[p] /\ v.state = List.state[p] /\ v.turns = List.turns[p]
            /\ v.listed = Holds(List.sleepers, p)
        BY ViewIs
      <4>2. /\ w.pc = Program.pc[p] /\ w.temp = Program.temp[p] /\ w.guards = Program.guards[p]
            /\ w.armed = Program.armed[p] /\ w.sender = Program.sender[p] /\ w.left = m[p]
            /\ w.time = List.time[p] /\ w.state = List.state[p] /\ w.turns = List.turns[p]
            /\ w.listed = Holds(List.sleepers, p)
        BY ViewIs
      <4> HIDE DEF v, w
      <4> QED BY <1>8, <4>1, <4>2 DEF AsksFor
    <3> HIDE DEF v, w
    <3> QED BY <1>2, <1>5, <1>9, <3>1, AsksForFine DEF w
  <2>3. Touched(p, left, List, Program, m, List, Program)
    BY <1>7, <1>8 DEF Touched, Untouched
  <2>4. Good(clock, held, m, List, Program) /\ Awake(alarms, held, m, List)
    BY <1>1, <1>4, <2>2, <2>3, TouchedGood
  <2>5. TimerInv' /\ turns' = List.turns
    BY <1>3, <1>4, <2>1, <2>4, KeepDone
  <2> QED BY <2>5 DEF SleepersStay, List
<1>11. CASE ~After(clock, t)
  <2> DEFINE q == Sleep(List, p, t, s)
  <2>1. EndInstruction(q)
    BY <1>3, <1>11
  <2>2. s \in Mark
    BY DEF Mark
  <2>3. ASSUME NEW r, r.time[p] = DeadlineOf(t), r.state[p] = s, r.turns[p] = 0, Holds(r.sleepers, p)
        PROVE  /\ Fine(clock, View(m, r, Program, p))
               /\ Soonest(a) >= 1 /\ Soonest(a) \in Span
    <3> DEFINE w == View(m, r, Program, p)
    <3> HIDE DEF m
    <3>1. /\ w.pc = Program.pc[p] /\ w.temp = Program.temp[p] /\ w.guards = Program.guards[p]
          /\ w.armed = Program.armed[p] /\ w.sender = Program.sender[p] /\ w.left = m[p]
          /\ w.time = r.time[p] /\ w.state = r.state[p] /\ w.turns = r.turns[p]
          /\ w.listed = Holds(r.sleepers, p)
      BY ViewIs
    <3>2. w.listed = TRUE
      BY <2>3, <3>1 DEF Holds
    <3> HIDE DEF v, w
    <3>3. SleptUntil(v, w, t, d)
      BY <1>7, <1>8, <1>6, <2>3, <3>1, <3>2 DEF SleptUntil, DeadlineOf
    <3>4. w.left = a
      BY <1>8, <3>1
    <3> HIDE DEF a
    <3>5. Fine(clock, w) /\ Soonest(w.left) >= 1 /\ Soonest(w.left) \in Span
      BY <1>2, <1>4, <1>5, <1>11, <3>3, SleptUntilFine
    <3> QED BY <3>4, <3>5 DEF w
  <2>4. \E r : r.time[p] = DeadlineOf(t) /\ r.state[p] = s /\ r.turns[p] = 0 /\ Holds(r.sleepers, p)
    <3> DEFINE one == <<p>>
               r == [time |-> [x \in {p} |-> DeadlineOf(t)], state |-> [x \in {p} |-> s],
                     turns |-> [x \in {p} |-> 0], sleepers |-> one]
    <3>1. r.time[p] = DeadlineOf(t) /\ r.state[p] = s /\ r.turns[p] = 0 /\ r.sleepers = one
      OBVIOUS
    <3>2. Holds(one, p)
      BY DEF Holds
    <3> HIDE DEF r, one
    <3> QED BY <3>1, <3>2
  <2>5. Soonest(a) >= 1 /\ Soonest(a) \in Span
    BY <2>3, <2>4
  <2>6. DeadlineOf(t) = (clock + Soonest(a)) % Modulus
    <3> DEFINE y == Until(d)
    <3>1. y \in Int /\ t \in DOMAIN a /\ a[t] = y
      BY DistanceIs, <1>4
    <3>2. LeastOf(a, y) /\ \A u \in DOMAIN a : a[u] \in Int
      BY <3>1 DEF LeastOf
    <3> HIDE DEF a, y
    <3>3. Soonest(a) = a[t]
      BY <3>1, <3>2, SoonestOnly
    <3>4. (t + 1) % Modulus = (clock + a[t]) % Modulus
      BY <1>4, <1>9, <3>1, DeadlineIs
    <3> QED BY <3>3, <3>4 DEF DeadlineOf
  <2> HIDE DEF a, t, m, s
  <2>7. OthersSame(p, left, Program, m, Program)
    BY <1>8 DEF OthersSame
  <2>8. /\ Good(clock, NoProcess, m, q, Program)
        /\ \A on : Awake(on, NoProcess, left, List) => Awake(on, NoProcess, m, q)
        /\ \A x \in Proc : x # p => q.turns[x] = List.turns[x]
    <3>1. Good(clock, NoProcess, left, List, Program)
      BY <1>2, <1>4
    <3>2. Soonest(m[p]) >= 1 /\ Soonest(m[p]) \in Span /\ DeadlineOf(t) = (clock + Soonest(m[p])) % Modulus
      BY <1>8, <2>5, <2>6
    <3>3. \A r : r.time[p] = DeadlineOf(t) /\ r.state[p] = s /\ r.turns[p] = 0 /\ Holds(r.sleepers, p)
                   => Fine(clock, View(m, r, Program, p))
      BY <2>3
    <3> QED BY <1>1, <1>4, <1>7, <1>9, <2>2, <2>7, <3>1, <3>2, <3>3, SleepGood
  <2> HIDE DEF q
  <2>9. TimerInv' /\ turns' = q.turns
    BY <1>2, <1>3, <1>4, <2>1, <2>8, KeepDone
  <2> QED BY <1>2, <2>8, <2>9 DEF SleepersStay, List
<1> QED BY <1>10, <1>11

\* taltwt, with a time that is still to come.
LEMMA SleepTimedKeeps ==
  ASSUME TimerInv, NEW p \in Proc, Runs(p, "enabling"),
         pc' = [pc EXCEPT ![p] = "disabling"], temp' = [temp EXCEPT ![p] = NONE_SELECTED],
         UNCHANGED <<registers, guards, armed, sender, left>>, SleepTimed(p)
  PROVE  TimerInv' /\ SleepersStay
<1> DEFINE P == "disabling"
           s == "waiting"
           t == time[p]
           q == Sleep(List, p, t, s)
           v == View(left, List, Program, p)
<1>1. turns[p] = 1 /\ pc[p] = "enabling" /\ held = NoProcess
  BY RunsNow
<1>2. /\ UNCHANGED registers /\ guards' = guards /\ armed' = armed /\ sender' = sender /\ left' = left
      /\ clock' = clock /\ held' = held /\ alarms' = alarms /\ roles' = roles
  BY DEF registers
<1>3. tlink[p] = "set" /\ ~After(clock, t) /\ EndInstruction(q)
  BY DEF SleepTimed
<1>4. /\ Good(clock, held, left, List, Program) /\ Awake(alarms, held, left, List)
      /\ Tidy(left, List, Program) /\ roles \in Roles /\ alarms \in BOOLEAN /\ clock \in Time
  BY DEF TimerInv, Good
<1>5. s \in Mark /\ t \in Time
  BY SameWords DEF Mark
<1>6. pc'[p] = "disabling" /\ temp'[p] = NONE_SELECTED
  BY StateIs
<1>7. /\ Fine(clock, v) /\ v.pc = pc[p] /\ v.turns = turns[p]
      /\ v.temp = temp[p] /\ v.guards = guards[p] /\ v.armed = armed[p]
      /\ v.sender = sender[p] /\ v.left = left[p] /\ v.time = time[p] /\ v.state = state[p]
      /\ v.listed = Holds(sleepers, p)
      /\ v.link = IF Holds(sleepers, p) THEN NoProcess ELSE tlink[p]
  BY ViewNow
<1> HIDE DEF v
<1>8. ~Holds(List.sleepers, p) /\ List.turns[p] = 1 /\ v.link = "set"
  <2>1. ~Holds(sleepers, p)
    BY <1>1, <1>7 DEF Fine, EnablingFine
  <2> QED BY <1>1, <1>3, <1>7, <2>1 DEF List
<1>9. ASSUME NEW r, r.time[p] = DeadlineOf(t), r.state[p] = s, r.turns[p] = 0, Holds(r.sleepers, p)
      PROVE  /\ Fine(clock, View(left', r, Program', p))
             /\ Soonest(left[p]) >= 1 /\ Soonest(left[p]) \in Span
             /\ DeadlineOf(t) = (clock + Soonest(left[p])) % Modulus
  <2> DEFINE w == View(left', r, Program', p)
  <2>1. /\ w.pc = Program'.pc[p] /\ w.temp = Program'.temp[p] /\ w.guards = Program'.guards[p]
        /\ w.armed = Program'.armed[p] /\ w.sender = Program'.sender[p] /\ w.left = left'[p]
        /\ w.time = r.time[p] /\ w.state = r.state[p] /\ w.turns = r.turns[p]
        /\ w.listed = Holds(r.sleepers, p)
        /\ w.link = IF Holds(r.sleepers, p) THEN NoProcess ELSE r.tlink[p]
    BY ViewIs
  <2>2. /\ Program'.pc = pc' /\ Program'.temp = temp' /\ Program'.guards = guards'
        /\ Program'.armed = armed' /\ Program'.sender = sender'
    BY DEF Program
  <2>3. w.listed = TRUE
    BY <1>9, <2>1 DEF Holds
  <2> HIDE DEF w
  <2>4. w.time = (v.time + 1) % Modulus /\ w.turns = v.turns - 1 /\ w.link = NoProcess
    BY <1>1, <1>7, <1>9, <2>1 DEF DeadlineOf
  <2>5. SleptTimed(v, w, v.time)
    <3>1. w.pc = "disabling" /\ w.temp = NONE_SELECTED /\ w.state = "waiting"
      BY <1>6, <1>9, <2>1, <2>2
    <3>2. /\ w.guards = v.guards /\ w.armed = v.armed /\ w.sender = v.sender
          /\ w.left = v.left
      BY <1>2, <1>7, <2>1, <2>2
    <3> QED BY <2>3, <2>4, <3>1, <3>2 DEF SleptTimed
  <2>6. Fine(clock, w) /\ Soonest(w.left) >= 1 /\ Soonest(w.left) \in Span
    BY <1>1, <1>3, <1>4, <1>7, <1>8, <2>5, SleptTimedFine
  <2>7. w.time = (clock + Soonest(w.left)) % Modulus
    BY <2>3, <2>6 DEF Fine, Deadline
  <2> QED BY <1>2, <1>9, <2>1, <2>6, <2>7 DEF w
<1>10. \E r : r.time[p] = DeadlineOf(t) /\ r.state[p] = s /\ r.turns[p] = 0 /\ Holds(r.sleepers, p)
  <2> DEFINE one == <<p>>
             r == [time |-> [x \in {p} |-> DeadlineOf(t)], state |-> [x \in {p} |-> s],
                   turns |-> [x \in {p} |-> 0], sleepers |-> one]
  <2>1. r.time[p] = DeadlineOf(t) /\ r.state[p] = s /\ r.turns[p] = 0 /\ r.sleepers = one
    OBVIOUS
  <2>2. Holds(one, p)
    BY DEF Holds
  <2> HIDE DEF r, one
  <2> QED BY <2>1, <2>2
<1>11. ProgramTyped(Program') /\ OthersSame(p, left, Program, left', Program')
  <2>1. /\ guards[p] \in SUBSET Time /\ armed[p] \in BOOLEAN /\ sender[p] \in BOOLEAN
        /\ NONE_SELECTED \in Time \union {NONE_SELECTED, CHANNEL}
    BY ProgramWords
  <2>2. P \in {"free", "enabling", "disabling"}
    OBVIOUS
  <2>3. Writes(p, P, NONE_SELECTED, guards[p], armed[p], sender[p])
    BY <1>2 DEF Writes
  <2> HIDE DEF P
  <2>4. /\ ProgramTyped(Program')
        /\ \A x \in Proc : x # p =>
             /\ Program'.pc[x] = pc[x] /\ Program'.temp[x] = temp[x]
             /\ Program'.guards[x] = guards[x]
             /\ Program'.armed[x] = armed[x] /\ Program'.sender[x] = sender[x]
    BY <2>1, <2>2, <2>3, ProgramStays
  <2> QED BY <1>2, <2>4 DEF OthersSame, Program
<1> HIDE DEF s, t
<1>12. /\ Good(clock, NoProcess, left', q, Program')
       /\ \A on : Awake(on, NoProcess, left, List) => Awake(on, NoProcess, left', q)
       /\ \A x \in Proc : x # p => q.turns[x] = List.turns[x]
  <2>1. Good(clock, NoProcess, left, List, Program)
    BY <1>1, <1>4
  <2>2. /\ Soonest(left'[p]) >= 1 /\ Soonest(left'[p]) \in Span
        /\ DeadlineOf(t) = (clock + Soonest(left'[p])) % Modulus
    BY <1>2, <1>9, <1>10
  <2>3. \A r : r.time[p] = DeadlineOf(t) /\ r.state[p] = s /\ r.turns[p] = 0 /\ Holds(r.sleepers, p)
                 => Fine(clock, View(left', r, Program', p))
    BY <1>9
  <2> QED BY <1>5, <1>8, <1>11, <2>1, <2>2, <2>3, SleepGood
<1> HIDE DEF q
<1>13. Tidy(left', q, Program')
  <2> SUFFICES ASSUME NEW x \in Proc, Program'.pc[x] = "free", q.turns[x] > 0
               PROVE  left'[x] = Nothing
    BY <1>2, <1>4 DEF Tidy
  <2>1. x # p
    BY <1>6 DEF Program
  <2> QED BY <1>4, <1>11, <1>12, <2>1 DEF Tidy, OthersSame
<1>14. TimerInv' /\ turns' = q.turns
  BY <1>1, <1>2, <1>3, <1>4, <1>12, <1>13, Done
<1> QED BY <1>1, <1>12, <1>14 DEF SleepersStay, List

\* taltwt
LEMMA WaitKeeps ==
  ASSUME TimerInv, NEW p \in roles.choosers, WaitTimed(p) PROVE TimerInv' /\ SleepersStay
<1>1. p \in Proc
  BY StateIs
<1>2. CASE FoundReady(p)
  BY <1>1, <1>2, FoundKeeps DEF WaitTimed
<1>3. CASE SleepUntimed(p)
  BY <1>1, <1>3, SleptKeeps DEF WaitTimed
<1>4. CASE SleepTimed(p)
  BY <1>1, <1>4, SleepTimedKeeps DEF WaitTimed
<1> QED BY <1>2, <1>3, <1>4 DEF WaitTimed

-----------------------------------------------------------------------------
(* Leaving the list *)

\* r is q without p.
Detaches(q, r, p) ==
  /\ ~Holds(r.sleepers, p)
  /\ r.tlink[p] = IF Holds(q.sleepers, p) THEN "notSet" ELSE q.tlink[p]
  /\ r.time = q.time /\ r.state = q.state /\ r.turns = q.turns
  /\ \A x \in Proc : x # p =>
       /\ Holds(r.sleepers, x) <=> Holds(q.sleepers, x)
       /\ ~Holds(q.sleepers, x) => r.tlink[x] = q.tlink[x]

\* What disableAltTimer makes of a list.
LEMMA DetachedIs ==
  ASSUME NEW l, NEW q, ListTyped(q), Listed(NoProcess, l, q), NEW p \in Proc
  PROVE  /\ ListTyped(Detached(q, p)) /\ Listed(NoProcess, l, Detached(q, p))
         /\ Detaches(q, Detached(q, p), p)
<1> DEFINE ws   == q.sleepers
           walk == Walk(q)
           S    == {p}
           n    == FirstPlace(walk, S)
           next == q.tlink[p]
           tp   == IF n = 1 THEN next ELSE q.tptr
           tn   == IF n = 1 /\ next # NoProcess THEN q.time[next] ELSE q.tnext
           tl   == IF n = 1 THEN [q.tlink EXCEPT ![p] = "notSet"]
                   ELSE [q.tlink EXCEPT ![p] = "notSet", ![walk[n - 1]] = next]
           sl   == SubSeq(ws, 1, n - 1) \o SubSeq(ws, n + 1, Len(ws))
           r    == Detached(q, p)
<1>1. Linked(q.tlink, q.tptr, ws) /\ InOrder(l, ws) /\ (q.tptr # NoProcess => q.tnext = q.time[q.tptr])
  BY DEF Listed
<1>2. /\ PlaceIs(n, ws, S) /\ ws \in Seq(Proc)
      /\ walk[n] = IF n <= Len(ws) THEN ws[n] ELSE NoProcess
      /\ \A m \in 1 .. n - 1 : walk[m] = ws[m]
  <2>1. S \subseteq Proc
    OBVIOUS
  <2> HIDE DEF S
  <2> QED BY <1>1, <2>1, PlaceInList
<1>3. /\ q.tptr \in Proc \union {NoProcess} /\ q.tnext \in Time
      /\ q.time \in [Proc -> Time] /\ q.tlink \in [Proc -> Proc \union {NoProcess, "notSet", "set"}]
      /\ q.state \in [Proc -> Mark] /\ q.turns \in [Proc -> 0 .. 1]
  BY ListIs
<1>4. r = IF walk[n] = NoProcess THEN q
          ELSE [q EXCEPT !.tptr = tp, !.tnext = tn, !.tlink = tl, !.sleepers = sl]
  BY DEF Detached
<1>5. n \in Nat /\ n >= 1 /\ n <= Len(ws) + 1 /\ Len(ws) \in Nat
      /\ \A m \in 1 .. n - 1 : m \in 1 .. Len(ws) /\ ws[m] # p
  BY <1>2, LenProperties DEF PlaceIs
<1>6. \A i \in 1 .. Len(ws) : ws[i] \in Proc
  BY <1>2, ElementOfSeq
<1>7. n <= Len(ws) => ws[n] = p
  BY <1>2 DEF PlaceIs
<1> HIDE DEF S, walk, n, r
<1>8. CASE n > Len(ws)
  <2>1. r = q
    BY <1>2, <1>4, <1>5, <1>8
  <2>2. ~Holds(ws, p)
    <3>1. ASSUME NEW i \in 1 .. Len(ws), ws[i] = p PROVE FALSE
      <4>1. i \in 1 .. n - 1
        BY <1>5, <1>8
      <4> QED BY <1>5, <3>1, <4>1
    <3> QED BY <3>1 DEF Holds
  <2>3. Detaches(q, q, p)
    BY <2>2 DEF Detaches
  <2> QED BY <2>1, <2>3 DEF r
<1>9. CASE n <= Len(ws)
  <2>1. n \in 1 .. Len(ws) /\ ws[n] = p /\ walk[n] = p /\ Holds(ws, p)
    BY <1>2, <1>5, <1>7, <1>9 DEF Holds
  <2>2. r = [q EXCEPT !.tptr = tp, !.tnext = tn, !.tlink = tl, !.sleepers = sl]
    <3>1. walk[n] # NoProcess
      BY <2>1, LinkMarks
    <3> HIDE DEF tp, tn, tl, sl
    <3> QED BY <1>4, <3>1
  <2>3. next = (IF n = Len(ws) THEN NoProcess ELSE ws[n + 1]) /\ next \in Proc \union {NoProcess}
    <3>1. next = IF n = Len(ws) THEN NoProcess ELSE ws[n + 1]
      BY <1>1, <2>1 DEF Linked
    <3>2. n # Len(ws) => n + 1 \in 1 .. Len(ws)
      BY <1>5, <1>9
    <3> QED BY <1>6, <3>1, <3>2
  <2> HIDE DEF next
  <2>4. tl \in [Proc -> Proc \union {NoProcess, "notSet", "set"}]
        /\ tl[p] = "notSet"
        /\ \A x \in Proc : x # p => tl[x] = IF n > 1 /\ x = ws[n - 1] THEN next ELSE q.tlink[x]
    <3>1. CASE n = 1
      <4>1. tl = [q.tlink EXCEPT ![p] = "notSet"]
        BY <3>1
      <4> HIDE DEF tl
      <4> QED BY <1>3, <3>1, <4>1
    <3>2. CASE n # 1
      <4>1. n > 1 /\ n - 1 \in 1 .. n - 1 /\ n - 1 \in 1 .. Len(ws)
        BY <1>5, <3>2
      <4> DEFINE e == walk[n - 1]
      <4>2. tl = [q.tlink EXCEPT ![p] = "notSet", ![e] = next]
        BY <3>2
      <4>3. e = ws[n - 1] /\ e \in Proc /\ e # p
        BY <1>2, <1>5, <1>6, <4>1
      <4> HIDE DEF e, tl
      <4>4. tl \in [Proc -> Proc \union {NoProcess, "notSet", "set"}]
        BY <1>3, <2>3, <4>2, <4>3
      <4>5. \A x \in Proc : tl[x] = IF x = e THEN next ELSE IF x = p THEN "notSet" ELSE q.tlink[x]
        BY <1>3, <4>2, <4>3
      <4> QED BY <4>1, <4>3, <4>4, <4>5
    <3> QED BY <3>1, <3>2
  <2>5. sl \in Seq(Proc) /\ Without(ws, n, sl)
    <3>1. /\ sl \in Seq(Proc) /\ Len(sl) = Len(ws) - 1
          /\ \A i \in 1 .. Len(ws) - 1 : sl[i] = IF i < n THEN ws[i] ELSE ws[i + 1]
      <4>1. ws \in Seq(Proc) /\ n \in Nat /\ n >= 1 /\ n <= Len(ws)
        BY <1>2, <1>5, <1>9
      <4> HIDE DEF ws
      <4> QED BY <4>1, DeletedIs
    <3> HIDE DEF sl
    <3> QED BY <3>1 DEF Without
  <2>6. tp \in Proc \union {NoProcess} /\ tn \in Time
    BY <1>3, <2>3
  <2>7. (n = 1 => tp = next) /\ (n # 1 => tp = q.tptr /\ tn = q.tnext)
        /\ (n = 1 /\ next # NoProcess => tn = q.time[next])
    OBVIOUS
  <2> HIDE DEF tp, tn, tl, sl
  <2>8. r.tptr = tp /\ r.tnext = tn /\ r.tlink = tl /\ r.sleepers = sl
    BY <2>2 DEF ListTyped, Lists
  <2>9. r.time = q.time /\ r.state = q.state /\ r.turns = q.turns
    BY <2>2 DEF ListTyped, Lists
  <2>10. r \in Lists
    <3>1. q \in Lists
      BY DEF ListTyped
    <3> QED BY <2>2, <2>4, <2>5, <2>6, <3>1 DEF Lists
  <2>11. \A i, j \in 1 .. Len(ws) : ws[i] = ws[j] => i = j
    BY <1>1 DEF Linked
  <2>12. \A x : Holds(sl, x) <=> Holds(ws, x) /\ x # p
    BY <1>2, <2>1, <2>5, <2>11, WithoutHolds
  <2>13. WithoutLinks(q.tlink, ws, n, tl)
    BY <2>1, <2>4 DEF WithoutLinks, next
  <2>14. Linked(tl, tp, sl)
    <3> DEFINE link == q.tlink
               front == q.tptr
    <3>1. Linked(link, front, ws) /\ WithoutLinks(link, ws, n, tl)
      BY <1>1, <2>13
    <3> HIDE DEF link, front
    <3>2. Linked(tl, IF n = 1 THEN link[ws[n]] ELSE front, sl)
      BY <1>2, <2>1, <2>5, <3>1, WithoutLinked
    <3>3. (IF n = 1 THEN link[ws[n]] ELSE front) = tp
      BY <2>1, <2>7 DEF link, front, next
    <3> QED BY <3>2, <3>3
  <2>15. InOrder(l, sl)
    BY <1>1, <1>2, <2>1, <2>5, WithoutInOrder
  <2>16. tp # NoProcess => tn = q.time[tp]
    BY <1>1, <2>7
  <2>17. Listed(NoProcess, l, r)
    BY <2>8, <2>9, <2>14, <2>15, <2>16 DEF Listed
  <2>18. ASSUME NEW x \in Proc, x # p
         PROVE  /\ Holds(r.sleepers, x) <=> Holds(q.sleepers, x)
                /\ ~Holds(q.sleepers, x) => r.tlink[x] = q.tlink[x]
    <3>1. Holds(sl, x) <=> Holds(ws, x)
      BY <2>12, <2>18
    <3>2. ~Holds(ws, x) => tl[x] = q.tlink[x]
      <4>1. n > 1 => n - 1 \in 1 .. Len(ws)
        BY <1>5
      <4>2. ~Holds(ws, x) => ~(n > 1 /\ x = ws[n - 1])
        BY <4>1 DEF Holds
      <4> QED BY <2>4, <2>18, <4>2
    <3> QED BY <2>8, <3>1, <3>2
  <2>19. ~Holds(r.sleepers, p) /\ r.tlink[p] = IF Holds(q.sleepers, p) THEN "notSet" ELSE q.tlink[p]
    BY <2>1, <2>4, <2>8, <2>12
  <2>20. Detaches(q, r, p)
    BY <2>9, <2>18, <2>19 DEF Detaches
  <2> QED BY <2>10, <2>17, <2>20 DEF ListTyped, r
<1> QED BY <1>5, <1>8, <1>9

\* The list without an entry.
LEMMA DetachedGood ==
  ASSUME NEW c, NEW l, NEW q, NEW g, Good(c, NoProcess, l, q, g), NEW p \in Proc,
         NEW f, ProgramTyped(f), OthersSame(p, l, g, l, f),
         \A r : Detaches(q, r, p) => Fine(c, View(l, r, f, p))
  PROVE  /\ Good(c, NoProcess, l, Detached(q, p), f)
         /\ \A on : Awake(on, NoProcess, l, q) => Awake(on, NoProcess, l, Detached(q, p))
<1> DEFINE r == Detached(q, p)
<1>1. /\ c \in Time /\ NoProcess \in Proc \union {NoProcess}
      /\ ListTyped(q) /\ Listed(NoProcess, l, q) /\ \A x \in Proc : Fine(c, View(l, q, g, x))
  BY DEF Good
<1>2. ListTyped(r) /\ Listed(NoProcess, l, r) /\ Detaches(q, r, p)
  BY <1>1, DetachedIs
<1> HIDE DEF r
<1>3. ASSUME NEW x \in Proc PROVE Fine(c, View(l, r, f, x))
  <2>1. CASE x = p
    BY <1>2, <2>1
  <2>2. CASE x # p
    <3>1. /\ Holds(r.sleepers, x) <=> Holds(q.sleepers, x)
          /\ ~Holds(q.sleepers, x) => r.tlink[x] = q.tlink[x]
          /\ r.time = q.time /\ r.state = q.state /\ r.turns = q.turns
      BY <1>2, <2>2 DEF Detaches
    <3>2. Holds(r.sleepers, x) = Holds(q.sleepers, x)
      BY <3>1 DEF Holds
    <3>3. View(l, r, f, x) = View(l, q, g, x)
      BY <2>2, <3>1, <3>2 DEF View, OthersSame
    <3> QED BY <1>1, <3>3
  <2> QED BY <2>1, <2>2
<1>4. Good(c, NoProcess, l, r, f)
  BY <1>1, <1>2, <1>3 DEF Good
<1>5. ASSUME NEW on, Awake(on, NoProcess, l, q), on, NEW i \in 1 .. Len(r.sleepers)
      PROVE  Soonest(l[r.sleepers[i]]) > 0
  <2>1. \A j \in 1 .. Len(q.sleepers) : Soonest(l[q.sleepers[j]]) > 0
    BY <1>5 DEF Awake
  <2>2. r.sleepers[i] \in Proc /\ Holds(r.sleepers, r.sleepers[i])
    BY <1>4, PlacesAre
  <2>3. Holds(q.sleepers, r.sleepers[i])
    BY <1>2, <2>2 DEF Detaches
  <2> QED BY <2>1, <2>3 DEF Holds
<1>6. \A on : Awake(on, NoProcess, l, q) => Awake(on, NoProcess, l, r)
  BY <1>5 DEF Awake
<1> QED BY <1>4, <1>6 DEF r

\* dist
LEMMA DisableTimerKeeps ==
  ASSUME TimerInv, NEW p \in roles.choosers, NEW t \in guards[p], DisableTimer(p, t)
  PROVE  TimerInv' /\ SleepersStay
<1> DEFINE G == guards[p] \ {t}
           T == IF tlink[p] = "set" /\ After(time[p], t) /\ temp[p] = NONE_SELECTED THEN t ELSE temp[p]
           q == Detached(List, p)
           v == View(left, List, Program, p)
<1>1. p \in Proc /\ Runs(p, "disabling")
  BY StateIs DEF DisableTimer
<1>2. turns[p] = 1 /\ pc[p] = "disabling" /\ held = NoProcess
  BY <1>1, RunsNow
<1>3. /\ guards' = [guards EXCEPT ![p] = G] /\ UNCHANGED registers /\ pc' = pc
      /\ armed' = armed /\ sender' = sender /\ left' = left /\ EndInstruction(q)
      /\ IF tlink[p] = "set" /\ After(time[p], t) THEN Selected(p, t) ELSE UNCHANGED temp
      /\ clock' = clock /\ held' = held /\ alarms' = alarms /\ roles' = roles
  <2>1. guards' = [guards EXCEPT ![p] = guards[p] \ {t}]
    BY DEF DisableTimer
  <2> QED BY <2>1 DEF DisableTimer, registers
<1>4. temp' = [temp EXCEPT ![p] = T]
  <2>1. CASE tlink[p] = "set" /\ After(time[p], t)
    <3>1. temp' = [temp EXCEPT ![p] = IF temp[p] = NONE_SELECTED THEN t ELSE temp[p]]
      BY <1>3, <2>1 DEF Selected
    <3> QED BY <2>1, <3>1
  <2>2. CASE ~(tlink[p] = "set" /\ After(time[p], t))
    <3>1. T = temp[p] /\ temp' = temp
      BY <1>3, <2>2
    <3> HIDE DEF T
    <3> QED BY <3>1, StateIs
  <2> QED BY <2>1, <2>2
<1>5. /\ Good(clock, held, left, List, Program) /\ Awake(alarms, held, left, List)
      /\ Tidy(left, List, Program) /\ roles \in Roles /\ alarms \in BOOLEAN /\ clock \in Time
  BY DEF TimerInv, Good
<1>6. /\ Fine(clock, v) /\ v.pc = pc[p] /\ v.turns = turns[p]
      /\ v.temp = temp[p] /\ v.guards = guards[p] /\ v.armed = armed[p]
      /\ v.sender = sender[p] /\ v.left = left[p] /\ v.time = time[p] /\ v.state = state[p]
      /\ v.listed = Holds(sleepers, p)
      /\ v.link = IF Holds(sleepers, p) THEN NoProcess ELSE tlink[p]
  BY <1>1, ViewNow
<1> HIDE DEF v, q, T, G
<1>7. /\ pc[p] \in {"free", "enabling", "disabling"} /\ T \in Time \union {NONE_SELECTED, CHANNEL}
      /\ G \in SUBSET Time /\ armed[p] \in BOOLEAN /\ sender[p] \in BOOLEAN
  <2>1. guards[p] \subseteq Time
    BY <1>1, StateIs
  <2> QED BY <1>1, <2>1, ProgramWords DEF T, G
<1>8. temp'[p] = T /\ guards'[p] = G
  BY <1>1, <1>3, <1>4, StateIs
<1>9. ProgramTyped(Program') /\ OthersSame(p, left, Program, left, Program')
  <2>1. Writes(p, pc[p], T, G, armed[p], sender[p])
    BY <1>3, <1>4 DEF Writes
  <2>2. /\ ProgramTyped(Program')
        /\ \A x \in Proc : x # p =>
             /\ Program'.pc[x] = pc[x] /\ Program'.temp[x] = temp[x]
             /\ Program'.guards[x] = guards[x]
             /\ Program'.armed[x] = armed[x] /\ Program'.sender[x] = sender[x]
    BY <1>1, <1>7, <2>1, ProgramStays
  <2> QED BY <2>2 DEF OthersSame, Program
<1>10. Holds(sleepers, p) => tlink[p] # "set"
  <2> SUFFICES ASSUME Holds(sleepers, p) PROVE tlink[p] # "set"
    OBVIOUS
  <2>1. Linked(tlink, tptr, sleepers)
    BY <1>2, <1>5 DEF Good, Listed, List
  <2>2. \A i \in 1 .. Len(sleepers) : sleepers[i] \in Proc
    BY StateIs, ElementOfSeq
  <2>3. Len(sleepers) \in Nat
    BY StateIs, LenProperties
  <2>4. PICK i \in 1 .. Len(sleepers) : sleepers[i] = p
    BY DEF Holds
  <2>5. tlink[p] = IF i = Len(sleepers) THEN NoProcess ELSE sleepers[i + 1]
    BY <2>1, <2>4 DEF Linked
  <2>6. i # Len(sleepers) => i + 1 \in 1 .. Len(sleepers)
    BY <2>3
  <2> QED BY <2>2, <2>5, <2>6, LinkMarks
<1>11. ASSUME NEW r, Detaches(List, r, p) PROVE Fine(clock, View(left, r, Program', p))
  <2> DEFINE w == View(left, r, Program', p)
  <2>1. /\ w.pc = Program'.pc[p] /\ w.temp = Program'.temp[p] /\ w.guards = Program'.guards[p]
        /\ w.armed = Program'.armed[p] /\ w.sender = Program'.sender[p] /\ w.left = left[p]
        /\ w.time = r.time[p] /\ w.state = r.state[p] /\ w.turns = r.turns[p]
        /\ w.listed = Holds(r.sleepers, p)
        /\ w.link = IF Holds(r.sleepers, p) THEN NoProcess ELSE r.tlink[p]
    BY ViewIs
  <2>2. /\ Program'.pc = pc' /\ Program'.temp = temp' /\ Program'.guards = guards'
        /\ Program'.armed = armed' /\ Program'.sender = sender'
    BY DEF Program
  <2> HIDE DEF w
  <2>3. /\ ~Holds(r.sleepers, p) /\ r.time = time /\ r.state = state /\ r.turns = turns
        /\ r.tlink[p] = IF Holds(sleepers, p) THEN "notSet" ELSE tlink[p]
    BY <1>11 DEF Detaches, List
  <2>4. w.listed = FALSE
    BY <2>1, <2>3 DEF Holds
  <2>5. w.link = IF v.listed THEN "notSet" ELSE v.link
    BY <1>6, <2>1, <2>3
  <2>6. w.temp = IF v.link = "set" /\ After(v.time, t) /\ v.temp = NONE_SELECTED THEN t ELSE v.temp
    <3>1. v.link = "set" <=> tlink[p] = "set"
      BY <1>6, <1>10, LinkMarks
    <3>2. w.temp = T
      BY <1>8, <2>1, <2>2
    <3> QED BY <1>6, <3>1, <3>2 DEF T
  <2>7. w.guards = v.guards \ {t}
    BY <1>6, <1>8, <2>1, <2>2 DEF G
  <2>8. /\ w.pc = v.pc /\ w.armed = v.armed /\ w.sender = v.sender /\ w.left = v.left
        /\ w.time = v.time /\ w.state = v.state /\ w.turns = v.turns
    BY <1>3, <1>6, <2>1, <2>2, <2>3
  <2>9. Disabled(v, w, t)
    BY <2>4, <2>5, <2>6, <2>7, <2>8 DEF Disabled
  <2>10. t \in v.guards /\ (v.listed => v.link = NoProcess)
    BY <1>6
  <2> QED BY <1>2, <1>5, <1>6, <2>9, <2>10, DisabledFine DEF w
<1>12. /\ Good(clock, NoProcess, left, q, Program')
       /\ \A on : Awake(on, NoProcess, left, List) => Awake(on, NoProcess, left, q)
  BY <1>1, <1>2, <1>5, <1>9, <1>11, DetachedGood DEF q
<1>13. q.turns = turns
  <2>1. ListTyped(List) /\ Listed(NoProcess, left, List)
    BY <1>2, <1>5 DEF Good
  <2>2. Detaches(List, q, p)
    BY <1>1, <2>1, DetachedIs DEF q
  <2> QED BY <2>2 DEF Detaches, List
<1>14. Tidy(left', q, Program')
  <2> SUFFICES ASSUME NEW x \in Proc, Program'.pc[x] = "free", q.turns[x] > 0
               PROVE  left[x] = Nothing
    BY <1>3, <1>5 DEF Tidy
  <2>1. Program.pc[x] = "free" /\ List.turns[x] > 0
    BY <1>3, <1>13 DEF Program, List
  <2> QED BY <1>5, <2>1 DEF Tidy
<1>15. TimerInv' /\ turns' = q.turns
  BY <1>2, <1>3, <1>5, <1>12, <1>14, Done
<1> QED BY <1>13, <1>15 DEF SleepersStay

-----------------------------------------------------------------------------
(* Waking *)

\* A release wakes only entries that are due.
LEMMA WokenDue ==
  ASSUME NEW c, NEW h, NEW l, NEW q, NEW g, Good(c, h, l, q, g),
         NEW ticks \in Nat, NEW m, AllLater(l, m, ticks), ReleaseTimers(q, c, ticks),
         NEW x \in Proc, q.turns[x] = 0, turns'[x] > 0
  PROVE  Holds(q.sleepers, x) /\ Soonest(m[x]) <= 0
<1> DEFINE r == Released(q, c, ticks)
           ws == q.sleepers
<1>1. /\ Good((c + ticks) % Modulus, h, m, q, g)
      /\ \A p \in Proc : Holds(ws, p) => (Due(c, ticks, q.time[p]) <=> Soonest(m[p]) <= 0)
  BY PassedGood
<1>2. ListTyped(q) /\ c \in Int /\ Listed(h, l, q)
  BY ClockBounds DEF Good
<1>3. alarms' /\ q.tptr # NoProcess /\ Due(c, ticks, q.tnext)
  <2>1. ASSUME ~(alarms' /\ q.tptr # NoProcess /\ Due(c, ticks, q.tnext)) PROVE FALSE
    <3>1. turns' = q.turns
      BY <2>1 DEF ReleaseTimers, SetList
    <3> QED BY <3>1
  <2> QED BY <2>1
<1>4. turns' = r.turns
  BY <1>3 DEF ReleaseTimers, SetList
<1>5. h = NoProcess
  BY <1>3, HeldIs
<1>6. Linked(q.tlink, q.tptr, ws)
  BY <1>2, <1>5 DEF Listed
<1>7. \A p \in Proc : Holds(ws, p) /\ q.state[p] # "ready" => q.turns[p] = 0
  <2> SUFFICES ASSUME NEW p \in Proc, Holds(ws, p), q.state[p] # "ready" PROVE q.turns[p] = 0
    OBVIOUS
  <2> DEFINE v == View(l, q, g, p)
  <2>1. Fine(c, v) /\ v.listed /\ v.state # "ready" /\ v.turns = q.turns[p]
    BY ViewIs DEF Good
  <2> HIDE DEF v
  <2> QED BY <2>1, SleeperWaits
<1>8. PICK n \in Nat :
        /\ PlaceIs(n, ws, {w \in Proc : ~Due(c, ticks, q.time[w])})
        /\ Releases(q, r, n, (c + ticks) % Modulus)
  BY <1>2, <1>6, <1>7, ReleasedIs
<1> HIDE DEF r
<1>9. PICK i \in 1 .. n - 1 : ws[i] = x
  <2>1. r.turns[x] = q.turns[x] + IF (\E i \in 1 .. n - 1 : ws[i] = x) /\ q.state[x] # "ready" THEN 1 ELSE 0
    BY <1>8 DEF Releases
  <2> QED BY <1>4, <2>1
<1>10. i \in 1 .. Len(ws) /\ ws[i] \notin {w \in Proc : ~Due(c, ticks, q.time[w])}
  BY <1>8, <1>9 DEF PlaceIs
<1>11. Holds(ws, x) /\ Due(c, ticks, q.time[x])
  BY <1>9, <1>10 DEF Holds
<1> QED BY <1>1, <1>11

\* Nobody goes on from tin too early.
NoneEarly ==
  \A p \in Proc : pc[p] = "free" /\ turns[p] = 0 /\ turns'[p] > 0 =>
    \A t \in Asked(p) : left[p][t] <= (clock' - clock) % Modulus

\* Nobody goes on at all.
LEMMA StayNotEarly == ASSUME SleepersStay PROVE NoneEarly
<1> SUFFICES ASSUME NEW p \in Proc, pc[p] = "free", turns[p] = 0, turns'[p] > 0 PROVE FALSE
  BY DEF NoneEarly
<1>1. turns'[p] = 0
  BY DEF SleepersStay
<1> QED BY <1>1

\* A process that sleeps in tin has asked for one time.
LEMMA OneAsked ==
  ASSUME TimerInv, NEW p \in Proc, pc[p] = "free", turns[p] = 0, NEW t \in Asked(p)
  PROVE  Soonest(left[p]) = left[p][t] /\ left[p][t] \in Int /\ left[p][t] \in Span
<1> DEFINE v == View(left, List, Program, p)
           a == left[p]
<1>1. Fine(clock, v) /\ v.pc = "free" /\ v.turns = 0 /\ v.left = a
  BY ViewNow
<1> HIDE DEF v, a
<1>2. Asks(clock, a) /\ \E u \in DOMAIN a : DOMAIN a = {u}
  BY <1>1 DEF Fine, FreeFine
<1>3. DOMAIN a = {t}
  BY <1>2 DEF Asked, a
<1>4. a[t] \in Int /\ a[t] \in Span
  BY <1>2, <1>3, LeftIs
<1>5. LeastOf(a, a[t]) /\ \A u \in DOMAIN a : a[u] \in Int
  BY <1>3, <1>4 DEF LeastOf
<1>6. Soonest(a) = a[t]
  BY <1>4, <1>5, SoonestOnly
<1> QED BY <1>4, <1>6 DEF a

\* The timers that are released with the clock as it is are due.
LEMMA WokenNow ==
  ASSUME TimerInv, NEW q, EndInstruction(q), clock' = clock, NEW h, Good(clock, h, left, q, Program),
         q.turns = turns
  PROVE  NoneEarly
<1> SUFFICES ASSUME NEW p \in Proc, pc[p] = "free", turns[p] = 0, turns'[p] > 0, NEW t \in Asked(p)
             PROVE  left[p][t] <= (clock' - clock) % Modulus
  BY DEF NoneEarly
<1> DEFINE y == 0
<1>1. ReleaseTimers(q, clock, y) /\ y \in Nat
  BY DEF EndInstruction
<1>2. AllLater(left, left, y)
  BY NoneLater
<1> HIDE DEF y
<1>3. Soonest(left[p]) <= 0
  BY <1>1, <1>2, WokenDue
<1>4. (clock' - clock) % Modulus = 0
  <2>1. clock \in Int
    BY StateIs, ClockBounds
  <2>2. clock' - clock = 0
    BY <2>1
  <2>3. 0 % Modulus = 0
    BY ClockBounds
  <2> QED BY <2>2, <2>3
<1>5. Soonest(left[p]) = left[p][t]
  BY OneAsked
<1> QED BY <1>3, <1>4, <1>5

\* A tick wakes those whose time it passes.
LEMMA TickNotEarly == ASSUME TimerInv, NEW ticks \in 1 .. MaxTicks, Tick(ticks) PROVE NoneEarly
<1> SUFFICES ASSUME NEW p \in Proc, pc[p] = "free", turns[p] = 0, turns'[p] > 0, NEW t \in Asked(p)
             PROVE  left[p][t] <= (clock' - clock) % Modulus
  BY DEF NoneEarly
<1> DEFINE m == [x \in Proc |-> [u \in Asked(x) |-> left[x][u] - ticks]]
           b == [u \in Asked(p) |-> left[p][u] - ticks]
<1>1. Good(clock, held, left, List, Program) /\ clock \in Time /\ clock \in Int
  BY ClockBounds DEF TimerInv, Good
<1>2. ticks \in Nat /\ ticks \in Int
  BY TimerAssumption
<1>3. clock' = (clock + ticks) % Modulus /\ ReleaseTimers(List, clock, ticks)
      /\ left[p][t] - ticks >= -MaxLag
  BY DEF Tick
<1>4. AllLater(left, m, ticks)
  <2>1. \A x \in Proc : \A u \in DOMAIN left[x] : left[x][u] - ticks >= -MaxLag
    BY DEF Tick, Asked
  <2> QED BY <2>1 DEF AllLater, Later, Asked
<1>5. List.turns[p] = 0 /\ m[p] = b
  BY DEF List
<1> HIDE DEF m
<1>6. Soonest(b) <= 0
  <2>1. Soonest(m[p]) <= 0
    BY <1>1, <1>2, <1>3, <1>4, <1>5, WokenDue
  <2> QED BY <1>5, <2>1
<1>7. Soonest(left[p]) = left[p][t] /\ left[p][t] \in Int /\ left[p][t] \in Span
  BY OneAsked
<1>8. Soonest(b) = Soonest(left[p]) - ticks
  <2> DEFINE v == View(left, List, Program, p)
  <2>1. Fine(clock, v) /\ v.left = left[p]
    BY ViewNow
  <2> HIDE DEF v
  <2>2. Asks(clock, left[p]) /\ DOMAIN left[p] # {}
    BY <2>1 DEF Fine, Asked
  <2>3. Later(left[p], b, ticks)
    BY DEF Later, Asked
  <2> HIDE DEF b
  <2> QED BY <1>2, <2>2, <2>3, SoonestLater
<1> HIDE DEF b
<1>9. left[p][t] <= ticks
  BY <1>2, <1>6, <1>7, <1>8
<1>10. ticks <= Half /\ ticks < Modulus
  BY <1>2, <1>3, <1>7, ClockBounds DEF Span
<1>11. (clock' - clock) % Modulus = ticks
  <2> DEFINE z == 0
  <2>1. z \in Int /\ clock = (clock + z) % Modulus
    <3>1. clock + z = clock /\ clock % Modulus = clock
      BY <1>1, TimeAt
    <3> QED BY <3>1
  <2>2. ticks - z = ticks /\ ticks % Modulus = ticks
    BY <1>2, <1>10, WithinHalf
  <2> HIDE DEF z
  <2>3. (((clock + ticks) % Modulus) - ((clock + z) % Modulus)) % Modulus = (ticks - z) % Modulus
    BY <1>1, <1>2, <2>1, TimesApart
  <2> QED BY <1>3, <2>1, <2>2, <2>3
<1> QED BY <1>9, <1>11

\* Alarms are switched on.
LEMMA AlarmsNotEarly == ASSUME TimerInv, SwitchAlarms PROVE NoneEarly
<1>1. Good(clock, held, left, List, Program) /\ EndInstruction(List) /\ clock' = clock
      /\ List.turns = turns
  BY DEF TimerInv, SwitchAlarms, List
<1> QED BY <1>1, WokenNow

\* Nobody waits where the clock is set.
LEMMA StoreNotEarly == ASSUME NEW value \in Time, StoreTimer(value) PROVE NoneEarly
BY DEF StoreTimer, NoneEarly

\* The list is put back.
LEMMA SwapNotEarly == ASSUME TimerInv, SwapTimer PROVE NoneEarly
<1>1. clock' = clock /\ EndInstruction(Swapped)
  BY DEF SwapTimer, Swapped
<1> QED BY <1>1, SwappedGood, WokenNow

-----------------------------------------------------------------------------
(* All steps *)

\* The program starts with an empty list.
LEMMA StartsFine == ASSUME Init PROVE TimerInv
<1>1. /\ List = [tptr |-> NoProcess, tnext |-> 0, time |-> [p \in Proc |-> 0],
                 tlink |-> [p \in Proc |-> "notSet"], state |-> [p \in Proc |-> "enabling"],
                 turns |-> [p \in Proc |-> 1], sleepers |-> <<>>]
      /\ Program = [pc |-> [p \in Proc |-> "free"], temp |-> [p \in Proc |-> NONE_SELECTED],
                    guards |-> [p \in Proc |-> {}], armed |-> [p \in Proc |-> FALSE],
                    sender |-> [p \in Proc |-> FALSE]]
      /\ left = [p \in Proc |-> Nothing] /\ held = NoProcess /\ clock \in Time
      /\ roles \in Roles /\ alarms = TRUE
  BY DEF Init, List, Program
<1>2. 0 \in Time
  BY ClockBounds
<1>3. ListTyped(List)
  <2>1. [p \in Proc |-> 0] \in [Proc -> Time] /\ [p \in Proc |-> 1] \in [Proc -> 0 .. 1]
    BY <1>2
  <2>2. [p \in Proc |-> "enabling"] \in [Proc -> Mark]
    BY DEF Mark
  <2>3. [p \in Proc |-> "notSet"] \in [Proc -> Proc \union {NoProcess, "notSet", "set"}]
    OBVIOUS
  <2>4. <<>> \in Seq(Proc)
    OBVIOUS
  <2> QED BY <1>1, <1>2, <2>1, <2>2, <2>3, <2>4 DEF ListTyped, Lists
<1>4. ProgramTyped(Program)
  <2>1. /\ [p \in Proc |-> NONE_SELECTED] \in [Proc -> Time \union {NONE_SELECTED, CHANNEL}]
        /\ [p \in Proc |-> "free"] \in [Proc -> {"free", "enabling", "disabling"}]
        /\ [p \in Proc |-> {}] \in [Proc -> SUBSET Time]
        /\ [p \in Proc |-> FALSE] \in [Proc -> BOOLEAN]
    OBVIOUS
  <2> QED BY <1>1, <2>1 DEF ProgramTyped
<1>5. Len(List.sleepers) = 0 /\ List.sleepers = <<>> /\ List.tptr = NoProcess
  BY <1>1
<1>6. Listed(held, left, List)
  BY <1>1, <1>5 DEF Listed, Linked, InOrder
<1>7. ASSUME NEW p \in Proc PROVE Fine(clock, View(left, List, Program, p))
  <2> DEFINE v == View(left, List, Program, p)
  <2>1. /\ v.pc = Program.pc[p] /\ v.temp = Program.temp[p] /\ v.guards = Program.guards[p]
        /\ v.armed = Program.armed[p] /\ v.sender = Program.sender[p] /\ v.left = left[p]
        /\ v.time = List.time[p] /\ v.state = List.state[p] /\ v.turns = List.turns[p]
        /\ v.listed = Holds(List.sleepers, p)
    BY ViewIs
  <2> HIDE DEF v
  <2>2. /\ v.pc = "free" /\ v.temp = NONE_SELECTED /\ v.guards = {} /\ v.armed = FALSE
        /\ v.sender = FALSE /\ v.left = Nothing
    BY <1>1, <2>1
  <2>3. v.time = 0 /\ v.state = "enabling" /\ v.turns = 1
    BY <1>1, <2>1
  <2>4. v.listed = FALSE
    <3>1. ~Holds(List.sleepers, p)
      BY <1>5 DEF Holds
    <3> QED BY <2>1, <3>1 DEF Holds
  <2>5. Kinds(v)
    <3>1. {v.armed, v.sender, v.listed} \subseteq BOOLEAN
      BY <2>2, <2>4
    <3>2. v.temp \in Time \union {NONE_SELECTED, CHANNEL} /\ v.guards \subseteq Time
      BY <2>2
    <3>3. v.time \in Time /\ v.state \in Mark /\ v.turns \in 0 .. 1
      BY <1>2, <2>3 DEF Mark
    <3> QED BY <3>1, <3>2, <3>3 DEF Kinds
  <2>6. Asks(clock, v.left)
    <3>1. DOMAIN v.left = {}
      BY <2>2 DEF Nothing
    <3> QED BY <3>1 DEF Asks
  <2>7. FreeFine(v)
    BY <2>2, <2>3, <2>4 DEF FreeFine
  <2> QED BY <2>2, <2>4, <2>5, <2>6, <2>7 DEF Fine, v
<1>8. Good(clock, held, left, List, Program)
  BY <1>1, <1>3, <1>4, <1>6, <1>7 DEF Good
<1>9. Awake(alarms, held, left, List)
  BY <1>5 DEF Awake
<1>10. Tidy(left, List, Program)
  <2>1. left = [p \in Proc |-> left[p]] /\ \A p \in Proc : left[p] = Nothing
    BY <1>1
  <2> QED BY <2>1 DEF Tidy
<1> QED BY <1>1, <1>8, <1>9, <1>10 DEF TimerInv

\* An alternative goes on.
LEMMA AlternativeKeeps ==
  ASSUME TimerInv, NEW p \in roles.choosers, Alternative(p) PROVE TimerInv' /\ SleepersStay
<1>1. CASE \E d \in Distance : EnableTimer(p, d)
  BY <1>1, EnableTimerKeeps
<1>2. CASE EnableChannel(p)
  BY <1>2, EnableChannelKeeps
<1>3. CASE WaitTimed(p)
  BY <1>3, WaitKeeps
<1>4. CASE \E t \in guards[p] : DisableTimer(p, t)
  BY <1>4, DisableTimerKeeps
<1>5. CASE DisableChannel(p)
  BY <1>5, DisableChannelKeeps
<1>6. CASE Finish(p)
  BY <1>6, FinishKeeps
<1> QED BY <1>1, <1>2, <1>3, <1>4, <1>5, <1>6 DEF Alternative

\* Every step keeps the invariant, and wakes nobody from tin too early.
LEMMA StepKeeps == ASSUME TimerInv, Next PROVE TimerInv' /\ NoneEarly
<1>1. CASE \E ticks \in 1 .. MaxTicks : Tick(ticks)
  BY <1>1, TickKeeps, TickNotEarly
<1>2. CASE SwitchAlarms
  BY <1>2, AlarmsKeep, AlarmsNotEarly
<1>3. CASE SwapTimer
  BY <1>3, SwapKeeps, SwapNotEarly
<1>4. CASE \E value \in Time : StoreTimer(value)
  BY <1>4, StoreKeeps, StoreNotEarly
<1>5. CASE \E p \in roles.sleepers, d \in Distance : Tin(p, d)
  BY <1>5, TinKeeps, StayNotEarly
<1>6. CASE \E p \in roles.choosers : BeginTimed(p) \/ Send(p) \/ Alternative(p)
  BY <1>6, BeginKeeps, SendKeeps, AlternativeKeeps, StayNotEarly
<1> QED BY <1>1, <1>2, <1>3, <1>4, <1>5, <1>6 DEF Next

\* Where nothing happens, nothing changes.
LEMMA StutterKeeps == ASSUME TimerInv, UNCHANGED vars PROVE TimerInv' /\ NoneEarly
<1>1. /\ roles' = roles /\ clock' = clock /\ alarms' = alarms /\ held' = held /\ left' = left
      /\ List' = List /\ Program' = Program /\ turns' = turns
  BY DEF vars, List, Program
<1> QED BY <1>1 DEF TimerInv, NoneEarly

\* The invariant holds.
THEOREM TimerInvariant == Spec => []TimerInv
<1>1. Init => TimerInv
  BY StartsFine
<1>2. TimerInv /\ [Next]_vars => TimerInv'
  BY StepKeeps, StutterKeeps
<1> QED BY <1>1, <1>2, PTL DEF Spec

\* A list that is fine is linked and in order.
LEMMA InvListed == ASSUME TimerInv PROVE ListInOrder
<1>1. /\ Good(clock, held, left, List, Program) /\ Listed(held, left, List)
  BY DEF TimerInv, Good
<1>2. TypeOK
  BY StateIs DEF TypeOK
<1> DEFINE front == IF held # NoProcess THEN held ELSE tptr
<1>3. Linked(tlink, front, sleepers) /\ (tptr # NoProcess => tnext = time[tptr]) /\ InOrder(left, sleepers)
  BY <1>1 DEF Listed, List
<1>4. Len(sleepers) \in Nat
  BY StateIs, LenProperties
<1>5. ASSUME NEW i \in 1 .. Len(sleepers) PROVE pc[sleepers[i]] = "disabling" \/ turns[sleepers[i]] = 0
  <2> DEFINE p == sleepers[i]
             v == View(left, List, Program, p)
  <2>1. p \in Proc /\ Holds(sleepers, p)
    BY StateIs, ElementOfSeq DEF Holds
  <2>2. Fine(clock, v) /\ v.pc = pc[p] /\ v.turns = turns[p] /\ v.listed
    BY <2>1, ViewNow
  <2> HIDE DEF v, p
  <2> QED BY <2>2 DEF Fine, FreeFine, EnablingFine, p
<1>6. ASSUME NEW i \in 1 .. Len(sleepers), NEW j \in i + 1 .. Len(sleepers)
      PROVE  Remaining(sleepers[i]) <= Remaining(sleepers[j])
  <2>1. j \in 1 .. Len(sleepers) /\ i < j
    BY <1>4
  <2>2. Soonest(left[sleepers[i]]) <= Soonest(left[sleepers[j]])
    BY <1>3, <2>1 DEF InOrder
  <2> QED BY <2>2 DEF Remaining, Soonest, Asked
<1>7. \A i \in 1 .. Len(sleepers) :
        tlink[sleepers[i]] = IF i = Len(sleepers) THEN NoProcess ELSE sleepers[i + 1]
  BY <1>3 DEF Linked
<1>8. front = IF Len(sleepers) = 0 THEN NoProcess ELSE sleepers[1]
  BY <1>3 DEF Linked
<1> QED BY <1>2, <1>3, <1>5, <1>6, <1>7, <1>8 DEF ListInOrder

\* Whoever has no turn is in the list, or asked for no time.
LEMMA InvAwake == ASSUME TimerInv PROVE DueAreAwake
<1> SUFFICES ASSUME alarms, held = NoProcess, NEW p \in Proc, turns[p] = 0, NEW t \in Asked(p)
             PROVE  left[p][t] > 0
  BY DEF DueAreAwake
<1> DEFINE v == View(left, List, Program, p)
           a == left[p]
<1>1. Fine(clock, v) /\ v.turns = 0 /\ v.left = a /\ v.listed = Holds(sleepers, p)
  BY ViewNow
<1> HIDE DEF v, a
<1>2. Asks(clock, a) /\ t \in DOMAIN a
  BY <1>1 DEF Fine, Asked, a
<1>3. v.listed
  BY <1>1, <1>2 DEF Fine, FreeFine, EnablingFine, DisablingFine
<1>4. PICK i \in 1 .. Len(sleepers) : sleepers[i] = p
  BY <1>1, <1>3 DEF Holds
<1>5. Soonest(a) > 0
  <2>1. Awake(alarms, held, left, List)
    BY DEF TimerInv
  <2> QED BY <1>4, <2>1 DEF Awake, List, a
<1>6. a[t] \in Int /\ Soonest(a) \in Span /\ Soonest(a) <= a[t]
  BY <1>2, LeftIs, SoonestIs DEF LeastOf
<1>7. Soonest(a) \in Int
  BY <1>6, ClockBounds DEF Span
<1>8. a[t] > 0
  BY <1>5, <1>6, <1>7
<1> QED BY <1>8 DEF a

\* What a process that disables its guards has selected is ready.
LEMMA InvSelection == ASSUME TimerInv PROVE SelectionReady
<1> SUFFICES ASSUME NEW p \in Proc, pc[p] = "disabling", turns[p] > 0
             PROVE  /\ temp[p] \in Time => left[p][temp[p]] <= 0
                    /\ temp[p] = CHANNEL => sender[p]
                    /\ guards[p] = {} /\ ~armed[p] => temp[p] # NONE_SELECTED
  BY DEF SelectionReady
<1> DEFINE v == View(left, List, Program, p)
<1>1. /\ Fine(clock, v) /\ v.pc = pc[p] /\ v.turns = turns[p]
      /\ v.temp = temp[p] /\ v.guards = guards[p] /\ v.armed = armed[p]
      /\ v.sender = sender[p] /\ v.left = left[p]
  BY ViewNow
<1> HIDE DEF v
<1>2. DisablingFine(clock, v)
  BY <1>1 DEF Fine
<1>3. v.turns = 1
  <2>1. turns[p] \in 0 .. 1
    BY StateIs
  <2> QED BY <1>1, <2>1
<1>4. v.guards = {} /\ ~v.armed => ~Promise(v)
  BY DEF Promise
<1> QED BY <1>1, <1>2, <1>3, <1>4 DEF DisablingFine

\* The links are the sleepers in the order of their times, wherever the clock
\* wraps, and the alarm is the first deadline.
THEOREM ListInOrderCorrect == Spec => []ListInOrder
<1>1. TimerInv => ListInOrder
  BY InvListed
<1> QED BY <1>1, TimerInvariant, PTL

\* Nobody whose time has passed still sleeps.
THEOREM DueAreAwakeCorrect == Spec => []DueAreAwake
<1>1. TimerInv => DueAreAwake
  BY InvAwake
<1> QED BY <1>1, TimerInvariant, PTL

\* Whoever wakes an alternative, and in whatever order its guards are
\* disabled, it selects one, and one that is ready.
THEOREM SelectionReadyCorrect == Spec => []SelectionReady
<1>1. TimerInv => SelectionReady
  BY InvSelection
<1> QED BY <1>1, TimerInvariant, PTL

\* Nobody goes on from tin before the clock is after its time.
THEOREM NeverEarlyCorrect == Spec => NeverEarly
<1>1. TimerInv /\ [Next]_vars =>
        [\A p \in Proc : pc[p] = "free" /\ turns[p] = 0 /\ turns'[p] > 0 =>
           \A t \in Asked(p) : left[p][t] <= (clock' - clock) % Modulus]_vars
  BY StepKeeps DEF NoneEarly
<1> QED BY <1>1, TimerInvariant, PTL DEF Spec, NeverEarly
================================================================================
