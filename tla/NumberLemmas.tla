----------------------------- MODULE NumberLemmas -----------------------------
(***************************************************************************)
(* Numbers: the least of a set, quotients and remainders, and functions    *)
(* that are defined step by step.                                          *)
(***************************************************************************)
EXTENDS Integers, WellFoundedInduction, TLAPS

\* A set of natural numbers has a least one.
LEMMA LeastNatural ==
  ASSUME NEW T, T \subseteq Nat, T # {}
  PROVE  \E n \in T : \A k \in T : n <= k
<1>1. IsWellFoundedOn(OpToRel(<, Nat), Nat)
  BY NatLessThanWellFounded
<1>2. PICK n \in T : \A k \in T : ~ (<<k, n>> \in OpToRel(<, Nat))
  BY <1>1, WFMin
<1>3. \A k \in T : ~ (k < n)
  BY <1>2 DEF OpToRel
<1> QED BY <1>3

\* What holds of a number and of the next one after each, up to N, holds up to N.
LEMMA UpTo ==
  ASSUME NEW N \in Nat, NEW T, 0 \in T, \A n \in 1 .. N : n - 1 \in T => n \in T
  PROVE  0 .. N \subseteq T
<1> DEFINE U == (0 .. N) \ T
<1>1. SUFFICES ASSUME U # {} PROVE FALSE
  OBVIOUS
<1>2. PICK n \in U : \A k \in U : n <= k
  <2>1. U \subseteq Nat
    OBVIOUS
  <2> HIDE DEF U
  <2> QED BY <1>1, <2>1, LeastNatural
<1>3. n # 0 /\ n \in 1 .. N
  BY <1>2
<1>4. n - 1 \in T
  BY <1>2, <1>3
<1> QED BY <1>2, <1>3, <1>4

\* A function defined step by step, on 0 .. k.
StepsFrom(f, c, g, k) == \A n \in 0 .. k : f[n] = IF n = 0 THEN c ELSE g[n][f[n - 1]]

\* There is one.
LEMMA StepByStep ==
  ASSUME NEW S, NEW c \in S, NEW N \in Nat, NEW g \in [1 .. N -> [S -> S]]
  PROVE  \E f \in [0 .. N -> S] : StepsFrom(f, c, g, N)
<1> DEFINE T == {k \in 0 .. N : \E f \in [0 .. k -> S] : StepsFrom(f, c, g, k)}
<1>1. 0 \in T
  <2> DEFINE f == [n \in 0 .. 0 |-> c]
  <2>1. f \in [0 .. 0 -> S] /\ \A n \in 0 .. 0 : n = 0 /\ f[n] = c
    OBVIOUS
  <2>2. StepsFrom(f, c, g, 0)
    BY <2>1 DEF StepsFrom
  <2> HIDE DEF f
  <2>3. \E x \in [0 .. 0 -> S] : StepsFrom(x, c, g, 0)
    BY <2>1, <2>2
  <2> QED BY <2>3
<1>2. ASSUME NEW k \in 1 .. N, k - 1 \in T PROVE k \in T
  <2>1. PICK f \in [0 .. (k - 1) -> S] : StepsFrom(f, c, g, k - 1)
    BY <1>2
  <2> DEFINE h == [n \in 0 .. k |-> IF n = k THEN g[k][f[k - 1]] ELSE f[n]]
  <2>2. \A n \in 0 .. k : n # k => n \in 0 .. (k - 1)
    OBVIOUS
  <2>3. h \in [0 .. k -> S]
    BY <2>1, <2>2
  <2>4. ASSUME NEW n \in 0 .. k PROVE h[n] = IF n = 0 THEN c ELSE g[n][h[n - 1]]
    <3>1. CASE n = k
      BY <3>1
    <3>2. CASE n # k
      <4>1. h[n] = f[n] /\ n \in 0 .. (k - 1)
        BY <3>2, <2>2
      <4>2. f[n] = IF n = 0 THEN c ELSE g[n][f[n - 1]]
        BY <2>1, <4>1 DEF StepsFrom
      <4>3. n # 0 => h[n - 1] = f[n - 1]
        BY <4>1
      <4> QED BY <4>1, <4>2, <4>3
    <3> QED BY <3>1, <3>2
  <2>5. StepsFrom(h, c, g, k)
    BY <2>4 DEF StepsFrom
  <2> HIDE DEF h
  <2>6. \E x \in [0 .. k -> S] : StepsFrom(x, c, g, k)
    BY <2>3, <2>5
  <2> QED BY <2>6
<1>3. 0 .. N \subseteq T
  BY <1>1, <1>2, UpTo
<1>4. N \in T
  BY <1>3
<1> QED BY <1>4

\* Division with a remainder.
LEMMA QuotientAndRemainder ==
  ASSUME NEW a \in Nat, NEW K \in Nat, K > 0
  PROVE  /\ (a % K) \in Nat /\ (a % K) < K /\ (a \div K) \in Nat
         /\ a = (K * (a \div K)) + (a % K)
  BY SMT

\* A number less than K away from a multiple of K on either side has it to itself.
LEMMA NoMultipleBetween ==
  ASSUME NEW q \in Int, NEW K \in Nat, NEW d \in Int, K * q = d, -K < d, d < K
  PROVE  q = 0
<1>1. CASE q >= 1
  BY <1>1, SMT
<1>2. CASE q <= -1
  BY <1>2, SMT
<1> QED BY <1>1, <1>2

\* The remainder is the only one.
LEMMA RemainderIs ==
  ASSUME NEW a \in Nat, NEW K \in Nat, K > 0, NEW q \in Nat, NEW r \in Nat, r < K,
         a = (K * q) + r
  PROVE  (a % K) = r
<1> DEFINE p == a \div K
           s == a % K
<1>1. /\ p \in Nat /\ s \in Nat /\ s < K /\ a = (K * p) + s
  BY QuotientAndRemainder
<1> HIDE DEF p, s
<1>2. K * (p - q) = r - s
  <2>1. K * (p - q) = (K * p) - (K * q)
    BY <1>1, SMT
  <2> QED BY <2>1, <1>1, SMT
<1>3. p - q = 0
  <2>1. p - q \in Int /\ r - s \in Int /\ -K < r - s /\ r - s < K
    BY <1>1, SMT
  <2> QED BY <2>1, <1>2, NoMultipleBetween
<1>4. r - s = 0
  <2>1. p = q
    BY <1>3, <1>1, SMT
  <2> QED BY <2>1, <1>1, SMT
<1>5. r = s
  BY <1>4, <1>1, SMT
<1> QED BY <1>5 DEF s

\* And so is the quotient.
LEMMA QuotientIs ==
  ASSUME NEW a \in Nat, NEW K \in Nat, K > 0, NEW q \in Nat, NEW r \in Nat, r < K,
         a = (K * q) + r
  PROVE  (a \div K) = q
<1> DEFINE p == a \div K
           s == a % K
<1>1. /\ p \in Nat /\ s \in Nat /\ s < K /\ a = (K * p) + s
  BY QuotientAndRemainder
<1>2. s = r
  BY RemainderIs
<1> HIDE DEF p, s
<1>3. K * (p - q) = 0
  <2>1. K * (p - q) = (K * p) - (K * q)
    BY <1>1, SMT
  <2> QED BY <2>1, <1>1, <1>2, SMT
<1>4. p - q = 0
  <2>1. p - q \in Int /\ -K < 0 /\ 0 < K
    BY <1>1, SMT
  <2> QED BY <2>1, <1>3, NoMultipleBetween
<1> QED BY <1>1, <1>4 DEF p

\* Before the next multiple the remainder grows with the number, from it on anew.
LEMMA RemainderGrows ==
  ASSUME NEW a \in Nat, NEW K \in Nat, K > 0, NEW k \in Nat, k < K - (a % K)
  PROVE  ((a + k) % K) = (a % K) + k
<1> DEFINE p == a \div K
           s == a % K
<1>1. /\ p \in Nat /\ s \in Nat /\ s < K /\ a = (K * p) + s
  BY QuotientAndRemainder
<1>2. k < K - s
  OBVIOUS
<1> HIDE DEF p, s
<1>3. a + k = (K * p) + (s + k) /\ s + k < K /\ s + k \in Nat /\ a + k \in Nat
  BY <1>1, <1>2, SMT
<1>4. ((a + k) % K) = s + k
  BY <1>1, <1>3, RemainderIs
<1> QED BY <1>4 DEF s

\* At the next multiple it is zero.
LEMMA RemainderEnds ==
  ASSUME NEW a \in Nat, NEW K \in Nat, K > 0, (a % K) + 1 = K
  PROVE  ((a + 1) % K) = 0
<1> DEFINE p == a \div K
           s == a % K
<1>1. /\ p \in Nat /\ s \in Nat /\ s < K /\ a = (K * p) + s
  BY QuotientAndRemainder
<1>2. s + 1 = K
  OBVIOUS
<1> HIDE DEF p, s
<1>3. a + 1 = (K * (p + 1)) + 0 /\ 0 < K /\ 0 \in Nat /\ p + 1 \in Nat /\ a + 1 \in Nat
  <2>1. K * (p + 1) = (K * p) + K
    BY <1>1, SMT
  <2> QED BY <2>1, <1>1, <1>2, SMT
<1> QED BY <1>3, RemainderIs

\* A remainder of any integer.
LEMMA IntRemainder ==
  ASSUME NEW a \in Int, NEW K \in Nat, K > 0
  PROVE  /\ (a % K) \in 0 .. K - 1 /\ (a \div K) \in Int
         /\ a = (K * (a \div K)) + (a % K)
BY SMT

\* k times K apart.
TimesKApart(a, b, K, k) == a \in Int /\ b \in Int /\ k \in Int /\ a = b + (K * k)

\* Numbers a multiple of K apart have the same remainder.
LEMMA SameRemainder ==
  ASSUME NEW a, NEW b, NEW K \in Nat, K > 0, NEW k, TimesKApart(a, b, K, k)
  PROVE  (a % K) = (b % K)
<1>0. a \in Int /\ b \in Int /\ k \in Int /\ a = b + (K * k)
  BY DEF TimesKApart
<1> DEFINE r == a % K
           s == b % K
           q == a \div K
           h == b \div K
<1>1. /\ r \in 0 .. K - 1 /\ q \in Int /\ a = (K * q) + r
      /\ s \in 0 .. K - 1 /\ h \in Int /\ b = (K * h) + s
  BY <1>0, IntRemainder
<1> HIDE DEF r, s, q, h
<1>2. K * (q - (h + k)) = s - r
  <2>1. K * (q - (h + k)) = (K * q) - ((K * h) + (K * k))
    BY <1>0, <1>1, SMT
  <2>2. (K * q) \in Int /\ (K * h) \in Int /\ (K * k) \in Int
    BY <1>0, <1>1
  <2> DEFINE x == K * q
             y == K * h
             z == K * k
  <2> HIDE DEF x, y, z
  <2>3. x \in Int /\ y \in Int /\ z \in Int /\ a = x + r /\ b = y + s /\ a = b + z
    BY <1>0, <1>1, <2>2 DEF x, y, z
  <2>4. x - (y + z) = s - r
    BY <1>1, <2>3
  <2> QED BY <2>1, <2>4 DEF x, y, z
<1>3. q - (h + k) \in Int /\ s - r \in Int /\ -K < s - r /\ s - r < K
  BY <1>0, <1>1
<1>4. q - (h + k) = 0
  BY <1>2, <1>3, NoMultipleBetween
<1>5. K * 0 = 0
  OBVIOUS
<1>6. s - r = 0
  BY <1>2, <1>4, <1>5
<1> QED BY <1>1, <1>6 DEF r, s

\* A remainder with a number added.
LEMMA RemainderOfSum ==
  ASSUME NEW c \in Int, NEW x \in Int, NEW K \in Nat, K > 0
  PROVE  ((c % K) + x) % K = (c + x) % K
<1> DEFINE t == c % K
           i == c \div K
<1>1. t \in Int /\ i \in Int /\ c = (K * i) + t
  BY IntRemainder
<1> HIDE DEF t, i
<1>2. c + x = (t + x) + (K * i)
  <2>1. (K * i) \in Int
    BY <1>1
  <2> DEFINE n == K * i
  <2> HIDE DEF n
  <2>2. n \in Int /\ c = n + t
    BY <1>1, <2>1 DEF n
  <2>3. c + x = (t + x) + n
    BY <1>1, <2>2
  <2> QED BY <2>3 DEF n
<1>3. (c + x) % K = (t + x) % K
  <2> DEFINE a == c + x
             b == t + x
  <2>1. a \in Int /\ b \in Int /\ a = b + (K * i)
    BY <1>1, <1>2
  <2> HIDE DEF a, b
  <2>2. TimesKApart(a, b, K, i)
    BY <1>1, <2>1 DEF TimesKApart
  <2>3. a % K = b % K
    BY <2>2, SameRemainder
  <2> QED BY <2>3 DEF a, b
<1> QED BY <1>3 DEF t
===============================================================================
