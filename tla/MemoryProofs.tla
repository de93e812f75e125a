----------------------------- MODULE MemoryProofs -----------------------------
(***************************************************************************)
(* What memory and the code caches over it promise, for address spaces,    *)
(* blocks, words and caches of any size.  First the caches: what is        *)
(* executed is what memory holds.  Then saved memory: a load returns every *)
(* byte of a save.  Last the block moves: each does what a loop over its   *)
(* bytes does.                                                             *)
(***************************************************************************)
EXTENDS CodeCache, NumberLemmas, SequenceTheorems, FiniteSetTheorems

-----------------------------------------------------------------------------
(***************************************************************************)
(* Addresses and blocks.                                                   *)
(***************************************************************************)

\* An address has a block and an offset in it.
LEMMA BlockAndOffset ==
  ASSUME NEW a \in Nat
  PROVE  /\ BlockOf(a) \in Nat /\ BlockOffset(a) \in Nat /\ BlockOffset(a) < BLKSIZE
         /\ a = (BLKSIZE * BlockOf(a)) + BlockOffset(a) /\ BLKSIZE \in Nat /\ BLKSIZE > 0
         /\ BLKSIZE * BlockOf(a) \in Nat
<1>1. BLKSIZE \in Nat /\ BLKSIZE > 0
  BY MemoryAssumption
<1>2. /\ BlockOf(a) \in Nat /\ BlockOffset(a) \in Nat /\ BlockOffset(a) < BLKSIZE
      /\ a = (BLKSIZE * BlockOf(a)) + BlockOffset(a)
  BY <1>1, QuotientAndRemainder DEF BlockOf, BlockOffset
<1>3. \A b \in Nat : BLKSIZE * b \in Nat
  BY <1>1, SMT
<1> QED BY <1>1, <1>2, <1>3

\* Addresses up to the end of the block are in the block.
LEMMA SameBlock ==
  ASSUME NEW a \in Nat, NEW d \in Nat, BlockOffset(a) + d < BLKSIZE
  PROVE  BlockOf(a + d) = BlockOf(a) /\ BlockOffset(a + d) = BlockOffset(a) + d
<1> DEFINE b == BlockOf(a)
           o == BlockOffset(a)
<1>1. /\ b \in Nat /\ o \in Nat /\ a = (BLKSIZE * b) + o /\ BLKSIZE \in Nat /\ BLKSIZE > 0
      /\ o + d < BLKSIZE
  BY BlockAndOffset
<1> HIDE DEF b, o
<1>2. a + d = (BLKSIZE * b) + (o + d) /\ a + d \in Nat /\ o + d \in Nat
  BY <1>1, SMT
<1>3. ((a + d) \div BLKSIZE) = b /\ ((a + d) % BLKSIZE) = o + d
  BY <1>1, <1>2, QuotientIs, RemainderIs
<1> QED BY <1>3 DEF BlockOf, BlockOffset, b, o

\* A multiple that is less than another is less by one at least.
LEMMA MultiplesApart ==
  ASSUME NEW K \in Nat, K > 0, NEW p \in Nat, NEW q \in Nat, K * p < K * q
  PROVE  p < q /\ (K * p) + K <= K * q
<1>1. p < q
  <2>1. CASE q <= p
    <3>1. K * p = (K * q) + (K * (p - q))
      BY SMT
    <3>2. K * (p - q) >= 0
      BY <2>1, SMT
    <3>3. K * p \in Nat /\ K * q \in Nat /\ K * (p - q) \in Int
      BY SMT
    <3> QED BY <3>1, <3>2, <3>3
  <2> QED BY <2>1
<1>2. K * q = ((K * p) + K) + (K * ((q - p) - 1))
  BY SMT
<1>3. K * ((q - p) - 1) >= 0
  BY <1>1, SMT
<1>4. K * p \in Nat /\ K * q \in Nat /\ K * ((q - p) - 1) \in Int
  BY SMT
<1> QED BY <1>1, <1>2, <1>3, <1>4

\* The address space ends with a block.
LEMMA BlocksInSpace ==
  ASSUME NEW a \in Address
  PROVE  /\ BlockOf(a) \in Block
         /\ (BLKSIZE * BlockOf(a)) + BLKSIZE <= AddressSpace
<1> DEFINE b == BlockOf(a)
           q == AddressSpace \div BLKSIZE
<1>1. /\ a \in Nat /\ a < AddressSpace /\ AddressSpace \in Nat /\ BLKSIZE \in Nat /\ BLKSIZE > 0
      /\ AddressSpace % BLKSIZE = 0
  BY MemoryAssumption DEF Address
<1>2. q \in Nat /\ AddressSpace = BLKSIZE * q
  BY <1>1, QuotientAndRemainder
<1>3. b \in Nat /\ BLKSIZE * b <= a /\ BLKSIZE * b \in Nat
  <2>1. /\ b \in Nat /\ BLKSIZE * b \in Nat /\ BlockOffset(a) \in Nat
        /\ a = (BLKSIZE * b) + BlockOffset(a)
    BY <1>1, BlockAndOffset
  <2> HIDE DEF b
  <2> QED BY <1>1, <2>1
<1> HIDE DEF b, q
<1>4. b < q /\ (BLKSIZE * b) + BLKSIZE <= BLKSIZE * q
  BY <1>1, <1>2, <1>3, MultiplesApart
<1>5. b \in 0 .. q - 1
  BY <1>2, <1>3, <1>4
<1> QED BY <1>2, <1>4, <1>5 DEF Block, b, q

\* Of n bytes from a in one block, the address of the k-th.
LEMMA ByteOfBlock ==
  ASSUME NEW a \in Address, NEW n \in Nat, BlockOffset(a) + n <= BLKSIZE, NEW k \in 1 .. n
  PROVE  /\ Wrap(a + k - 1) = a + k - 1 /\ a + k - 1 \in Address
         /\ BlockOf(a + k - 1) = BlockOf(a)
         /\ a + n <= AddressSpace
<1>1. a \in Nat /\ AddressSpace \in Nat /\ AddressSpace > 0
  BY MemoryAssumption DEF Address
<1>2. /\ BlockOf(a) \in Nat /\ BlockOffset(a) \in Nat /\ BLKSIZE \in Nat
      /\ a = (BLKSIZE * BlockOf(a)) + BlockOffset(a)
  BY <1>1, BlockAndOffset
<1>3. (BLKSIZE * BlockOf(a)) + BLKSIZE <= AddressSpace /\ BLKSIZE * BlockOf(a) \in Nat
  BY <1>2, BlocksInSpace
<1>4. a + n <= AddressSpace
  BY <1>1, <1>2, <1>3
<1>5. k - 1 \in Nat /\ a + (k - 1) = a + k - 1 /\ BlockOffset(a) + (k - 1) < BLKSIZE
  BY <1>1, <1>2
<1>6. BlockOf(a + k - 1) = BlockOf(a)
  BY <1>1, <1>5, SameBlock
<1>7. a + k - 1 \in 0 .. AddressSpace - 1
  BY <1>1, <1>4, <1>5
<1>8. Wrap(a + k - 1) = a + k - 1
  BY <1>1, <1>7 DEF Wrap
<1> QED BY <1>4, <1>6, <1>7, <1>8 DEF Address

\* No device begins in the middle of a block.
LEMMA NoDeviceBehind ==
  ASSUME NEW a \in Address, ~isMemoryDeviceAddress(a), NEW y \in Address, a <= y,
         BlockOf(y) = BlockOf(a)
  PROVE  ~isMemoryDeviceAddress(y)
<1>1. SUFFICES ASSUME NEW d \in MemoryDevices, y \in d.start .. d.end PROVE FALSE
  BY DEF isMemoryDeviceAddress
<1>2. /\ d.start \in Nat /\ d.end \in Nat /\ a \in Nat /\ y \in Nat
      /\ d.start % BLKSIZE = 0 /\ d.start <= y /\ y <= d.end
  BY <1>1, MemoryAssumption, CodeAssumption DEF Address
<1> DEFINE p == BlockOf(d.start)
           b == BlockOf(a)
<1>3. /\ p \in Nat /\ b \in Nat /\ d.start = BLKSIZE * p /\ BLKSIZE \in Nat /\ BLKSIZE > 0
      /\ BLKSIZE * b <= a /\ y < (BLKSIZE * b) + BLKSIZE
      /\ BLKSIZE * b \in Nat /\ BLKSIZE * p \in Nat
  <2>1. BlockOffset(d.start) = 0
    BY <1>2 DEF BlockOffset
  <2>2. /\ p \in Nat /\ BLKSIZE * p \in Nat /\ d.start = (BLKSIZE * p) + 0
        /\ b \in Nat /\ BLKSIZE * b \in Nat /\ BlockOffset(a) \in Nat
        /\ a = (BLKSIZE * b) + BlockOffset(a) /\ BLKSIZE \in Nat /\ BLKSIZE > 0
    BY <1>2, <2>1, BlockAndOffset
  <2>3. /\ y = (BLKSIZE * b) + BlockOffset(y) /\ BlockOffset(y) \in Nat
        /\ BlockOffset(y) < BLKSIZE
    BY <1>2, BlockAndOffset
  <2> HIDE DEF p, b
  <2> QED BY <1>2, <2>2, <2>3
<1> HIDE DEF p, b
<1>4. BLKSIZE * p <= BLKSIZE * b
  <2>1. CASE BLKSIZE * b < BLKSIZE * p
    <3>1. (BLKSIZE * b) + BLKSIZE <= BLKSIZE * p
      BY <1>3, <2>1, MultiplesApart
    <3> QED BY <1>2, <1>3, <3>1
  <2> QED BY <1>3, <2>1
<1>5. a \in d.start .. d.end
  BY <1>2, <1>3, <1>4
<1> QED BY <1>5 DEF isMemoryDeviceAddress

-----------------------------------------------------------------------------
(***************************************************************************)
(* Decoding: an instruction ends with the first byte that is no prefix, so *)
(* it depends on its own bytes only, however far the decode might go.      *)
(***************************************************************************)
EndsAt(s, a, k) ==
  /\ ~GoesOn(ByteAt(s, a, k))
  /\ \A j \in 1 .. k - 1 : GoesOn(ByteAt(s, a, j))

InstrAt(s, a, k) == [length |-> k, code |-> ByteAt(s, a, k).bytes[1]]

\* The bytes of an instruction are looked at in turn.
LEMMA DecodeEnds ==
  ASSUME NEW s, NEW a, NEW limit \in Nat
  PROVE  \E k \in 1 .. limit + 1 :
           /\ k = limit + 1 \/ ~GoesOn(ByteAt(s, a, k))
           /\ \A j \in 1 .. k - 1 : GoesOn(ByteAt(s, a, j))
           /\ decodeAt(s, a, limit) =
                IF k > limit \/ ByteAt(s, a, k).result # "ok" THEN NoInstr ELSE InstrAt(s, a, k)
<1> DEFINE P(k) == /\ k = limit + 1 \/ ~GoesOn(ByteAt(s, a, k))
                   /\ \A j \in 1 .. k - 1 : GoesOn(ByteAt(s, a, j))
           T == {k \in 1 .. limit + 1 : k = limit + 1 \/ ~GoesOn(ByteAt(s, a, k))}
           length == CHOOSE k \in 1 .. limit + 1 : P(k)
<1>1. \E k \in 1 .. limit + 1 : P(k)
  <2>1. limit + 1 \in T /\ T \subseteq Nat
    OBVIOUS
  <2>2. PICK k \in T : \A j \in T : k <= j
    <3> HIDE DEF T
    <3> QED BY <2>1, LeastNatural
  <2>3. \A j \in 1 .. k - 1 : j \in 1 .. limit + 1 /\ j # limit + 1 /\ ~(k <= j)
    BY <2>2
  <2>4. P(k)
    BY <2>2, <2>3
  <2> QED BY <2>2, <2>4
<1>2. length \in 1 .. limit + 1 /\ P(length)
  <2> HIDE DEF P
  <2> QED BY <1>1
<1>3. decodeAt(s, a, limit) =
        IF length > limit \/ ByteAt(s, a, length).result # "ok" THEN NoInstr
        ELSE InstrAt(s, a, length)
  BY DEF decodeAt, InstrAt
<1> HIDE DEF length
<1> QED BY <1>2, <1>3

\* What is decoded is an instruction with its bytes, or nothing.
LEMMA DecodedIs ==
  ASSUME NEW s, NEW a, NEW limit \in Nat
  PROVE  LET i == decodeAt(s, a, limit)
         IN  /\ i.length \in 0 .. limit
             /\ i.length # 0 =>
                  /\ EndsAt(s, a, i.length) /\ ByteAt(s, a, i.length).result = "ok"
                  /\ i = InstrAt(s, a, i.length)
<1> DEFINE i == decodeAt(s, a, limit)
<1>1. PICK k \in 1 .. limit + 1 :
           /\ k = limit + 1 \/ ~GoesOn(ByteAt(s, a, k))
           /\ \A j \in 1 .. k - 1 : GoesOn(ByteAt(s, a, j))
           /\ i = IF k > limit \/ ByteAt(s, a, k).result # "ok" THEN NoInstr ELSE InstrAt(s, a, k)
  BY DecodeEnds
<1> HIDE DEF i
<1>2. NoInstr.length = 0 /\ InstrAt(s, a, k).length = k
  BY DEF NoInstr, InstrAt
<1>3. CASE k > limit \/ ByteAt(s, a, k).result # "ok"
  <2>1. i.length = 0
    BY <1>1, <1>2, <1>3
  <2> QED BY <2>1 DEF i
<1>4. CASE ~(k > limit \/ ByteAt(s, a, k).result # "ok")
  <2>1. i = InstrAt(s, a, k) /\ i.length = k /\ k \in 0 .. limit /\ k # limit + 1
    BY <1>1, <1>2, <1>4
  <2>2. EndsAt(s, a, k)
    BY <1>1, <2>1 DEF EndsAt
  <2> QED BY <1>4, <2>1, <2>2 DEF i
<1> QED BY <1>3, <1>4

\* And an instruction that is there is decoded.
LEMMA IsDecoded ==
  ASSUME NEW s, NEW a, NEW limit \in Nat, NEW n \in 1 .. limit, EndsAt(s, a, n),
         ByteAt(s, a, n).result = "ok"
  PROVE  decodeAt(s, a, limit) = InstrAt(s, a, n)
<1>1. PICK k \in 1 .. limit + 1 :
           /\ k = limit + 1 \/ ~GoesOn(ByteAt(s, a, k))
           /\ \A j \in 1 .. k - 1 : GoesOn(ByteAt(s, a, j))
           /\ decodeAt(s, a, limit) =
                IF k > limit \/ ByteAt(s, a, k).result # "ok" THEN NoInstr ELSE InstrAt(s, a, k)
  BY DecodeEnds
<1>2. ~(k < n)
  <2>1. CASE k < n
    <3>1. k \in 1 .. n - 1 /\ k # limit + 1
      BY <2>1
    <3> QED BY <1>1, <3>1 DEF EndsAt
  <2> QED BY <2>1
<1>3. ~(n < k)
  <2>1. CASE n < k
    <3>1. n \in 1 .. k - 1
      BY <2>1
    <3> QED BY <1>1, <3>1 DEF EndsAt
  <2> QED BY <2>1
<1>4. k = n /\ ~(k > limit)
  BY <1>2, <1>3
<1> QED BY <1>1, <1>4

\* A byte of memory is read as it is.
LEMMA SameByte ==
  ASSUME NEW s, NEW t, NEW x \in Address, ~isMemoryDeviceAddress(x), t.byte[x] = s.byte[x]
  PROVE  readBytes(t, x, 1) = readBytes(s, x, 1)
<1>1. x \in Nat /\ x < AddressSpace /\ AddressSpace \in Nat /\ Wrap(x) = x
  BY MemoryAssumption DEF Address, Wrap
<1>2. Touched(x, 1) = {}
  <2>1. SUFFICES ASSUME NEW d \in Touched(x, 1) PROVE FALSE
    OBVIOUS
  <2>2. /\ d \in MemoryDevices
        /\ \/ x <= d.end /\ x + 1 - 1 >= d.start
           \/ x + 1 - 1 >= AddressSpace /\ Wrap(x + 1 - 1) >= d.start
    BY DEF Touched
  <2>3. d.start \in Nat /\ d.end \in Nat
    BY <2>2, MemoryAssumption DEF Address
  <2>4. x \in d.start .. d.end
    BY <1>1, <2>2, <2>3
  <2> QED BY <2>2, <2>4 DEF isMemoryDeviceAddress
<1>3. deviceForAccess(x, 1) = "memory"
  BY <1>2 DEF deviceForAccess
<1>4. \A i \in 1 .. 1 : Wrap(x + i - 1) = x
  BY <1>1
<1>5. ReadableByte(t, x) = ReadableByte(s, x)
  BY DEF ReadableByte
<1>6. [i \in 1 .. 1 |-> ReadableByte(t, Wrap(x + i - 1))]
        = [i \in 1 .. 1 |-> ReadableByte(s, Wrap(x + i - 1))]
  BY <1>4, <1>5
<1> QED BY <1>3, <1>6 DEF readBytes

\* Bytes in one block that are no device's.
SameBytes(s, t, b) == \A x \in Address : BlockOf(x) = b => t.byte[x] = s.byte[x]

\* While its block does not change, an instruction in it remains.
LEMMA InstructionRemains ==
  ASSUME NEW s, NEW t, NEW a \in Address, ~isMemoryDeviceAddress(a), NEW limit \in Nat,
         NEW other \in Nat,
         SameBytes(s, t, BlockOf(a)),
         decodeAt(s, a, limit).length # 0,
         decodeAt(s, a, limit).length <= other,
         BlockOffset(a) + decodeAt(s, a, limit).length <= BLKSIZE
  PROVE  decodeAt(t, a, other) = decodeAt(s, a, limit)
<1> DEFINE i == decodeAt(s, a, limit)
           n == i.length
<1>1. /\ n \in 0 .. limit /\ n # 0 /\ n <= other /\ BlockOffset(a) + n <= BLKSIZE
      /\ EndsAt(s, a, n) /\ ByteAt(s, a, n).result = "ok" /\ i = InstrAt(s, a, n)
  BY DecodedIs
<1> HIDE DEF i, n
<1>2. ASSUME NEW k \in 1 .. n PROVE ByteAt(t, a, k) = ByteAt(s, a, k)
  <2> DEFINE y == a + k - 1
  <2>1. Wrap(y) = y /\ y \in Address /\ BlockOf(y) = BlockOf(a)
    BY <1>1, ByteOfBlock
  <2>2. a <= y
    BY <2>1 DEF Address
  <2>3. ~isMemoryDeviceAddress(y)
    BY <2>1, <2>2, NoDeviceBehind
  <2>4. readBytes(t, y, 1) = readBytes(s, y, 1)
    BY <2>1, <2>3, SameByte DEF SameBytes
  <2> QED BY <2>1, <2>4 DEF ByteAt
<1>3. n \in 1 .. n /\ n \in 1 .. other /\ \A j \in 1 .. n - 1 : j \in 1 .. n
  BY <1>1
<1>4. EndsAt(t, a, n) /\ ByteAt(t, a, n).result = "ok" /\ InstrAt(t, a, n) = InstrAt(s, a, n)
  BY <1>1, <1>2, <1>3 DEF EndsAt, InstrAt
<1>5. decodeAt(t, a, other) = InstrAt(t, a, n)
  BY <1>3, <1>4, IsDecoded
<1> QED BY <1>1, <1>4, <1>5 DEF i

-----------------------------------------------------------------------------
(***************************************************************************)
(* A store tells the blocks it writes to: one whose version has not risen  *)
(* has the bytes it had.                                                   *)
(***************************************************************************)
IsMemory(s) ==
  /\ DOMAIN s = {"byte", "blocks", "version", "register", "result"}
  /\ s.version \in [Block -> Nat]

Advances(s, t) ==
  /\ IsMemory(t)
  /\ \A b \in Block : /\ s.version[b] <= t.version[b]
                      /\ t.version[b] = s.version[b] => SameBytes(s, t, b)

\* Memory that does not change advances.
LEMMA AdvancesItself ==
  ASSUME NEW s, IsMemory(s)
  PROVE  Advances(s, s)
BY DEF Advances, IsMemory, SameBytes

\* Nor does a change of its other fields matter.
LEMMA OtherFields ==
  ASSUME NEW s, IsMemory(s), NEW t, DOMAIN t = DOMAIN s, t.byte = s.byte, t.version = s.version
  PROVE  Advances(s, t)
BY DEF Advances, IsMemory, SameBytes

\* The address of a byte of an access.
LEMMA WrapIsAddress ==
  ASSUME NEW n \in Nat
  PROVE  Wrap(n) \in Address
<1>1. AddressSpace \in Nat /\ AddressSpace > 0
  BY MemoryAssumption DEF Address
<1>2. (n % AddressSpace) \in Nat /\ (n % AddressSpace) < AddressSpace
  BY <1>1, QuotientAndRemainder
<1> QED BY <1>1, <1>2 DEF Wrap, Address

\* Raised versions: never less, and more where a byte was written.
LEMMA RaiseRaises ==
  ASSUME NEW s, IsMemory(s), NEW a \in Address, NEW n \in Nat
  PROVE  /\ Raise(s, a, n) \in [Block -> Nat]
         /\ \A b \in Block : s.version[b] <= Raise(s, a, n)[b]
         /\ \A i \in 1 .. n : LET b == BlockOf(Wrap(a + i - 1))
                              IN  b \in Block /\ s.version[b] < Raise(s, a, n)[b]
<1>1. /\ s.version \in [Block -> Nat] /\ BlockOf(a) \in Block /\ a \in Nat
  BY BlocksInSpace DEF IsMemory, Address
<1>2. CASE BlockOffset(a) + n <= BLKSIZE
  <2>1. Raise(s, a, n) = [s.version EXCEPT ![BlockOf(a)] = @ + 1]
    BY <1>2 DEF Raise
  <2>2. \A i \in 1 .. n : BlockOf(Wrap(a + i - 1)) = BlockOf(a)
    BY <1>2, ByteOfBlock
  <2> DEFINE c == BlockOf(a)
             v == s.version
  <2>3. c \in Block /\ v \in [Block -> Nat] /\ Raise(s, a, n) = [v EXCEPT ![c] = @ + 1]
    BY <1>1, <2>1
  <2>4. \A i \in 1 .. n : BlockOf(Wrap(a + i - 1)) = c
    BY <2>2
  <2> HIDE DEF c, v
  <2>5. /\ Raise(s, a, n) \in [Block -> Nat] /\ v[c] \in Nat /\ Raise(s, a, n)[c] = v[c] + 1
        /\ \A b \in Block : b # c => Raise(s, a, n)[b] = v[b]
    BY <2>3
  <2>6. v[c] < Raise(s, a, n)[c] /\ \A b \in Block : v[b] <= Raise(s, a, n)[b]
    <3>1. \A b \in Block : v[b] \in Nat
      BY <2>3
    <3> QED BY <2>5, <3>1
  <2> QED BY <2>3, <2>4, <2>5, <2>6 DEF v
<1>3. CASE ~(BlockOffset(a) + n <= BLKSIZE)
  <2> DEFINE W(b) == {i \in 0 .. n - 1 : BlockOf(Wrap(a + i)) = b}
  <2>1. Raise(s, a, n) = [b \in Block |-> s.version[b] + Cardinality(W(b))]
    BY <1>3 DEF Raise
  <2>2. \A b \in Block : IsFiniteSet(W(b)) /\ Cardinality(W(b)) \in Nat
    <3>1. IsFiniteSet(0 .. n - 1)
      BY FS_Interval
    <3>2. \A b \in Block : W(b) \subseteq 0 .. n - 1
      OBVIOUS
    <3> QED BY <3>1, <3>2, FS_Subset, FS_CardinalityType
  <2>3. ASSUME NEW i \in 1 .. n
        PROVE  LET b == BlockOf(Wrap(a + i - 1))
               IN  b \in Block /\ Cardinality(W(b)) # 0
    <3> DEFINE b == BlockOf(Wrap(a + i - 1))
    <3>1. a + i - 1 \in Nat /\ a + i - 1 = a + (i - 1) /\ i - 1 \in 0 .. n - 1
      BY <1>1
    <3>2. b \in Block
      BY <3>1, WrapIsAddress, BlocksInSpace
    <3>3. i - 1 \in W(b)
      BY <3>1
    <3> HIDE DEF b, W
    <3>4. Cardinality(W(b)) # 0
      BY <2>2, <3>2, <3>3, FS_EmptySet
    <3> QED BY <3>2, <3>4 DEF b
  <2> HIDE DEF W
  <2>4. \A b \in Block : Raise(s, a, n)[b] = s.version[b] + Cardinality(W(b))
    BY <2>1
  <2>5. Raise(s, a, n) \in [Block -> Nat]
    BY <1>1, <2>1, <2>2
  <2>6. \A b \in Block : s.version[b] \in Nat /\ Cardinality(W(b)) \in Nat
    BY <1>1, <2>2
  <2>7. ASSUME NEW i \in 1 .. n
        PROVE  LET b == BlockOf(Wrap(a + i - 1))
               IN  b \in Block /\ s.version[b] < Raise(s, a, n)[b]
    <3> DEFINE b == BlockOf(Wrap(a + i - 1))
    <3>1. b \in Block /\ Cardinality(W(b)) # 0
      BY <2>3
    <3> HIDE DEF b
    <3>2. s.version[b] < Raise(s, a, n)[b]
      BY <2>4, <2>6, <3>1
    <3> QED BY <3>1, <3>2 DEF b
  <2>8. \A b \in Block : s.version[b] <= Raise(s, a, n)[b]
    BY <2>4, <2>6
  <2> QED BY <2>5, <2>7, <2>8
<1> QED BY <1>2, <1>3

\* Bytes that are put.
LEMMA PutAdvances ==
  ASSUME NEW s, IsMemory(s), NEW a \in Address, NEW bytes \in Seq(Byte)
  PROVE  Advances(s, Put(s, a, bytes))
<1> DEFINE t == Put(s, a, bytes)
           n == Len(bytes)
           written == {Wrap(a + i - 1) : i \in DOMAIN bytes}
<1>1. n \in Nat /\ DOMAIN bytes = 1 .. n
  BY LenProperties
<1>2. DOMAIN t = DOMAIN s /\ t.version = Raise(s, a, n)
  BY DEF Put, IsMemory
<1>3. \A x \in Address : x \notin written => t.byte[x] = s.byte[x]
  BY DEF Put, IsMemory
<1>4. /\ Raise(s, a, n) \in [Block -> Nat]
      /\ \A b \in Block : s.version[b] <= Raise(s, a, n)[b]
      /\ \A i \in 1 .. n : LET b == BlockOf(Wrap(a + i - 1))
                           IN  b \in Block /\ s.version[b] < Raise(s, a, n)[b]
  BY <1>1, RaiseRaises
<1> HIDE DEF t, n
<1>5. IsMemory(t)
  BY <1>2, <1>4 DEF IsMemory
<1>6. ASSUME NEW b \in Block, t.version[b] = s.version[b] PROVE SameBytes(s, t, b)
  <2>1. SUFFICES ASSUME NEW x \in Address, BlockOf(x) = b PROVE t.byte[x] = s.byte[x]
    BY DEF SameBytes
  <2>2. x \notin written
    <3>1. SUFFICES ASSUME NEW i \in 1 .. n, x = Wrap(a + i - 1) PROVE FALSE
      BY <1>1
    <3>2. s.version[b] < t.version[b]
      BY <1>2, <1>4, <2>1, <3>1
    <3>3. s.version[b] \in Nat
      BY DEF IsMemory
    <3> QED BY <1>6, <3>2, <3>3
  <2> QED BY <1>3, <2>2
<1>7. \A b \in Block : s.version[b] <= t.version[b]
  BY <1>2, <1>4
<1> QED BY <1>5, <1>6, <1>7 DEF Advances, t

\* Whatever takes the store.
LEMMA StoreAdvances ==
  ASSUME NEW s, IsMemory(s), NEW a \in Address, NEW bytes \in Seq(Byte)
  PROVE  Advances(s, storeBytes(s, a, bytes))
<1>1. ASSUME NEW v PROVE Advances(s, [s EXCEPT !.result = v])
  <2> DEFINE t == [s EXCEPT !.result = v]
  <2>1. DOMAIN t = DOMAIN s /\ t.byte = s.byte /\ t.version = s.version
    BY DEF IsMemory
  <2> HIDE DEF t
  <2>2. Advances(s, t)
    BY <2>1, OtherFields
  <2> QED BY <2>2 DEF t
<1>2. Advances(s, PutDevice(s, a, bytes))
  <2> DEFINE d == CHOOSE d \in MemoryDevices : a \in d.start .. d.end
             r == [x \in Address |-> IF x \in a .. a + Len(bytes) - 1 THEN bytes[x - a + 1]
                                     ELSE s.register[x]]
             t == [s EXCEPT !.register = r, !.result = "ok"]
  <2>1. PutDevice(s, a, bytes) = IF ~d.write THEN [s EXCEPT !.result = "DEVICE_ACCESS_UNSUPPORTED"]
                                 ELSE t
    BY DEF PutDevice
  <2> HIDE DEF d, r
  <2>2. DOMAIN t = DOMAIN s /\ t.byte = s.byte /\ t.version = s.version
    BY DEF IsMemory
  <2> HIDE DEF t
  <2>3. Advances(s, t)
    BY <2>2, OtherFields
  <2> QED BY <1>1, <2>1, <2>3
<1>3. Advances(s, Put(s, a, bytes))
  BY PutAdvances
<1> DEFINE access == deviceForAccess(a, Len(bytes))
<1>4. \/ storeBytes(s, a, bytes) = [s EXCEPT !.result = "ok"]
      \/ storeBytes(s, a, bytes) = [s EXCEPT !.result = "INVALID_DEVICE_ACCESS"]
      \/ storeBytes(s, a, bytes) = PutDevice(s, a, bytes)
      \/ storeBytes(s, a, bytes) = Put(s, a, bytes)
  <2> HIDE DEF access
  <2>1. storeBytes(s, a, bytes) =
          CASE a \in Intercepted -> [s EXCEPT !.result = "ok"]
            [] a \notin Intercepted /\ access = "crosses" ->
                 [s EXCEPT !.result = "INVALID_DEVICE_ACCESS"]
            [] a \notin Intercepted /\ access = "device" -> PutDevice(s, a, bytes)
            [] OTHER -> Put(s, a, bytes)
    BY DEF storeBytes, access
  <2>2. CASE a \in Intercepted
    BY <2>1, <2>2
  <2>3. CASE a \notin Intercepted /\ access = "crosses"
    BY <2>1, <2>3
  <2>4. CASE a \notin Intercepted /\ access = "device"
    BY <2>1, <2>4
  <2>5. CASE a \notin Intercepted /\ access # "crosses" /\ access # "device"
    BY <2>1, <2>5
  <2> QED BY <2>2, <2>3, <2>4, <2>5
<1> QED BY <1>1, <1>2, <1>3, <1>4

-----------------------------------------------------------------------------
(***************************************************************************)
(* Decoded runs: each instruction of a run is the one at its position, and *)
(* lies in the block of the first.                                         *)
(***************************************************************************)
RunFrom(s, a, run, x) ==
  /\ Len(run) \in Nat /\ (run # <<>> => Len(run) # 0)
  /\ x \in [1 .. Len(run) + 1 -> Nat] /\ x[1] = a
  /\ \A i \in 1 .. Len(run) :
       /\ x[i] \in Address /\ BlockOf(x[i]) = BlockOf(a) /\ a <= x[i]
       /\ run[i] = Decoded(s, x[i]) /\ run[i].length # 0
       /\ BlockOffset(x[i]) + run[i].length <= BLKSIZE
       /\ x[i + 1] = x[i] + run[i].length

IsRun(s, a, run) == \E x : RunFrom(s, a, run, x)

\* The instruction at an address, if any, has a length.
LEMMA LengthOfDecoded ==
  ASSUME NEW s, NEW a
  PROVE  Decoded(s, a).length \in Nat /\ Decoded(s, a).length <= AddressSpace
<1>1. AddressSpace \in Nat
  BY MemoryAssumption
<1>2. Decoded(s, a).length \in 0 .. AddressSpace
  BY <1>1, DecodedIs DEF Decoded
<1> QED BY <1>1, <1>2

\* An instruction of a block that has not changed.
LEMMA DecodedRemains ==
  ASSUME NEW s, NEW t, NEW a \in Address, ~isMemoryDeviceAddress(a),
         SameBytes(s, t, BlockOf(a)), Decoded(s, a).length # 0,
         BlockOffset(a) + Decoded(s, a).length <= BLKSIZE
  PROVE  Decoded(t, a) = Decoded(s, a)
<1>1. AddressSpace \in Nat
  BY MemoryAssumption
<1>2. decodeAt(s, a, AddressSpace).length <= AddressSpace
  BY LengthOfDecoded DEF Decoded
<1> QED BY <1>1, <1>2, InstructionRemains DEF Decoded

\* A run of a block that has not changed.
LEMMA RunRemains ==
  ASSUME NEW s, NEW t, NEW a \in Address, ~isMemoryDeviceAddress(a),
         SameBytes(s, t, BlockOf(a)), NEW run, NEW x, RunFrom(s, a, run, x)
  PROVE  RunFrom(t, a, run, x)
<1>1. ASSUME NEW i \in 1 .. Len(run) PROVE Decoded(t, x[i]) = Decoded(s, x[i])
  <2>1. /\ x[i] \in Address /\ BlockOf(x[i]) = BlockOf(a) /\ a <= x[i]
        /\ run[i] = Decoded(s, x[i]) /\ run[i].length # 0
        /\ BlockOffset(x[i]) + run[i].length <= BLKSIZE
    BY DEF RunFrom
  <2>2. ~isMemoryDeviceAddress(x[i])
    BY <2>1, NoDeviceBehind
  <2> QED BY <2>1, <2>2, DecodedRemains
<1> QED BY <1>1 DEF RunFrom

\* What decodeAt finds before the end of the block is the instruction there.
LEMMA InBlockIsDecoded ==
  ASSUME NEW s, NEW a \in Address, InBlock(s, a).length # 0
  PROVE  /\ InBlock(s, a) = Decoded(s, a)
         /\ BlockOffset(a) + InBlock(s, a).length <= BLKSIZE
<1> DEFINE limit == BLKSIZE - BlockOffset(a)
           n == InBlock(s, a).length
<1>1. /\ BLKSIZE \in Nat /\ AddressSpace \in Nat /\ BLKSIZE < AddressSpace
      /\ BlockOffset(a) \in Nat /\ BlockOffset(a) < BLKSIZE
  <2>1. a \in Nat
    BY DEF Address
  <2>2. BLKSIZE \in Nat /\ BlockOffset(a) \in Nat /\ BlockOffset(a) < BLKSIZE
    BY <2>1, BlockAndOffset
  <2> QED BY <2>2, MemoryAssumption, CodeAssumption
<1>2. limit \in Nat /\ limit <= BLKSIZE
  BY <1>1
<1> HIDE DEF limit
<1>3. /\ n \in 0 .. limit /\ n # 0 /\ EndsAt(s, a, n) /\ ByteAt(s, a, n).result = "ok"
      /\ InBlock(s, a) = InstrAt(s, a, n)
  <2>1. InBlock(s, a) = decodeAt(s, a, limit)
    BY DEF InBlock, limit
  <2> QED BY <1>2, <2>1, DecodedIs
<1> HIDE DEF n
<1>4. n \in 1 .. AddressSpace
  BY <1>1, <1>2, <1>3
<1>5. Decoded(s, a) = InstrAt(s, a, n)
  BY <1>1, <1>3, <1>4, IsDecoded DEF Decoded
<1>6. BlockOffset(a) + n <= BLKSIZE
  BY <1>1, <1>3 DEF limit
<1> QED BY <1>3, <1>5, <1>6 DEF n

(***************************************************************************)
(* What codeBlock has decoded so far, and where it goes on.                *)
(***************************************************************************)
Instructions(s) == {InBlock(s, y) : y \in Nat}

SoFar(s, a) ==
  {b \in [run : Seq(Instructions(s)), next : Nat] :
     \E x : RunFrom(s, a, b.run, x) /\ x[Len(b.run) + 1] = b.next}

\* Nothing at first.
LEMMA NothingSoFar ==
  ASSUME NEW s, NEW a \in Address
  PROVE  [run |-> <<>>, next |-> a] \in SoFar(s, a)
<1> DEFINE x == [i \in 1 .. 1 |-> a]
<1>1. Len(<<>>) = 0 /\ <<>> \in Seq(Instructions(s)) /\ a \in Nat
  BY EmptySeq DEF Address
<1>2. x \in [1 .. 1 -> Nat] /\ x[1] = a
  BY <1>1
<1> HIDE DEF x
<1>3. RunFrom(s, a, <<>>, x) /\ x[Len(<<>>) + 1] = a
  BY <1>1, <1>2 DEF RunFrom
<1> QED BY <1>1, <1>3 DEF SoFar

\* Then one more instruction of the block.
LEMMA ExtendedIsRun ==
  ASSUME NEW s, NEW a \in Address, NEW b \in SoFar(s, a)
  PROVE  Extended(s, b) \in SoFar(s, a)
<1> DEFINE instr == InBlock(s, b.next)
           n == Len(b.run)
           c == [run |-> Append(b.run, instr), next |-> b.next + instr.length]
<1>1. /\ b.run \in Seq(Instructions(s)) /\ b.next \in Nat /\ n \in Nat
      /\ DOMAIN b.run = 1 .. n
  BY LenProperties DEF SoFar
<1>2. PICK x : RunFrom(s, a, b.run, x) /\ x[n + 1] = b.next
  BY DEF SoFar
<1>3. SUFFICES ASSUME /\ b.run # <<>> => BlockOffset(b.next) # 0
                      /\ instr.length # 0
               PROVE  c \in SoFar(s, a)
  BY DEF Extended
<1>4. /\ x \in [1 .. n + 1 -> Nat] /\ x[1] = a
      /\ \A i \in 1 .. n :
           /\ x[i] \in Address /\ BlockOf(x[i]) = BlockOf(a) /\ a <= x[i]
           /\ b.run[i] = Decoded(s, x[i]) /\ b.run[i].length # 0
           /\ BlockOffset(x[i]) + b.run[i].length <= BLKSIZE
           /\ x[i + 1] = x[i] + b.run[i].length
  BY <1>2 DEF RunFrom
<1>5. b.next \in Address /\ BlockOf(b.next) = BlockOf(a) /\ a <= b.next
  <2>1. CASE n = 0
    <3>1. b.next = a
      BY <1>2, <1>4, <2>1
    <3> QED BY <3>1 DEF Address
  <2>2. CASE n # 0
    <3> DEFINE y == x[n]
               m == b.run[n].length
    <3>1. /\ n \in 1 .. n /\ y \in Address /\ BlockOf(y) = BlockOf(a) /\ a <= y
          /\ b.run[n] = Decoded(s, y)
          /\ m # 0 /\ BlockOffset(y) + m <= BLKSIZE /\ b.next = y + m
      BY <1>1, <1>2, <1>4, <2>2
    <3>2. m \in Nat
      BY <3>1, LengthOfDecoded
    <3>3. b.run # <<>>
      BY <1>1, <2>2, EmptySeq
    <3> HIDE DEF y, m
    <3>4. /\ y \in Nat /\ a \in Nat /\ BLKSIZE \in Nat /\ BLKSIZE > 0 /\ BlockOffset(y) \in Nat
          /\ BlockOf(y) \in Nat /\ BLKSIZE * BlockOf(y) \in Nat
          /\ y = (BLKSIZE * BlockOf(y)) + BlockOffset(y)
      BY <3>1, BlockAndOffset DEF Address
    <3>5. BlockOffset(y) + m # BLKSIZE
      <4>1. SUFFICES ASSUME BlockOffset(y) + m = BLKSIZE PROVE FALSE
        OBVIOUS
      <4> DEFINE p == BlockOf(y)
      <4>2. p \in Nat /\ BLKSIZE * p \in Nat /\ b.next = (BLKSIZE * p) + BLKSIZE
        <5> DEFINE K == BLKSIZE * p
                   o == BlockOffset(y)
        <5>1. /\ p \in Nat /\ K \in Nat /\ o \in Nat /\ BLKSIZE \in Nat
              /\ b.next = y + m /\ y = K + o /\ o + m = BLKSIZE
          BY <3>1, <3>4, <4>1
        <5> HIDE DEF p, K, o
        <5>2. b.next = K + BLKSIZE
          BY <3>2, <5>1
        <5> QED BY <5>1, <5>2 DEF K
      <4> HIDE DEF p
      <4>3. b.next = (BLKSIZE * (p + 1)) + 0
        <5>1. BLKSIZE * (p + 1) = (BLKSIZE * p) + BLKSIZE
          BY <3>4, <4>2, SMT
        <5> QED BY <3>4, <4>2, <5>1
      <4>4. BlockOffset(b.next) = 0
        <5>1. p + 1 \in Nat /\ 0 \in Nat /\ 0 < BLKSIZE
          BY <3>4, <4>2
        <5> QED BY <1>1, <3>4, <4>3, <5>1, RemainderIs DEF BlockOffset
      <4> QED BY <1>3, <3>3, <4>4
    <3>6. BlockOffset(y) + m < BLKSIZE
      BY <3>1, <3>2, <3>4, <3>5
    <3>7. BlockOf(b.next) = BlockOf(a)
      BY <3>1, <3>2, <3>4, <3>6, SameBlock
    <3>8. b.next < AddressSpace
      <4>1. (BLKSIZE * BlockOf(y)) + BLKSIZE <= AddressSpace
        BY <3>1, BlocksInSpace
      <4> DEFINE K == BLKSIZE * BlockOf(y)
                 o == BlockOffset(y)
      <4>2. /\ K \in Nat /\ o \in Nat /\ K + BLKSIZE <= AddressSpace /\ y = K + o
            /\ o + m < BLKSIZE /\ BLKSIZE \in Nat /\ AddressSpace \in Nat
        BY <3>4, <3>6, <4>1, MemoryAssumption
      <4> HIDE DEF K, o
      <4> QED BY <3>1, <3>2, <4>2
    <3>9. b.next \in Address
      BY <1>1, <3>8, MemoryAssumption DEF Address
    <3> QED BY <3>1, <3>2, <3>4, <3>7, <3>9
  <2> QED BY <2>1, <2>2
<1>6. /\ instr = Decoded(s, b.next) /\ BlockOffset(b.next) + instr.length <= BLKSIZE
      /\ instr.length \in Nat /\ instr \in Instructions(s)
  BY <1>1, <1>3, <1>5, InBlockIsDecoded, LengthOfDecoded DEF Instructions
<1> DEFINE z == [i \in 1 .. n + 2 |-> IF i = n + 2 THEN b.next + instr.length ELSE x[i]]
<1> HIDE DEF instr
<1>7. /\ c.run = Append(b.run, instr) /\ c.next = b.next + instr.length
      /\ c \in [run : Seq(Instructions(s)), next : Nat]
  <2>1. Append(b.run, instr) \in Seq(Instructions(s))
    BY <1>1, <1>6, AppendProperties
  <2> QED BY <1>1, <1>6, <2>1
<1>8. /\ Len(c.run) = n + 1 /\ c.run[n + 1] = instr
      /\ \A i \in 1 .. n : c.run[i] = b.run[i]
  BY <1>1, <1>6, <1>7, AppendProperties
<1> HIDE DEF c, n
<1>9. /\ z \in [1 .. (n + 1) + 1 -> Nat] /\ z[(n + 1) + 1] = c.next
      /\ \A i \in 1 .. n + 1 : z[i] = x[i]
  <2>1. \A i \in 1 .. n + 2 : i # n + 2 => i \in 1 .. n + 1
    BY <1>1
  <2>2. b.next + instr.length \in Nat
    BY <1>1, <1>6
  <2> QED BY <1>1, <1>4, <1>7, <2>1, <2>2
<1> HIDE DEF z
<1>10. ASSUME NEW i \in 1 .. n + 1
       PROVE  /\ z[i] \in Address /\ BlockOf(z[i]) = BlockOf(a) /\ a <= z[i]
              /\ c.run[i] = Decoded(s, z[i]) /\ c.run[i].length # 0
              /\ BlockOffset(z[i]) + c.run[i].length <= BLKSIZE
              /\ z[i + 1] = z[i] + c.run[i].length
  <2>1. CASE i = n + 1
    <3>1. z[i] = b.next /\ z[i + 1] = b.next + instr.length /\ c.run[i] = instr
      BY <1>1, <1>2, <1>7, <1>8, <1>9, <2>1
    <3> QED BY <1>3, <1>5, <1>6, <3>1 DEF instr
  <2>2. CASE i # n + 1
    <3>1. i \in 1 .. n /\ i + 1 \in 1 .. n + 1
      BY <1>1, <2>2
    <3>2. z[i] = x[i] /\ z[i + 1] = x[i + 1] /\ c.run[i] = b.run[i]
      BY <1>8, <1>9, <3>1
    <3> QED BY <1>4, <3>1, <3>2
  <2> QED BY <2>1, <2>2
<1>11. z[1] = a
  <2>1. 1 \in 1 .. n + 1
    BY <1>1
  <2> QED BY <1>4, <1>9, <2>1
<1>12. RunFrom(s, a, c.run, z) /\ z[Len(c.run) + 1] = c.next
  <2>1. Len(c.run) = n + 1 /\ n + 1 \in Nat /\ n + 1 # 0
    BY <1>1, <1>8
  <2> QED BY <1>9, <1>10, <1>11, <2>1 DEF RunFrom
<1> QED BY <1>7, <1>12 DEF SoFar

\* So a decoded run is a run.
LEMMA RunAtIsRun ==
  ASSUME NEW s, NEW a \in Address
  PROVE  IsRun(s, a, RunAt(s, a))
<1> DEFINE S == SoFar(s, a)
           c == [run |-> <<>>, next |-> a]
           g == [n \in 1 .. MaxRun |-> [b \in S |-> Extended(s, b)]]
           Is(f) == f = [n \in 0 .. MaxRun |-> IF n = 0 THEN c ELSE Extended(s, f[n - 1])]
           upTo == CHOOSE f : Is(f)
<1>1. MaxRun \in Nat
  BY CodeAssumption
<1>2. /\ c \in S /\ g \in [1 .. MaxRun -> [S -> S]]
      /\ \A b \in S : Extended(s, b) \in S /\ \A n \in 1 .. MaxRun : g[n][b] = Extended(s, b)
  <2>1. c \in S /\ \A b \in S : Extended(s, b) \in S
    BY NothingSoFar, ExtendedIsRun
  <2> QED BY <2>1
<1>3. \E f : Is(f)
  <2> HIDE DEF S, g, c
  <2>1. PICK f \in [0 .. MaxRun -> S] :
               \A n \in 0 .. MaxRun : f[n] = IF n = 0 THEN c ELSE g[n][f[n - 1]]
    <3> HIDE DEF Is
    <3>1. \E f \in [0 .. MaxRun -> S] : StepsFrom(f, c, g, MaxRun)
      BY <1>1, <1>2, StepByStep
    <3> QED BY <3>1 DEF StepsFrom
  <2>2. \A n \in 0 .. MaxRun : n # 0 => n - 1 \in 0 .. MaxRun /\ n \in 1 .. MaxRun
    BY <1>1
  <2>3. \A n \in 0 .. MaxRun : n # 0 => g[n][f[n - 1]] = Extended(s, f[n - 1])
    BY <1>2, <2>1, <2>2
  <2>4. \A n \in 0 .. MaxRun : f[n] = IF n = 0 THEN c ELSE Extended(s, f[n - 1])
    BY <2>1, <2>3
  <2>5. Is(f)
    <3>1. f = [n \in 0 .. MaxRun |-> f[n]]
      BY <2>1
    <3> QED BY <2>4, <3>1
  <2> QED BY <2>5
<1>4. Is(upTo)
  <2> HIDE DEF Is
  <2> QED BY <1>3
<1>5. RunAt(s, a) = upTo[MaxRun].run
  BY DEF RunAt
<1> HIDE DEF upTo, S, c, g
<1> DEFINE T == {n \in 0 .. MaxRun : upTo[n] \in S}
<1>6. 0 \in T
  <2>1. 0 \in 0 .. MaxRun
    BY <1>1
  <2>2. upTo[0] = c
    BY <1>4, <2>1
  <2> QED BY <1>2, <2>1, <2>2
<1>7. ASSUME NEW n \in 1 .. MaxRun, n - 1 \in T PROVE n \in T
  <2>1. n \in 0 .. MaxRun /\ n # 0
    BY <1>1
  <2>2. upTo[n] = Extended(s, upTo[n - 1])
    BY <1>4, <2>1
  <2> QED BY <1>2, <1>7, <2>1, <2>2
<1>8. MaxRun \in T
  <2> HIDE DEF T
  <2>1. 0 .. MaxRun \subseteq T
    BY <1>1, <1>6, <1>7, UpTo
  <2> QED BY <1>1, <2>1
<1>9. upTo[MaxRun] \in SoFar(s, a)
  BY <1>8 DEF S
<1> QED BY <1>5, <1>9 DEF SoFar, IsRun

-----------------------------------------------------------------------------
(***************************************************************************)
(* The invariant: what a slot of either cache holds is what memory holds,  *)
(* or its version is behind that of its block and it is not used; and the  *)
(* run that is being executed goes on only while it is not behind.         *)
(***************************************************************************)
InBounds(a, instr) == BlockOffset(a) + instr.length <= BLKSIZE

SlotHolds(s, c) ==
  c.instr.length # 0 =>
    /\ c.iptr \in Address /\ ~isMemoryDeviceAddress(c.iptr)
    /\ c.version \in Nat /\ c.version <= s.version[BlockOf(c.iptr)]
    /\ c.version = s.version[BlockOf(c.iptr)] =>
         c.instr = Decoded(s, c.iptr) /\ InBounds(c.iptr, c.instr)

BlockHolds(s, c) ==
  c.run # <<>> =>
    /\ c.iptr \in Address /\ ~isMemoryDeviceAddress(c.iptr)
    /\ c.version \in Nat /\ c.version <= s.version[BlockOf(c.iptr)]
    /\ c.version = s.version[BlockOf(c.iptr)] => IsRun(s, c.iptr, c.run)

Executing(s, c, a, i) ==
  /\ c.run # <<>> /\ c.version = s.version[BlockOf(c.iptr)]
  /\ \E x : RunFrom(s, c.iptr, c.run, x) /\ i \in 1 .. Len(c.run) /\ x[i] = a

DecodeSlot == 0 .. DecodeSlots - 1
BlockSlot == 0 .. BlockSlots - 1

CodeInv ==
  /\ IsMemory(memory)
  /\ iptr \in Address
  /\ DOMAIN decodeCache = DecodeSlot /\ DOMAIN codeBlocks = BlockSlot
  /\ \A i \in BlockSlot : DOMAIN codeBlocks[i] = {"iptr", "version", "run"}
  /\ at \in [slot : BlockSlot, index : Nat]
  /\ \A i \in DecodeSlot : SlotHolds(memory, decodeCache[i])
  /\ \A i \in BlockSlot : BlockHolds(memory, codeBlocks[i])
  /\ state = "pair" => next = Decoded(memory, iptr)
  /\ state = "block" => Executing(memory, codeBlocks[at.slot], iptr, at.index)

\* Each version of a block is that of its bytes.
LEMMA AdvancesInBlock ==
  ASSUME NEW s, NEW t, IsMemory(s), Advances(s, t), NEW a \in Address
  PROVE  /\ IsMemory(t) /\ BlockOf(a) \in Block
         /\ s.version[BlockOf(a)] \in Nat /\ t.version[BlockOf(a)] \in Nat
         /\ s.version[BlockOf(a)] <= t.version[BlockOf(a)]
         /\ t.version[BlockOf(a)] = s.version[BlockOf(a)] => SameBytes(s, t, BlockOf(a))
<1>1. BlockOf(a) \in Block
  BY BlocksInSpace
<1> QED BY <1>1 DEF Advances, IsMemory

\* A slot of the cache of instructions holds as memory advances.
LEMMA SlotStays ==
  ASSUME NEW s, NEW t, IsMemory(s), Advances(s, t), NEW c, SlotHolds(s, c)
  PROVE  SlotHolds(t, c)
<1>1. SUFFICES ASSUME c.instr.length # 0
               PROVE  /\ c.iptr \in Address /\ ~isMemoryDeviceAddress(c.iptr)
                      /\ c.version \in Nat /\ c.version <= t.version[BlockOf(c.iptr)]
                      /\ c.version = t.version[BlockOf(c.iptr)] =>
                           c.instr = Decoded(t, c.iptr) /\ InBounds(c.iptr, c.instr)
  BY DEF SlotHolds
<1> DEFINE a == c.iptr
           v == s.version[BlockOf(a)]
           w == t.version[BlockOf(a)]
<1>2. /\ a \in Address /\ ~isMemoryDeviceAddress(a) /\ c.version \in Nat /\ c.version <= v
      /\ c.version = v => c.instr = Decoded(s, a) /\ InBounds(a, c.instr)
  BY <1>1 DEF SlotHolds
<1>3. v \in Nat /\ w \in Nat /\ v <= w /\ (w = v => SameBytes(s, t, BlockOf(a)))
  BY <1>2, AdvancesInBlock
<1> HIDE DEF a, v, w
<1>4. ASSUME c.version = w PROVE c.instr = Decoded(t, a) /\ InBounds(a, c.instr)
  <2>1. c.version = v /\ w = v
    BY <1>2, <1>3, <1>4
  <2>2. /\ c.instr = Decoded(s, a) /\ BlockOffset(a) + c.instr.length <= BLKSIZE
        /\ SameBytes(s, t, BlockOf(a))
    BY <1>2, <1>3, <2>1 DEF InBounds
  <2>3. Decoded(t, a) = Decoded(s, a)
    BY <1>1, <1>2, <2>2, DecodedRemains
  <2> QED BY <2>2, <2>3 DEF InBounds
<1>5. c.version <= w
  BY <1>2, <1>3
<1> QED BY <1>2, <1>4, <1>5 DEF a, v, w

\* And so does a slot of the cache of runs.
LEMMA BlockStays ==
  ASSUME NEW s, NEW t, IsMemory(s), Advances(s, t), NEW c, BlockHolds(s, c)
  PROVE  BlockHolds(t, c)
<1>1. SUFFICES ASSUME c.run # <<>>
               PROVE  /\ c.iptr \in Address /\ ~isMemoryDeviceAddress(c.iptr)
                      /\ c.version \in Nat /\ c.version <= t.version[BlockOf(c.iptr)]
                      /\ c.version = t.version[BlockOf(c.iptr)] => IsRun(t, c.iptr, c.run)
  BY DEF BlockHolds
<1> DEFINE a == c.iptr
           v == s.version[BlockOf(a)]
           w == t.version[BlockOf(a)]
<1>2. /\ a \in Address /\ ~isMemoryDeviceAddress(a) /\ c.version \in Nat /\ c.version <= v
      /\ c.version = v => IsRun(s, a, c.run)
  BY <1>1 DEF BlockHolds
<1>3. v \in Nat /\ w \in Nat /\ v <= w /\ (w = v => SameBytes(s, t, BlockOf(a)))
  BY <1>2, AdvancesInBlock
<1> HIDE DEF a, v, w
<1>4. ASSUME c.version = w PROVE IsRun(t, a, c.run)
  <2>1. c.version = v /\ w = v
    BY <1>2, <1>3, <1>4
  <2>2. PICK x : RunFrom(s, a, c.run, x)
    BY <1>2, <2>1 DEF IsRun
  <2>3. RunFrom(t, a, c.run, x)
    BY <1>2, <1>3, <2>1, <2>2, RunRemains
  <2> QED BY <2>3 DEF IsRun
<1>5. c.version <= w
  BY <1>2, <1>3
<1> QED BY <1>2, <1>4, <1>5 DEF a, v, w

\* What code and devices do to memory advances it.
LEMMA EffectAdvances ==
  ASSUME IsMemory(memory),
         \/ memory' = memory
         \/ \E w \in Writes : memory' = storeBytes(memory, w.at, w.bytes)
  PROVE  Advances(memory, memory')
<1>1. CASE memory' = memory
  BY <1>1, AdvancesItself
<1>2. CASE \E w \in Writes : memory' = storeBytes(memory, w.at, w.bytes)
  <2>1. PICK w \in Writes : memory' = storeBytes(memory, w.at, w.bytes)
    BY <1>2
  <2>2. w.at \in Address /\ w.bytes \in Seq(Byte)
    BY CodeAssumption
  <2> QED BY <2>1, <2>2, StoreAdvances
<1> QED BY <1>1, <1>2

\* An instruction that may be cached lies in one block.
LEMMA CacheableInBounds ==
  ASSUME NEW a \in Address, NEW instr, instr.length \in Nat, instr.length # 0,
         Cacheable(instr, a)
  PROVE  InBounds(a, instr)
<1> DEFINE n == instr.length
           b == BlockOf(a)
           K == BLKSIZE * b
           o == BlockOffset(a)
           y == Wrap(a + n - 1)
           p == BlockOffset(y)
           q == AddressSpace \div BLKSIZE
<1>1. /\ n \in Nat /\ n # 0 /\ n <= MaxLength /\ BlockOf(y) = b
  BY DEF Cacheable
<1>2. /\ BLKSIZE \in Nat /\ BLKSIZE > 0 /\ AddressSpace \in Nat /\ MaxLength \in Nat
      /\ MaxLength <= BLKSIZE /\ BLKSIZE < AddressSpace /\ AddressSpace % BLKSIZE = 0
  BY MemoryAssumption, CodeAssumption
<1>3. n <= BLKSIZE
  BY <1>1, <1>2
<1>4. a \in Nat /\ a < AddressSpace /\ a + n - 1 \in Nat
  BY <1>1, <1>2 DEF Address
<1>5. K \in Nat /\ o \in Nat /\ o < BLKSIZE /\ a = K + o
  BY <1>4, BlockAndOffset
<1>6. y \in Nat /\ p \in Nat /\ p < BLKSIZE /\ y = K + p
  <2>1. y \in Nat
    BY <1>4, WrapIsAddress DEF Address
  <2> HIDE DEF y
  <2>2. p \in Nat /\ p < BLKSIZE /\ y = (BLKSIZE * BlockOf(y)) + p
    BY <2>1, BlockAndOffset
  <2> QED BY <1>1, <2>1, <2>2
<1>7. AddressSpace >= BLKSIZE + BLKSIZE
  <2>1. q \in Nat /\ AddressSpace = BLKSIZE * q
    BY <1>2, QuotientAndRemainder
  <2> HIDE DEF q
  <2>2. BLKSIZE * 1 = BLKSIZE
    BY <1>2
  <2>3. (BLKSIZE * 1) + BLKSIZE <= BLKSIZE * q
    BY <1>2, <2>1, <2>2, MultiplesApart
  <2> QED BY <2>1, <2>2, <2>3
<1>8. y = a + n - 1 \/ y = a + n - 1 - AddressSpace
  <2>1. CASE a + n - 1 < AddressSpace
    BY <1>2, <1>4, <2>1 DEF Wrap
  <2>2. CASE ~(a + n - 1 < AddressSpace)
    <3> DEFINE r == a + n - 1 - AddressSpace
    <3>1. r \in Nat /\ r < AddressSpace /\ a + n - 1 = (AddressSpace * 1) + r
      BY <1>1, <1>2, <1>3, <1>4, <2>2
    <3> HIDE DEF r
    <3>2. ((a + n - 1) % AddressSpace) = r
      <4>1. AddressSpace \in Nat /\ AddressSpace > 0 /\ 1 \in Nat /\ a + n - 1 \in Nat
        BY <1>2, <1>4
      <4> HIDE DEF n
      <4> QED BY <3>1, <4>1, RemainderIs
    <3> QED BY <3>2 DEF Wrap, r
  <2> QED BY <2>1, <2>2
<1> HIDE DEF n, b, K, o, y, p, q
<1>9. o + n <= BLKSIZE
  BY <1>1, <1>2, <1>3, <1>4, <1>5, <1>6, <1>7, <1>8
<1> QED BY <1>9 DEF InBounds, o, n

\* What decodeNextInstr gives is what memory holds, and it caches nothing else.
LEMMA DecodeNextHolds ==
  ASSUME NEW s, IsMemory(s), NEW a \in Address, NEW then,
         DOMAIN decodeCache = DecodeSlot,
         \A i \in DecodeSlot : SlotHolds(s, decodeCache[i]),
         DecodeNext(s, a, then)
  PROVE  /\ next' = Decoded(s, a)
         /\ DOMAIN decodeCache' = DecodeSlot
         /\ \A i \in DecodeSlot : SlotHolds(s, decodeCache'[i])
         /\ state' \in {"stopped"} \union then
<1> DEFINE k == a % DecodeSlots
           c == decodeCache[k]
           v == s.version[BlockOf(a)]
           instr == IF DecodeHit(s, a) THEN c.instr ELSE Decoded(s, a)
           new == [iptr |-> a, version |-> v, instr |-> instr]
<1>1. k \in DecodeSlot
  <2>1. a \in Nat /\ DecodeSlots \in Nat /\ DecodeSlots > 0
    BY CodeAssumption DEF Address
  <2>2. (a % DecodeSlots) \in Nat /\ (a % DecodeSlots) < DecodeSlots
    BY <2>1, QuotientAndRemainder
  <2> QED BY <2>1, <2>2 DEF DecodeSlot
<1>2. instr = Decoded(s, a)
  <2>1. CASE DecodeHit(s, a)
    <3>1. c.instr.length # 0 /\ c.iptr = a /\ c.version = v
      BY <2>1 DEF DecodeHit
    <3>2. SlotHolds(s, c)
      BY <1>1
    <3>3. c.instr = Decoded(s, a)
      BY <3>1, <3>2 DEF SlotHolds
    <3> QED BY <2>1, <3>3
  <2> QED BY <2>1
<1>3. /\ next' = instr
      /\ decodeCache' = IF ~DecodeHit(s, a) /\ instr.length # 0 /\ Cacheable(instr, a)
                        THEN [decodeCache EXCEPT ![k] = new] ELSE decodeCache
      /\ state' \in IF instr.length = 0 THEN {"stopped"} ELSE then
  BY DEF DecodeNext
<1>4. v \in Nat
  <2>1. BlockOf(a) \in Block
    BY BlocksInSpace
  <2> QED BY <2>1 DEF IsMemory
<1>5. ASSUME instr.length # 0, Cacheable(instr, a) PROVE SlotHolds(s, new)
  <2>1. ~isMemoryDeviceAddress(a)
    BY <1>5 DEF Cacheable
  <2>2. instr.length \in Nat
    BY <1>2, LengthOfDecoded
  <2> HIDE DEF instr
  <2>3. InBounds(a, instr)
    BY <1>5, <2>2, CacheableInBounds
  <2>4. new.iptr = a /\ new.version = v /\ new.instr = instr
    OBVIOUS
  <2> HIDE DEF new, v
  <2>5. v <= v
    BY <1>4
  <2> QED BY <1>2, <1>4, <2>1, <2>3, <2>4, <2>5 DEF SlotHolds, v
<1> HIDE DEF k, instr, new
<1>6. DOMAIN decodeCache' = DecodeSlot
  BY <1>3
<1>7. \A i \in DecodeSlot : SlotHolds(s, decodeCache'[i])
  <2>1. CASE ~DecodeHit(s, a) /\ instr.length # 0 /\ Cacheable(instr, a)
    <3>1. SlotHolds(s, new)
      BY <1>5, <2>1
    <3>2. \A i \in DecodeSlot : decodeCache'[i] = IF i = k THEN new ELSE decodeCache[i]
      BY <1>1, <1>3, <2>1
    <3> QED BY <3>1, <3>2
  <2>2. CASE ~(~DecodeHit(s, a) /\ instr.length # 0 /\ Cacheable(instr, a))
    <3>1. decodeCache' = decodeCache
      BY <1>3, <2>2
    <3> QED BY <3>1
  <2> QED BY <2>1, <2>2
<1>8. state' \in {"stopped"} \union then
  BY <1>3
<1> QED BY <1>2, <1>3, <1>6, <1>7, <1>8

-----------------------------------------------------------------------------
(***************************************************************************)
(* The invariant holds at the start and each step keeps it.                *)
(***************************************************************************)

\* The caches are empty and the first instruction is decoded.
LEMMA CodeInitInv == CodeInit => CodeInv
<1>1. SUFFICES ASSUME CodeInit PROVE CodeInv
  OBVIOUS
<1>2. PICK p \in Programs : memory = [NoMemory EXCEPT !.byte = p]
  BY <1>1 DEF CodeInit
<1>3. IsMemory(memory)
  <2>1. NoMemory.version \in [Block -> Nat]
    BY DEF NoMemory
  <2>2. DOMAIN NoMemory = {"byte", "blocks", "version", "register", "result"}
    BY DEF NoMemory
  <2>3. memory.version = NoMemory.version /\ DOMAIN memory = DOMAIN NoMemory
    BY <1>2, <2>2
  <2> QED BY <2>1, <2>2, <2>3 DEF IsMemory
<1>4. iptr \in Address /\ next = Decoded(memory, iptr) /\ state = "pair"
  BY <1>1, CodeAssumption DEF CodeInit
<1>5. /\ DOMAIN decodeCache = DecodeSlot
      /\ \A i \in DecodeSlot : decodeCache[i].instr.length = 0
  BY <1>1 DEF CodeInit, DecodeSlot, NoInstr
<1>6. /\ DOMAIN codeBlocks = BlockSlot
      /\ \A i \in BlockSlot : codeBlocks[i] = [iptr |-> 0, version |-> 0, run |-> <<>>]
  BY <1>1 DEF CodeInit, BlockSlot
<1>7. \A i \in BlockSlot : /\ DOMAIN codeBlocks[i] = {"iptr", "version", "run"}
                           /\ codeBlocks[i].run = <<>>
  BY <1>6
<1>8. at \in [slot : BlockSlot, index : Nat]
  BY <1>1, CodeAssumption DEF CodeInit, BlockSlot
<1>9. /\ \A i \in DecodeSlot : SlotHolds(memory, decodeCache[i])
      /\ \A i \in BlockSlot : BlockHolds(memory, codeBlocks[i])
  BY <1>5, <1>7 DEF SlotHolds, BlockHolds
<1> QED BY <1>3, <1>4, <1>5, <1>6, <1>7, <1>8, <1>9 DEF CodeInv

\* The slots of both caches, when memory advances and neither changes.
LEMMA CachesStay ==
  ASSUME CodeInv, Advances(memory, memory')
  PROVE  /\ IsMemory(memory')
         /\ \A i \in DecodeSlot : SlotHolds(memory', decodeCache[i])
         /\ \A i \in BlockSlot : BlockHolds(memory', codeBlocks[i])
<1>1. IsMemory(memory) /\ IsMemory(memory')
  BY DEF CodeInv, Advances
<1>2. /\ \A i \in DecodeSlot : SlotHolds(memory, decodeCache[i])
      /\ \A i \in BlockSlot : BlockHolds(memory, codeBlocks[i])
  BY DEF CodeInv
<1> QED BY <1>1, <1>2, SlotStays, BlockStays

\* A step that ends by decoding the next instruction.
LEMMA DecodingStep ==
  ASSUME CodeInv, Advances(memory, memory'), iptr' \in Address, NEW then, "block" \notin then,
         DecodeNext(memory', iptr', then), codeBlocks' = codeBlocks, at' = at
  PROVE  CodeInv'
<1>1. /\ IsMemory(memory')
      /\ \A i \in DecodeSlot : SlotHolds(memory', decodeCache[i])
      /\ \A i \in BlockSlot : BlockHolds(memory', codeBlocks[i])
  BY CachesStay
<1>2. /\ DOMAIN decodeCache = DecodeSlot /\ DOMAIN codeBlocks = BlockSlot
      /\ \A i \in BlockSlot : DOMAIN codeBlocks[i] = {"iptr", "version", "run"}
      /\ at \in [slot : BlockSlot, index : Nat]
  BY DEF CodeInv
<1>3. /\ next' = Decoded(memory', iptr')
      /\ DOMAIN decodeCache' = DecodeSlot
      /\ \A i \in DecodeSlot : SlotHolds(memory', decodeCache'[i])
      /\ state' \in {"stopped"} \union then
  BY <1>1, <1>2, DecodeNextHolds
<1>4. state' # "block"
  BY <1>3
<1> QED BY <1>1, <1>2, <1>3, <1>4 DEF CodeInv

\* Where an instruction goes on is an address.
LEMMA EffectTo ==
  ASSUME CodeInv, NEW instr, instr.length \in Nat, Effect(instr)
  PROVE  Advances(memory, memory') /\ iptr' \in Address
<1>1. IsMemory(memory) /\ iptr \in Nat
  BY DEF CodeInv, Address
<1>2. Advances(memory, memory')
  BY <1>1, EffectAdvances DEF Effect
<1>3. Wrap(iptr + instr.length) \in Address
  <2>1. iptr + instr.length \in Nat
    BY <1>1
  <2> QED BY <2>1, WrapIsAddress
<1>4. iptr' \in Address
  BY <1>3, CodeAssumption DEF Effect
<1> QED BY <1>2, <1>4

\* execInstr and decodeNextInstr
LEMMA ExecPairKeeps == CodeInv /\ ExecPair => CodeInv'
<1>1. SUFFICES ASSUME CodeInv, ExecPair PROVE CodeInv'
  OBVIOUS
<1>2. next = Decoded(memory, iptr) /\ Effect(next)
  BY <1>1 DEF CodeInv, ExecPair
<1>3. next.length \in Nat
  BY <1>2, LengthOfDecoded
<1>4. Advances(memory, memory') /\ iptr' \in Address
  BY <1>1, <1>2, <1>3, EffectTo
<1>5. DecodeNext(memory', iptr', Onward) /\ codeBlocks' = codeBlocks /\ at' = at
      /\ "block" \notin Onward
  BY <1>1 DEF ExecPair, Onward
<1> QED BY <1>1, <1>4, <1>5, DecodingStep

\* The prompt
LEMMA PromptKeeps == CodeInv /\ Prompt => CodeInv'
<1>1. SUFFICES ASSUME CodeInv, Prompt PROVE CodeInv'
  OBVIOUS
<1>2. /\ \E w \in Writes : memory' = storeBytes(memory, w.at, w.bytes)
      /\ iptr' = iptr /\ codeBlocks' = codeBlocks /\ at' = at
      /\ DecodeNext(memory', iptr', Onward) /\ "block" \notin Onward
  BY <1>1 DEF Prompt, Onward
<1>3. IsMemory(memory) /\ iptr \in Address
  BY <1>1 DEF CodeInv
<1>4. Advances(memory, memory')
  BY <1>2, <1>3, EffectAdvances
<1> QED BY <1>1, <1>2, <1>3, <1>4, DecodingStep

\* A run that is executed: its instruction is the one at its position.
LEMMA InRun ==
  ASSUME CodeInv, state = "block"
  PROVE  LET c == codeBlocks[at.slot]
         IN  /\ at.slot \in BlockSlot /\ c.run # <<>>
             /\ c.iptr \in Address /\ ~isMemoryDeviceAddress(c.iptr)
             /\ c.version = memory.version[BlockOf(c.iptr)]
             /\ c.run[at.index] = Decoded(memory, iptr)
             /\ \E x : /\ RunFrom(memory, c.iptr, c.run, x)
                       /\ at.index \in 1 .. Len(c.run) /\ x[at.index] = iptr
<1> DEFINE c == codeBlocks[at.slot]
<1>1. at.slot \in BlockSlot /\ Executing(memory, c, iptr, at.index)
  BY DEF CodeInv
<1>2. BlockHolds(memory, c)
  BY <1>1 DEF CodeInv
<1> HIDE DEF c
<1>3. /\ c.run # <<>> /\ c.version = memory.version[BlockOf(c.iptr)]
      /\ \E x : /\ RunFrom(memory, c.iptr, c.run, x)
                /\ at.index \in 1 .. Len(c.run) /\ x[at.index] = iptr
  BY <1>1 DEF Executing
<1>4. c.iptr \in Address /\ ~isMemoryDeviceAddress(c.iptr)
  BY <1>2, <1>3 DEF BlockHolds
<1>5. c.run[at.index] = Decoded(memory, iptr)
  BY <1>3 DEF RunFrom
<1> QED BY <1>1, <1>3, <1>4, <1>5 DEF c

\* execBlockInstr
LEMMA ExecBlockKeeps == CodeInv /\ ExecBlock => CodeInv'
<1>1. SUFFICES ASSUME CodeInv, ExecBlock PROVE CodeInv'
  OBVIOUS
<1> DEFINE c == codeBlocks[at.slot]
           instr == c.run[at.index]
           a == c.iptr
<1>2. /\ state = "block" /\ Effect(instr) /\ codeBlocks' = codeBlocks
      /\ \/ /\ RunGoesOn(memory', c, instr)
            /\ at' = [at EXCEPT !.index = @ + 1]
            /\ UNCHANGED <<next, decodeCache, state>>
         \/ /\ state' = "quiet"
            /\ UNCHANGED <<next, decodeCache, at>>
         \/ DecodeNext(memory', iptr', Onward) /\ UNCHANGED at
  BY <1>1 DEF ExecBlock
<1>3. /\ at.slot \in BlockSlot /\ c.run # <<>> /\ a \in Address /\ ~isMemoryDeviceAddress(a)
      /\ c.version = memory.version[BlockOf(a)]
      /\ instr = Decoded(memory, iptr)
      /\ \E x : /\ RunFrom(memory, a, c.run, x)
                /\ at.index \in 1 .. Len(c.run) /\ x[at.index] = iptr
  BY <1>1, <1>2, InRun
<1> HIDE DEF c, instr, a
<1>4. instr.length \in Nat
  BY <1>3, LengthOfDecoded
<1>5. Advances(memory, memory') /\ iptr' \in Address
  BY <1>1, <1>2, <1>4, EffectTo
<1>6. /\ IsMemory(memory')
      /\ \A i \in DecodeSlot : SlotHolds(memory', decodeCache[i])
      /\ \A i \in BlockSlot : BlockHolds(memory', codeBlocks[i])
  BY <1>1, <1>5, CachesStay
<1>7. /\ DOMAIN decodeCache = DecodeSlot /\ DOMAIN codeBlocks = BlockSlot
      /\ \A i \in BlockSlot : DOMAIN codeBlocks[i] = {"iptr", "version", "run"}
      /\ at \in [slot : BlockSlot, index : Nat]
  BY <1>1 DEF CodeInv
<1>8. CASE RunGoesOn(memory', c, instr) /\ at' = [at EXCEPT !.index = @ + 1]
             /\ UNCHANGED <<next, decodeCache, state>>
  <2>1. /\ at.index < Len(c.run) /\ iptr' = Wrap(iptr + instr.length)
        /\ memory'.version[BlockOf(a)] = c.version
    BY <1>8 DEF RunGoesOn, a
  <2>2. PICK x : /\ RunFrom(memory, a, c.run, x)
                 /\ at.index \in 1 .. Len(c.run) /\ x[at.index] = iptr
    BY <1>3
  <2>3. RunFrom(memory', a, c.run, x)
    <3>1. IsMemory(memory)
      BY <1>1 DEF CodeInv
    <3>2. SameBytes(memory, memory', BlockOf(a))
      BY <1>3, <1>5, <2>1, <3>1, AdvancesInBlock
    <3> QED BY <1>3, <2>2, <3>2, RunRemains
  <2>4. /\ at.index + 1 \in 1 .. Len(c.run)
        /\ x[at.index + 1] = iptr + instr.length /\ x[at.index + 1] \in Address
    <3>1. at.index + 1 \in 1 .. Len(c.run)
      BY <2>1, <2>2
    <3>2. x[at.index + 1] = x[at.index] + c.run[at.index].length
      BY <2>2 DEF RunFrom
    <3>3. x[at.index + 1] \in Address
      BY <2>2, <3>1 DEF RunFrom
    <3> QED BY <2>2, <3>1, <3>2, <3>3 DEF instr
  <2>5. x[at.index + 1] = iptr'
    <3>1. AddressSpace \in Nat /\ AddressSpace > 0
      BY MemoryAssumption, CodeAssumption
    <3>2. \A y \in Address : Wrap(y) = y
      BY <3>1 DEF Wrap, Address
    <3> QED BY <2>1, <2>4, <3>2
  <2>6. /\ at' \in [slot : BlockSlot, index : Nat]
        /\ at'.slot = at.slot /\ at'.index = at.index + 1
    BY <1>7, <1>8
  <2>7. Executing(memory', c, iptr', at'.index)
    BY <1>3, <2>1, <2>3, <2>4, <2>5, <2>6 DEF Executing, a
  <2>8. state' = "block" /\ codeBlocks'[at'.slot] = c /\ decodeCache' = decodeCache
    BY <1>2, <1>8, <2>6 DEF c
  <2> QED BY <1>2, <1>3, <1>5, <1>6, <1>7, <2>6, <2>7, <2>8 DEF CodeInv
<1>9. CASE state' = "quiet" /\ UNCHANGED <<next, decodeCache, at>>
  BY <1>2, <1>5, <1>6, <1>7, <1>9 DEF CodeInv
<1>10. CASE DecodeNext(memory', iptr', Onward) /\ UNCHANGED at
  <2>1. "block" \notin Onward
    BY DEF Onward
  <2> QED BY <1>1, <1>2, <1>5, <1>10, <2>1, DecodingStep
<1> QED BY <1>2, <1>8, <1>9, <1>10

\* Looking up, or decoding, a run at the address of the next instruction.
LEMMA LookUpKeeps == CodeInv /\ LookUp => CodeInv'
<1>1. SUFFICES ASSUME CodeInv, LookUp PROVE CodeInv'
  OBVIOUS
<1> DEFINE slot == iptr % BlockSlots
           c == codeBlocks[slot]
           v == memory.version[BlockOf(iptr)]
           device == isMemoryDeviceAddress(iptr)
           run == IF CodeBlockHit(memory, iptr) THEN c.run
                  ELSE IF device THEN <<>> ELSE RunAt(memory, iptr)
           new == IF device THEN [c EXCEPT !.run = <<>>]
                  ELSE [iptr |-> iptr, version |-> v, run |-> run]
<1>2. /\ codeBlocks' = [codeBlocks EXCEPT ![slot] = new]
      /\ IF run = <<>> THEN DecodeNext(memory, iptr, {"pair"}) /\ UNCHANGED at
         ELSE /\ state' = "block" /\ at' = [slot |-> slot, index |-> 1]
              /\ UNCHANGED <<next, decodeCache>>
      /\ iptr' = iptr /\ memory' = memory
  BY <1>1 DEF LookUp
<1>3. /\ IsMemory(memory) /\ iptr \in Address
      /\ DOMAIN decodeCache = DecodeSlot /\ DOMAIN codeBlocks = BlockSlot
      /\ \A i \in BlockSlot : DOMAIN codeBlocks[i] = {"iptr", "version", "run"}
      /\ at \in [slot : BlockSlot, index : Nat]
      /\ \A i \in DecodeSlot : SlotHolds(memory, decodeCache[i])
      /\ \A i \in BlockSlot : BlockHolds(memory, codeBlocks[i])
  BY <1>1 DEF CodeInv
<1>4. slot \in BlockSlot
  <2>1. iptr \in Nat /\ BlockSlots \in Nat /\ BlockSlots > 0
    BY <1>3, CodeAssumption DEF Address
  <2>2. (iptr % BlockSlots) \in Nat /\ (iptr % BlockSlots) < BlockSlots
    BY <2>1, QuotientAndRemainder
  <2> QED BY <2>1, <2>2 DEF BlockSlot
<1>5. v \in Nat
  <2>1. BlockOf(iptr) \in Block
    BY <1>3, BlocksInSpace
  <2> QED BY <1>3, <2>1 DEF IsMemory
<1>6. run # <<>> => ~device /\ IsRun(memory, iptr, run)
  <2>1. CASE CodeBlockHit(memory, iptr)
    <3>1. c.run # <<>> /\ c.iptr = iptr /\ c.version = v /\ run = c.run
      BY <2>1 DEF CodeBlockHit
    <3>2. BlockHolds(memory, c)
      BY <1>3, <1>4
    <3> QED BY <3>1, <3>2 DEF BlockHolds
  <2>2. CASE ~CodeBlockHit(memory, iptr)
    <3>1. CASE device
      BY <2>2, <3>1
    <3>2. CASE ~device
      <4>1. run = RunAt(memory, iptr)
        BY <2>2, <3>2
      <4>2. IsRun(memory, iptr, RunAt(memory, iptr))
        BY <1>3, RunAtIsRun
      <4> QED BY <3>2, <4>1, <4>2
    <3> QED BY <3>1, <3>2
  <2> QED BY <2>1, <2>2
<1>7. DOMAIN new = {"iptr", "version", "run"} /\ BlockHolds(memory, new)
  <2>1. CASE device
    <3>1. new = [c EXCEPT !.run = <<>>] /\ DOMAIN c = {"iptr", "version", "run"}
      BY <1>3, <1>4, <2>1
    <3> HIDE DEF new, c
    <3>2. DOMAIN new = {"iptr", "version", "run"} /\ new.run = <<>>
      BY <3>1
    <3> QED BY <3>2 DEF BlockHolds
  <2>2. CASE ~device
    <3>1. new = [iptr |-> iptr, version |-> v, run |-> run]
      BY <2>2
    <3> HIDE DEF new, v, run
    <3>2. /\ DOMAIN new = {"iptr", "version", "run"}
          /\ new.iptr = iptr /\ new.version = v /\ new.run = run
      BY <3>1
    <3>3. v <= v
      BY <1>5
    <3> QED BY <1>3, <1>5, <1>6, <2>2, <3>2, <3>3 DEF BlockHolds, v
  <2> QED BY <2>1, <2>2
<1> HIDE DEF new
<1>8. /\ DOMAIN codeBlocks' = BlockSlot
      /\ \A i \in BlockSlot : codeBlocks'[i] = IF i = slot THEN new ELSE codeBlocks[i]
  <2> HIDE DEF slot
  <2> QED BY <1>2, <1>3, <1>4
<1> HIDE DEF slot
<1>9. \A i \in BlockSlot : /\ DOMAIN codeBlocks'[i] = {"iptr", "version", "run"}
                           /\ BlockHolds(memory, codeBlocks'[i])
  BY <1>3, <1>7, <1>8
<1>10. CASE run = <<>>
  <2>1. DecodeNext(memory, iptr, {"pair"}) /\ at' = at
    <3> HIDE DEF run
    <3> QED BY <1>2, <1>10
  <2>2. /\ next' = Decoded(memory, iptr) /\ DOMAIN decodeCache' = DecodeSlot
        /\ \A i \in DecodeSlot : SlotHolds(memory, decodeCache'[i])
        /\ state' \in {"stopped"} \union {"pair"}
    BY <1>3, <2>1, DecodeNextHolds
  <2>3. state' # "block"
    BY <2>2
  <2> QED BY <1>2, <1>3, <1>8, <1>9, <2>1, <2>2, <2>3 DEF CodeInv
<1>11. CASE run # <<>>
  <2>1. ~device /\ IsRun(memory, iptr, run)
    BY <1>6, <1>11
  <2>2. new = [iptr |-> iptr, version |-> v, run |-> run]
    BY <2>1 DEF new
  <2> HIDE DEF run, v
  <2>3. /\ state' = "block" /\ at' = [slot |-> slot, index |-> 1]
        /\ next' = next /\ decodeCache' = decodeCache
    BY <1>2, <1>11
  <2>4. at' \in [slot : BlockSlot, index : Nat] /\ at'.slot = slot /\ at'.index = 1
    BY <1>4, <2>3
  <2>5. PICK x : RunFrom(memory, iptr, run, x)
    BY <2>1 DEF IsRun
  <2>6. new.iptr = iptr /\ new.version = v /\ new.run = run
    BY <2>2
  <2>7. 1 \in 1 .. Len(run) /\ x[1] = iptr
    <3>1. Len(run) \in Nat /\ Len(run) # 0 /\ x[1] = iptr
      BY <1>11, <2>5 DEF RunFrom
    <3> QED BY <3>1
  <2>8. Executing(memory, new, iptr, 1)
    BY <1>11, <2>5, <2>6, <2>7 DEF Executing, v
  <2>9. codeBlocks'[at'.slot] = new
    BY <1>4, <1>8, <2>4
  <2> QED BY <1>2, <1>3, <1>8, <1>9, <2>3, <2>4, <2>8, <2>9 DEF CodeInv
<1> QED BY <1>10, <1>11

\* Each step keeps the invariant.
LEMMA CodeNextInv == CodeInv /\ [CodeNext]_<<memory, codeVars>> => CodeInv'
<1>1. SUFFICES ASSUME CodeInv, [CodeNext]_<<memory, codeVars>> PROVE CodeInv'
  OBVIOUS
<1>2. CASE LookUp
  BY <1>1, <1>2, LookUpKeeps
<1>3. CASE ExecPair
  BY <1>1, <1>3, ExecPairKeeps
<1>4. CASE ExecBlock
  BY <1>1, <1>4, ExecBlockKeeps
<1>5. CASE Prompt
  BY <1>1, <1>5, PromptKeeps
<1>6. CASE UNCHANGED <<memory, codeVars>>
  <2>1. /\ memory' = memory /\ iptr' = iptr /\ next' = next /\ decodeCache' = decodeCache
        /\ codeBlocks' = codeBlocks /\ at' = at /\ state' = state
    BY <1>6 DEF codeVars
  <2> QED BY <1>1, <2>1 DEF CodeInv
<1> QED BY <1>1, <1>2, <1>3, <1>4, <1>5, <1>6 DEF CodeNext

\* What is executed is then what memory holds.
LEMMA CodeInvExecutes == CodeInv => ExecutesWhatMemoryHolds
<1>1. SUFFICES ASSUME CodeInv PROVE ExecutesWhatMemoryHolds
  OBVIOUS
<1>2. state = "pair" => next = Decoded(memory, iptr)
  BY <1>1 DEF CodeInv
<1>3. state = "block" => codeBlocks[at.slot].run[at.index] = Decoded(memory, iptr)
  BY <1>1, InRun
<1> QED BY <1>2, <1>3 DEF ExecutesWhatMemoryHolds

(***************************************************************************)
(* Both caches and the bytes behind them stay in the invariant.            *)
(***************************************************************************)
THEOREM CachesCorrect == CodeSpec => []CodeInv
<1>1. CodeInit => CodeInv
  BY CodeInitInv
<1>2. CodeInv /\ [CodeNext]_<<memory, codeVars>> => CodeInv'
  BY CodeNextInv
<1> QED BY <1>1, <1>2, PTL DEF CodeSpec

(***************************************************************************)
(* Whatever the code, devices and the prompt store, and wherever the code  *)
(* jumps, the instruction that decodeNextInstr or a decoded run gives to   *)
(* be executed is the one memory holds at its address: a version that has  *)
(* not risen vouches for every byte of a cached instruction.               *)
(***************************************************************************)
THEOREM ExecutesWhatMemoryHoldsCorrect == CodeSpec => []ExecutesWhatMemoryHolds
<1>1. CodeSpec => []CodeInv
  BY CachesCorrect
<1>2. CodeInv => ExecutesWhatMemoryHolds
  BY CodeInvExecutes
<1> QED BY <1>1, <1>2, PTL
-----------------------------------------------------------------------------
(***************************************************************************)
(* Folds of sequences.                                                     *)
(***************************************************************************)

\* A set of numbers up to N has a last one, ...
LEMMA LastOf ==
  ASSUME NEW N \in Nat, NEW t \in SUBSET (1 .. N), t # {}
  PROVE  Max(t) \in t /\ t \subseteq 1 .. Max(t) /\ t \ {Max(t)} \in SUBSET (1 .. (Max(t) - 1))
<1>0. \A y \in t : y \in Nat /\ y >= 1
  OBVIOUS
<1> DEFINE U == {N - x : x \in t}
<1>1. U \subseteq Nat /\ U # {}
  <2>1. \A x \in t : x \in Nat /\ x <= N
    OBVIOUS
  <2>2. \A x \in t : N - x \in Nat
    BY <2>1
  <2> QED BY <2>2
<1>2. PICK n \in U : \A k \in U : n <= k
  <2> HIDE DEF U
  <2> QED BY <1>1, LeastNatural
<1>3. PICK x \in t : n = N - x
  BY <1>2
<1>4. ASSUME NEW y \in t PROVE x >= y
  <2>1. N - y \in U
    OBVIOUS
  <2>2. n <= N - y /\ x \in Nat /\ y \in Nat
    BY <1>2, <2>1
  <2> QED BY <1>3, <2>2
<1>5. Max(t) \in t /\ \A y \in t : Max(t) >= y
  BY <1>4 DEF Max
<1> HIDE DEF U
<1>6. Max(t) \in Nat
  BY <1>0, <1>5
<1>7. \A y \in t : y >= 1 /\ y <= Max(t) /\ y \in Nat
  BY <1>0, <1>5, <1>6
<1>8. ASSUME NEW y \in t, y # Max(t) PROVE y \in 1 .. (Max(t) - 1)
  BY <1>6, <1>7, <1>8
<1>9. t \subseteq 1 .. Max(t)
  BY <1>6, <1>7
<1> QED BY <1>5, <1>8, <1>9

\* ... which is the last of an interval.
LEMMA LastOfInterval ==
  ASSUME NEW n \in Nat, n > 0
  PROVE  1 .. n # {} /\ Max(1 .. n) = n /\ (1 .. n) \ {n} = 1 .. (n - 1)
<1>1. n \in 1 .. n /\ \A y \in 1 .. n : n >= y
  OBVIOUS
<1>2. \E x \in 1 .. n : \A y \in 1 .. n : x >= y
  BY <1>1
<1>3. Max(1 .. n) \in 1 .. n /\ \A y \in 1 .. n : Max(1 .. n) >= y
  BY <1>2 DEF Max
<1>4. Max(1 .. n) >= n
  BY <1>1, <1>3
<1>5. Max(1 .. n) = n
  BY <1>3, <1>4
<1> QED BY <1>1, <1>5

\* What N turns of a loop do to the values of V, ...
Turns(G, N, V) == G \in [1 .. N -> [V -> V]]

\* ... what has been done after each of them, ...
Course(f, base, G, N, V) == f \in [0 .. N -> V] /\ StepsFrom(f, base, G, N)

\* ... and the same as a function of the set of turns that are taken.
OfPlaces(h, base, G, N, V) ==
  /\ h \in [SUBSET (1 .. N) -> V]
  /\ \A t \in SUBSET (1 .. N) :
       h[t] = IF t = {} THEN base ELSE G[Max(t)][h[t \ {Max(t)}]]

OfFirst(h, base, G, N, V) ==
  /\ h[{}] = base
  /\ \A n \in 1 .. N : h[1 .. (n - 1)] \in V => h[1 .. n] = G[n][h[1 .. (n - 1)]]

\* The function on sets of places by which a fold is defined exists.
LEMMA FoldExists ==
  ASSUME NEW V, NEW base \in V, NEW N \in Nat, NEW G, Turns(G, N, V)
  PROVE  \E h : OfPlaces(h, base, G, N, V)
<1>0. G \in [1 .. N -> [V -> V]]
  BY DEF Turns
<1> DEFINE W == [SUBSET (1 .. N) -> V]
           c == [t \in SUBSET (1 .. N) |-> base]
           Next1(m, h) == [t \in SUBSET (1 .. N) |->
                             IF m \in t /\ t \subseteq 1 .. m THEN G[m][h[t \ {m}]] ELSE h[t]]
           g == [m \in 1 .. N |-> [h \in W |-> Next1(m, h)]]
<1>1. c \in W
  OBVIOUS
<1>2. g \in [1 .. N -> [W -> W]]
  <2>1. ASSUME NEW m \in 1 .. N, NEW h \in W PROVE Next1(m, h) \in W
    <3>1. \A t \in SUBSET (1 .. N) : t \ {m} \in SUBSET (1 .. N)
      OBVIOUS
    <3>2. G[m] \in [V -> V]
      BY <1>0
    <3>3. \A t \in SUBSET (1 .. N) : G[m][h[t \ {m}]] \in V /\ h[t] \in V
      BY <3>1, <3>2
    <3> QED BY <3>3
  <2> HIDE DEF W, Next1
  <2> QED BY <2>1
<1>3. PICK f \in [0 .. N -> W] : StepsFrom(f, c, g, N)
  <2> HIDE DEF W, c, g
  <2> QED BY <1>1, <1>2, StepByStep
<1>4. f[0] = c /\ \A m \in 1 .. N : f[m] = g[m][f[m - 1]] /\ f[m - 1] \in W /\ f[m] \in W
  <2> HIDE DEF W, c, g
  <2>1. \A m \in 1 .. N : m \in 0 .. N /\ m # 0 /\ m - 1 \in 0 .. N
    OBVIOUS
  <2> QED BY <1>3, <2>1 DEF StepsFrom
<1>5. \A m \in 1 .. N : f[m] = Next1(m, f[m - 1])
  <2> HIDE DEF W, Next1
  <2> QED BY <1>4
<1>6. \A m \in 1 .. N, t \in SUBSET (1 .. N) :
        f[m][t] = IF m \in t /\ t \subseteq 1 .. m THEN G[m][f[m - 1][t \ {m}]] ELSE f[m - 1][t]
  BY <1>5
<1> HIDE DEF g, Next1
<1>7. ASSUME NEW k \in 0 .. N, NEW t \in SUBSET (1 .. k) PROVE f[N][t] = f[k][t]
  <2> DEFINE T == {n \in 0 .. N : n > k => f[n][t] = f[k][t]}
  <2>1. 0 \in T
    OBVIOUS
  <2>2. ASSUME NEW n \in 1 .. N, n - 1 \in T PROVE n \in T
    <3>1. CASE n > k
      <4>1. f[n - 1][t] = f[k][t]
        <5>1. CASE n - 1 > k
          BY <2>2, <5>1
        <5>2. CASE n - 1 = k
          BY <5>2
        <5> QED BY <3>1, <5>1, <5>2
      <4>2. n \notin t /\ t \in SUBSET (1 .. N)
        BY <3>1
      <4>3. f[n][t] = f[n - 1][t]
        BY <1>6, <4>2
      <4> QED BY <4>1, <4>3
    <3> QED BY <3>1
  <2>3. N \in T
    <3> HIDE DEF T
    <3>1. 0 .. N \subseteq T
      BY <2>1, <2>2, UpTo
    <3> QED BY <3>1
  <2>4. CASE N > k
    BY <2>3, <2>4
  <2>5. CASE N = k
    BY <2>5
  <2> QED BY <2>4, <2>5
<1>8. f[N] \in W
  <2>1. N \in 0 .. N
    OBVIOUS
  <2> HIDE DEF W
  <2> QED BY <1>3, <2>1
<1>9. ASSUME NEW t \in SUBSET (1 .. N)
      PROVE  f[N][t] = IF t = {} THEN base ELSE G[Max(t)][f[N][t \ {Max(t)}]]
  <2>1. CASE t = {}
    <3>1. t \in SUBSET (1 .. 0) /\ 0 \in 0 .. N
      BY <2>1
    <3>2. f[N][t] = f[0][t]
      BY <1>7, <3>1
    <3> QED BY <1>4, <2>1, <3>2
  <2>2. CASE t # {}
    <3> DEFINE m == Max(t)
               r == t \ {m}
    <3>1. m \in t /\ t \subseteq 1 .. m /\ r \in SUBSET (1 .. (m - 1))
      BY <2>2, LastOf
    <3>2. m \in 1 .. N /\ m \in 0 .. N /\ m - 1 \in 0 .. N /\ t \in SUBSET (1 .. m)
      <4> HIDE DEF m, r
      <4>1. m \in 1 .. N
        BY <3>1
      <4> QED BY <3>1, <4>1
    <3>3. f[N][t] = f[m][t]
      <4> HIDE DEF m, r
      <4> QED BY <1>7, <3>2
    <3>4. f[N][r] = f[m - 1][r]
      <4> HIDE DEF m, r
      <4> QED BY <1>7, <3>1, <3>2
    <3>5. f[m][t] = G[m][f[m - 1][r]]
      <4> HIDE DEF m
      <4> QED BY <1>6, <3>1, <3>2
    <3> HIDE DEF m, r
    <3>6. f[N][t] = G[m][f[N][r]]
      BY <3>3, <3>4, <3>5
    <3> QED BY <2>2, <3>6 DEF m, r
  <2> QED BY <2>1, <2>2
<1> DEFINE h == f[N]
<1>10. h \in [SUBSET (1 .. N) -> V]
  BY <1>8
<1>11. \A t \in SUBSET (1 .. N) : h[t] = IF t = {} THEN base ELSE G[Max(t)][h[t \ {Max(t)}]]
  BY <1>9
<1> HIDE DEF h
<1> QED BY <1>10, <1>11 DEF OfPlaces

\* What such a function has for the first places is defined step by step.
LEMMA FoldSteps ==
  ASSUME NEW V, NEW base \in V, NEW N \in Nat, NEW G, Turns(G, N, V),
         NEW h, OfFirst(h, base, G, N, V)
  PROVE  \E f : Course(f, base, G, N, V) /\ h[1 .. N] = f[N]
<1>0. /\ G \in [1 .. N -> [V -> V]] /\ h[{}] = base
      /\ \A n \in 1 .. N : h[1 .. (n - 1)] \in V => h[1 .. n] = G[n][h[1 .. (n - 1)]]
  BY DEF Turns, OfFirst
<1> DEFINE f == [n \in 0 .. N |-> h[1 .. n]]
           T == {n \in 0 .. N : h[1 .. n] \in V}
<1>1. 1 .. 0 = {}
  OBVIOUS
<1>2. 0 \in T
  BY <1>0, <1>1
<1>3. ASSUME NEW n \in 1 .. N, n - 1 \in T PROVE n \in T
  <2>1. h[1 .. (n - 1)] \in V /\ G[n] \in [V -> V]
    BY <1>0, <1>3
  <2>2. h[1 .. n] = G[n][h[1 .. (n - 1)]]
    BY <1>0, <2>1
  <2>3. h[1 .. n] \in V
    BY <2>1, <2>2
  <2> QED BY <2>3
<1>4. 0 .. N \subseteq T
  <2> HIDE DEF T
  <2> QED BY <1>2, <1>3, UpTo
<1>5. f \in [0 .. N -> V]
  BY <1>4
<1>6. ASSUME NEW n \in 0 .. N PROVE f[n] = IF n = 0 THEN base ELSE G[n][f[n - 1]]
  <2>1. CASE n = 0
    BY <1>0, <1>1, <2>1
  <2>2. CASE n # 0
    <3>1. n \in 1 .. N /\ n - 1 \in 0 .. N
      BY <2>2
    <3>2. h[1 .. (n - 1)] \in V
      BY <1>4, <3>1
    <3>3. h[1 .. n] = G[n][h[1 .. (n - 1)]]
      BY <1>0, <3>1, <3>2
    <3> QED BY <2>2, <3>1, <3>3
  <2> QED BY <2>1, <2>2
<1>7. StepsFrom(f, base, G, N)
  <2> HIDE DEF f
  <2> QED BY <1>6 DEF StepsFrom
<1>8. h[1 .. N] = f[N]
  OBVIOUS
<1> HIDE DEF f
<1> QED BY <1>5, <1>7, <1>8 DEF Course

\* The files of a load, one after the other.
LoadKeeps(q, N, V) ==
  /\ DOMAIN q = 1 .. N
  /\ \A t \in V, n \in 1 .. N : bulkLoadBytes(t, q[n]) \in V

LoadCourse(f, s, q, N, V) ==
  /\ f \in [0 .. N -> V] /\ f[0] = s /\ loadMemory(s, q) = f[N]
  /\ \A n \in 1 .. N : f[n] = bulkLoadBytes(f[n - 1], q[n])

\* A load, file by file.
LEMMA LoadSteps ==
  ASSUME NEW V, NEW s \in V, NEW q, NEW N \in Nat, LoadKeeps(q, N, V)
  PROVE  \E f : LoadCourse(f, s, q, N, V)
<1>0. DOMAIN q = 1 .. N /\ \A t \in V, n \in 1 .. N : bulkLoadBytes(t, q[n]) \in V
  BY DEF LoadKeeps
<1> DEFINE Is(h) == h = [t \in SUBSET (1 .. N) |->
                           IF t = {} THEN s ELSE bulkLoadBytes(h[t \ {Max(t)}], q[Max(t)])]
           it == CHOOSE h : Is(h)
           G == [n \in 1 .. N |-> [t \in V |-> bulkLoadBytes(t, q[n])]]
<1>1. loadMemory(s, q) = it[1 .. N]
  BY <1>0, Zenon DEF loadMemory, FoldLeft, MapThenFoldSet
<1>2. Turns(G, N, V)
  BY <1>0 DEF Turns
<1>3. \A n \in 1 .. N, t \in V : G[n][t] = bulkLoadBytes(t, q[n])
  OBVIOUS
<1> HIDE DEF G
<1>4. \E h : Is(h)
  <2>0. PICK h : OfPlaces(h, s, G, N, V)
    <3> HIDE DEF Is, it
    <3> QED BY <1>2, FoldExists
  <2>1. /\ h \in [SUBSET (1 .. N) -> V]
        /\ \A t \in SUBSET (1 .. N) : h[t] = IF t = {} THEN s ELSE G[Max(t)][h[t \ {Max(t)}]]
    BY <2>0 DEF OfPlaces
  <2>2. ASSUME NEW t \in SUBSET (1 .. N), t # {}
        PROVE  h[t] = bulkLoadBytes(h[t \ {Max(t)}], q[Max(t)])
    <3>1. Max(t) \in 1 .. N
      BY <2>2, LastOf
    <3>2. t \ {Max(t)} \in SUBSET (1 .. N)
      OBVIOUS
    <3>3. h[t \ {Max(t)}] \in V
      BY <2>1, <3>2
    <3> QED BY <1>3, <2>1, <2>2, <3>1, <3>3
  <2>3. \A t \in SUBSET (1 .. N) :
          h[t] = IF t = {} THEN s ELSE bulkLoadBytes(h[t \ {Max(t)}], q[Max(t)])
    BY <2>1, <2>2
  <2>4. h = [t \in SUBSET (1 .. N) |-> h[t]]
    BY <2>1
  <2>5. Is(h)
    BY <2>3, <2>4
  <2> HIDE DEF Is
  <2> QED BY <2>5
<1>5. Is(it)
  <2> HIDE DEF Is
  <2> QED BY <1>4
<1> HIDE DEF it
<1>6. it[{}] = s
  <2>1. {} \in SUBSET (1 .. N)
    OBVIOUS
  <2> QED BY <1>5, <2>1
<1>7. ASSUME NEW n \in 1 .. N, it[1 .. (n - 1)] \in V PROVE it[1 .. n] = G[n][it[1 .. (n - 1)]]
  <2>1. 1 .. n # {} /\ Max(1 .. n) = n /\ (1 .. n) \ {n} = 1 .. (n - 1) /\ 1 .. n \in SUBSET (1 .. N)
    BY LastOfInterval
  <2>2. it[1 .. n] = bulkLoadBytes(it[(1 .. n) \ {Max(1 .. n)}], q[Max(1 .. n)])
    BY <1>5, <2>1
  <2>3. it[1 .. n] = bulkLoadBytes(it[1 .. (n - 1)], q[n])
    BY <2>1, <2>2
  <2> QED BY <1>3, <1>7, <2>3
<1> HIDE DEF Is
<1>8. PICK f : Course(f, s, G, N, V) /\ it[1 .. N] = f[N]
  <2>1. OfFirst(it, s, G, N, V)
    BY <1>6, <1>7 DEF OfFirst
  <2> QED BY <1>2, <2>1, FoldSteps
<1>9. f[0] = s
  BY <1>8 DEF StepsFrom, Course
<1>10. ASSUME NEW n \in 1 .. N PROVE f[n] = bulkLoadBytes(f[n - 1], q[n])
  <2>1. n \in 0 .. N /\ n # 0 /\ f[n - 1] \in V
    BY <1>8 DEF Course
  <2>2. f[n] = G[n][f[n - 1]]
    BY <1>8, <2>1 DEF StepsFrom, Course
  <2> QED BY <1>3, <2>1, <2>2
<1>11. f \in [0 .. N -> V]
  BY <1>8 DEF Course
<1> QED BY <1>1, <1>8, <1>9, <1>10, <1>11 DEF LoadCourse

\* The words of memoryInit, one after the other.
InitKeeps(q, N, V) ==
  /\ DOMAIN q = 1 .. N
  /\ q = SetToSeq(InitWords)
  /\ \A t \in V, n \in 1 .. N : Put(t, q[n], [i \in 1 .. BytesPerWord |-> 0]) \in V

InitCourse(f, s, q, N, V) ==
  /\ f \in [0 .. N -> V] /\ f[0] = s /\ memoryInit(s) = f[N]
  /\ \A n \in 1 .. N : f[n] = Put(f[n - 1], q[n], [i \in 1 .. BytesPerWord |-> 0])

\* memoryInit, word by word.
LEMMA InitSteps ==
  ASSUME NEW V, NEW s \in V, NEW q, NEW N \in Nat, InitKeeps(q, N, V)
  PROVE  \E f : InitCourse(f, s, q, N, V)
<1>0. /\ DOMAIN q = 1 .. N
      /\ q = SetToSeq(InitWords)
      /\ \A t \in V, n \in 1 .. N : Put(t, q[n], [i \in 1 .. BytesPerWord |-> 0]) \in V
  BY DEF InitKeeps
<1> DEFINE Is(h) == h = [t \in SUBSET (1 .. N) |->
                           IF t = {} THEN s ELSE Put(h[t \ {Max(t)}], q[Max(t)], [i \in 1 .. BytesPerWord |-> 0])]
           it == CHOOSE h : Is(h)
           G == [n \in 1 .. N |-> [t \in V |-> Put(t, q[n], [i \in 1 .. BytesPerWord |-> 0])]]
<1>1. memoryInit(s) = it[1 .. N]
  BY <1>0, Zenon DEF memoryInit, FoldLeft, MapThenFoldSet
<1>2. Turns(G, N, V)
  BY <1>0 DEF Turns
<1>3. \A n \in 1 .. N, t \in V : G[n][t] = Put(t, q[n], [i \in 1 .. BytesPerWord |-> 0])
  OBVIOUS
<1> HIDE DEF G
<1>4. \E h : Is(h)
  <2>0. PICK h : OfPlaces(h, s, G, N, V)
    <3> HIDE DEF Is, it
    <3> QED BY <1>2, FoldExists
  <2>1. /\ h \in [SUBSET (1 .. N) -> V]
        /\ \A t \in SUBSET (1 .. N) : h[t] = IF t = {} THEN s ELSE G[Max(t)][h[t \ {Max(t)}]]
    BY <2>0 DEF OfPlaces
  <2>2. ASSUME NEW t \in SUBSET (1 .. N), t # {}
        PROVE  h[t] = Put(h[t \ {Max(t)}], q[Max(t)], [i \in 1 .. BytesPerWord |-> 0])
    <3>1. Max(t) \in 1 .. N
      BY <2>2, LastOf
    <3>2. t \ {Max(t)} \in SUBSET (1 .. N)
      OBVIOUS
    <3>3. h[t \ {Max(t)}] \in V
      BY <2>1, <3>2
    <3> QED BY <1>3, <2>1, <2>2, <3>1, <3>3
  <2>3. \A t \in SUBSET (1 .. N) :
          h[t] = IF t = {} THEN s ELSE Put(h[t \ {Max(t)}], q[Max(t)], [i \in 1 .. BytesPerWord |-> 0])
    BY <2>1, <2>2
  <2>4. h = [t \in SUBSET (1 .. N) |-> h[t]]
    BY <2>1
  <2>5. Is(h)
    BY <2>3, <2>4
  <2> HIDE DEF Is
  <2> QED BY <2>5
<1>5. Is(it)
  <2> HIDE DEF Is
  <2> QED BY <1>4
<1> HIDE DEF it
<1>6. it[{}] = s
  <2>1. {} \in SUBSET (1 .. N)
    OBVIOUS
  <2> QED BY <1>5, <2>1
<1>7. ASSUME NEW n \in 1 .. N, it[1 .. (n - 1)] \in V PROVE it[1 .. n] = G[n][it[1 .. (n - 1)]]
  <2>1. 1 .. n # {} /\ Max(1 .. n) = n /\ (1 .. n) \ {n} = 1 .. (n - 1) /\ 1 .. n \in SUBSET (1 .. N)
    BY LastOfInterval
  <2>2. it[1 .. n] = Put(it[(1 .. n) \ {Max(1 .. n)}], q[Max(1 .. n)], [i \in 1 .. BytesPerWord |-> 0])
    BY <1>5, <2>1
  <2>3. it[1 .. n] = Put(it[1 .. (n - 1)], q[n], [i \in 1 .. BytesPerWord |-> 0])
    BY <2>1, <2>2
  <2> QED BY <1>3, <1>7, <2>3
<1> HIDE DEF Is
<1>8. PICK f : Course(f, s, G, N, V) /\ it[1 .. N] = f[N]
  <2>1. OfFirst(it, s, G, N, V)
    BY <1>6, <1>7 DEF OfFirst
  <2> QED BY <1>2, <2>1, FoldSteps
<1>9. f[0] = s
  BY <1>8 DEF StepsFrom, Course
<1>10. ASSUME NEW n \in 1 .. N PROVE f[n] = Put(f[n - 1], q[n], [i \in 1 .. BytesPerWord |-> 0])
  <2>1. n \in 0 .. N /\ n # 0 /\ f[n - 1] \in V
    BY <1>8 DEF Course
  <2>2. f[n] = G[n][f[n - 1]]
    BY <1>8, <2>1 DEF StepsFrom, Course
  <2> QED BY <1>3, <2>1, <2>2
<1>11. f \in [0 .. N -> V]
  BY <1>8 DEF Course
<1> QED BY <1>1, <1>8, <1>9, <1>10, <1>11 DEF InitCourse

\* The chunks of a move, one after the other.
ChunkKeeps(q, N, V) == DOMAIN q = 1 .. N /\ \A t \in V, n \in 1 .. N : CopyChunk(t, q[n]) \in V

ChunkCourse(f, s, q, N, V) ==
  /\ f \in [0 .. N -> V] /\ f[0] = s /\ CopyChunks(s, q) = f[N]
  /\ \A n \in 1 .. N : f[n] = CopyChunk(f[n - 1], q[n])

\* A plain move, chunk by chunk.
LEMMA ChunkSteps ==
  ASSUME NEW V, NEW s \in V, NEW q, NEW N \in Nat, ChunkKeeps(q, N, V)
  PROVE  \E f : ChunkCourse(f, s, q, N, V)
<1>0. DOMAIN q = 1 .. N /\ \A t \in V, n \in 1 .. N : CopyChunk(t, q[n]) \in V
  BY DEF ChunkKeeps
<1> DEFINE Is(h) == h = [t \in SUBSET (1 .. N) |->
                           IF t = {} THEN s ELSE CopyChunk(h[t \ {Max(t)}], q[Max(t)])]
           it == CHOOSE h : Is(h)
           G == [n \in 1 .. N |-> [t \in V |-> CopyChunk(t, q[n])]]
<1>1. CopyChunks(s, q) = it[1 .. N]
  BY <1>0, Zenon DEF CopyChunks, FoldLeft, MapThenFoldSet
<1>2. Turns(G, N, V)
  BY <1>0 DEF Turns
<1>3. \A n \in 1 .. N, t \in V : G[n][t] = CopyChunk(t, q[n])
  OBVIOUS
<1> HIDE DEF G
<1>4. \E h : Is(h)
  <2>0. PICK h : OfPlaces(h, s, G, N, V)
    <3> HIDE DEF Is, it
    <3> QED BY <1>2, FoldExists
  <2>1. /\ h \in [SUBSET (1 .. N) -> V]
        /\ \A t \in SUBSET (1 .. N) : h[t] = IF t = {} THEN s ELSE G[Max(t)][h[t \ {Max(t)}]]
    BY <2>0 DEF OfPlaces
  <2>2. ASSUME NEW t \in SUBSET (1 .. N), t # {}
        PROVE  h[t] = CopyChunk(h[t \ {Max(t)}], q[Max(t)])
    <3>1. Max(t) \in 1 .. N
      BY <2>2, LastOf
    <3>2. t \ {Max(t)} \in SUBSET (1 .. N)
      OBVIOUS
    <3>3. h[t \ {Max(t)}] \in V
      BY <2>1, <3>2
    <3> QED BY <1>3, <2>1, <2>2, <3>1, <3>3
  <2>3. \A t \in SUBSET (1 .. N) :
          h[t] = IF t = {} THEN s ELSE CopyChunk(h[t \ {Max(t)}], q[Max(t)])
    BY <2>1, <2>2
  <2>4. h = [t \in SUBSET (1 .. N) |-> h[t]]
    BY <2>1
  <2>5. Is(h)
    BY <2>3, <2>4
  <2> HIDE DEF Is
  <2> QED BY <2>5
<1>5. Is(it)
  <2> HIDE DEF Is
  <2> QED BY <1>4
<1> HIDE DEF it
<1>6. it[{}] = s
  <2>1. {} \in SUBSET (1 .. N)
    OBVIOUS
  <2> QED BY <1>5, <2>1
<1>7. ASSUME NEW n \in 1 .. N, it[1 .. (n - 1)] \in V PROVE it[1 .. n] = G[n][it[1 .. (n - 1)]]
  <2>1. 1 .. n # {} /\ Max(1 .. n) = n /\ (1 .. n) \ {n} = 1 .. (n - 1) /\ 1 .. n \in SUBSET (1 .. N)
    BY LastOfInterval
  <2>2. it[1 .. n] = CopyChunk(it[(1 .. n) \ {Max(1 .. n)}], q[Max(1 .. n)])
    BY <1>5, <2>1
  <2>3. it[1 .. n] = CopyChunk(it[1 .. (n - 1)], q[n])
    BY <2>1, <2>2
  <2> QED BY <1>3, <1>7, <2>3
<1> HIDE DEF Is
<1>8. PICK f : Course(f, s, G, N, V) /\ it[1 .. N] = f[N]
  <2>1. OfFirst(it, s, G, N, V)
    BY <1>6, <1>7 DEF OfFirst
  <2> QED BY <1>2, <2>1, FoldSteps
<1>9. f[0] = s
  BY <1>8 DEF StepsFrom, Course
<1>10. ASSUME NEW n \in 1 .. N PROVE f[n] = CopyChunk(f[n - 1], q[n])
  <2>1. n \in 0 .. N /\ n # 0 /\ f[n - 1] \in V
    BY <1>8 DEF Course
  <2>2. f[n] = G[n][f[n - 1]]
    BY <1>8, <2>1 DEF StepsFrom, Course
  <2> QED BY <1>3, <2>1, <2>2
<1>11. f \in [0 .. N -> V]
  BY <1>8 DEF Course
<1> QED BY <1>1, <1>8, <1>9, <1>10, <1>11 DEF ChunkCourse

\* The bytes of a move.
ByteKeeps(filter, q, N, V) ==
  /\ DOMAIN q = 1 .. N
  /\ \A t \in V, n \in 1 .. N : CopyByte(t, filter, q[n]) \in V

ByteCourse(f, s, filter, q, N, V) ==
  /\ f \in [0 .. N -> V] /\ f[0] = s /\ CopyBytes(s, filter, q) = f[N]
  /\ \A n \in 1 .. N : f[n] = CopyByte(f[n - 1], filter, q[n])

\* Bytes, one by one.
LEMMA ByteSteps ==
  ASSUME NEW filter, NEW V, NEW s \in V, NEW q, NEW N \in Nat, ByteKeeps(filter, q, N, V)
  PROVE  \E f : ByteCourse(f, s, filter, q, N, V)
<1>0. DOMAIN q = 1 .. N /\ \A t \in V, n \in 1 .. N : CopyByte(t, filter, q[n]) \in V
  BY DEF ByteKeeps
<1> DEFINE Is(h) == h = [t \in SUBSET (1 .. N) |->
                           IF t = {} THEN s ELSE CopyByte(h[t \ {Max(t)}], filter, q[Max(t)])]
           it == CHOOSE h : Is(h)
           G == [n \in 1 .. N |-> [t \in V |-> CopyByte(t, filter, q[n])]]
<1>1. CopyBytes(s, filter, q) = it[1 .. N]
  BY <1>0, Zenon DEF CopyBytes, FoldLeft, MapThenFoldSet
<1>2. Turns(G, N, V)
  BY <1>0 DEF Turns
<1>3. \A n \in 1 .. N, t \in V : G[n][t] = CopyByte(t, filter, q[n])
  OBVIOUS
<1> HIDE DEF G
<1>4. \E h : Is(h)
  <2>0. PICK h : OfPlaces(h, s, G, N, V)
    <3> HIDE DEF Is, it
    <3> QED BY <1>2, FoldExists
  <2>1. /\ h \in [SUBSET (1 .. N) -> V]
        /\ \A t \in SUBSET (1 .. N) : h[t] = IF t = {} THEN s ELSE G[Max(t)][h[t \ {Max(t)}]]
    BY <2>0 DEF OfPlaces
  <2>2. ASSUME NEW t \in SUBSET (1 .. N), t # {}
        PROVE  h[t] = CopyByte(h[t \ {Max(t)}], filter, q[Max(t)])
    <3>1. Max(t) \in 1 .. N
      BY <2>2, LastOf
    <3>2. t \ {Max(t)} \in SUBSET (1 .. N)
      OBVIOUS
    <3>3. h[t \ {Max(t)}] \in V
      BY <2>1, <3>2
    <3> QED BY <1>3, <2>1, <2>2, <3>1, <3>3
  <2>3. \A t \in SUBSET (1 .. N) :
          h[t] = IF t = {} THEN s ELSE CopyByte(h[t \ {Max(t)}], filter, q[Max(t)])
    BY <2>1, <2>2
  <2>4. h = [t \in SUBSET (1 .. N) |-> h[t]]
    BY <2>1
  <2>5. Is(h)
    BY <2>3, <2>4
  <2> HIDE DEF Is
  <2> QED BY <2>5
<1>5. Is(it)
  <2> HIDE DEF Is
  <2> QED BY <1>4
<1> HIDE DEF it
<1>6. it[{}] = s
  <2>1. {} \in SUBSET (1 .. N)
    OBVIOUS
  <2> QED BY <1>5, <2>1
<1>7. ASSUME NEW n \in 1 .. N, it[1 .. (n - 1)] \in V PROVE it[1 .. n] = G[n][it[1 .. (n - 1)]]
  <2>1. 1 .. n # {} /\ Max(1 .. n) = n /\ (1 .. n) \ {n} = 1 .. (n - 1) /\ 1 .. n \in SUBSET (1 .. N)
    BY LastOfInterval
  <2>2. it[1 .. n] = CopyByte(it[(1 .. n) \ {Max(1 .. n)}], filter, q[Max(1 .. n)])
    BY <1>5, <2>1
  <2>3. it[1 .. n] = CopyByte(it[1 .. (n - 1)], filter, q[n])
    BY <2>1, <2>2
  <2> QED BY <1>3, <1>7, <2>3
<1> HIDE DEF Is
<1>8. PICK f : Course(f, s, G, N, V) /\ it[1 .. N] = f[N]
  <2>1. OfFirst(it, s, G, N, V)
    BY <1>6, <1>7 DEF OfFirst
  <2> QED BY <1>2, <2>1, FoldSteps
<1>9. f[0] = s
  BY <1>8 DEF StepsFrom, Course
<1>10. ASSUME NEW n \in 1 .. N PROVE f[n] = CopyByte(f[n - 1], filter, q[n])
  <2>1. n \in 0 .. N /\ n # 0 /\ f[n - 1] \in V
    BY <1>8 DEF Course
  <2>2. f[n] = G[n][f[n - 1]]
    BY <1>8, <2>1 DEF StepsFrom, Course
  <2> QED BY <1>3, <2>1, <2>2
<1>11. f \in [0 .. N -> V]
  BY <1>8 DEF Course
<1> QED BY <1>1, <1>8, <1>9, <1>10, <1>11 DEF ByteCourse

\* The words of a row.
WordKeeps(filter, q, N, V) ==
  /\ DOMAIN q = 1 .. N
  /\ \A t \in V, n \in 1 .. N : CopyWord(t, filter, q[n]) \in V

WordCourse(f, s, filter, q, N, V) ==
  /\ f \in [0 .. N -> V] /\ f[0] = s /\ CopyWords(s, filter, q) = f[N]
  /\ \A n \in 1 .. N : f[n] = CopyWord(f[n - 1], filter, q[n])

\* Words, one by one.
LEMMA WordSteps ==
  ASSUME NEW filter, NEW V, NEW s \in V, NEW q, NEW N \in Nat, WordKeeps(filter, q, N, V)
  PROVE  \E f : WordCourse(f, s, filter, q, N, V)
<1>0. DOMAIN q = 1 .. N /\ \A t \in V, n \in 1 .. N : CopyWord(t, filter, q[n]) \in V
  BY DEF WordKeeps
<1> DEFINE Is(h) == h = [t \in SUBSET (1 .. N) |->
                           IF t = {} THEN s ELSE CopyWord(h[t \ {Max(t)}], filter, q[Max(t)])]
           it == CHOOSE h : Is(h)
           G == [n \in 1 .. N |-> [t \in V |-> CopyWord(t, filter, q[n])]]
<1>1. CopyWords(s, filter, q) = it[1 .. N]
  BY <1>0, Zenon DEF CopyWords, FoldLeft, MapThenFoldSet
<1>2. Turns(G, N, V)
  BY <1>0 DEF Turns
<1>3. \A n \in 1 .. N, t \in V : G[n][t] = CopyWord(t, filter, q[n])
  OBVIOUS
<1> HIDE DEF G
<1>4. \E h : Is(h)
  <2>0. PICK h : OfPlaces(h, s, G, N, V)
    <3> HIDE DEF Is, it
    <3> QED BY <1>2, FoldExists
  <2>1. /\ h \in [SUBSET (1 .. N) -> V]
        /\ \A t \in SUBSET (1 .. N) : h[t] = IF t = {} THEN s ELSE G[Max(t)][h[t \ {Max(t)}]]
    BY <2>0 DEF OfPlaces
  <2>2. ASSUME NEW t \in SUBSET (1 .. N), t # {}
        PROVE  h[t] = CopyWord(h[t \ {Max(t)}], filter, q[Max(t)])
    <3>1. Max(t) \in 1 .. N
      BY <2>2, LastOf
    <3>2. t \ {Max(t)} \in SUBSET (1 .. N)
      OBVIOUS
    <3>3. h[t \ {Max(t)}] \in V
      BY <2>1, <3>2
    <3> QED BY <1>3, <2>1, <2>2, <3>1, <3>3
  <2>3. \A t \in SUBSET (1 .. N) :
          h[t] = IF t = {} THEN s ELSE CopyWord(h[t \ {Max(t)}], filter, q[Max(t)])
    BY <2>1, <2>2
  <2>4. h = [t \in SUBSET (1 .. N) |-> h[t]]
    BY <2>1
  <2>5. Is(h)
    BY <2>3, <2>4
  <2> HIDE DEF Is
  <2> QED BY <2>5
<1>5. Is(it)
  <2> HIDE DEF Is
  <2> QED BY <1>4
<1> HIDE DEF it
<1>6. it[{}] = s
  <2>1. {} \in SUBSET (1 .. N)
    OBVIOUS
  <2> QED BY <1>5, <2>1
<1>7. ASSUME NEW n \in 1 .. N, it[1 .. (n - 1)] \in V PROVE it[1 .. n] = G[n][it[1 .. (n - 1)]]
  <2>1. 1 .. n # {} /\ Max(1 .. n) = n /\ (1 .. n) \ {n} = 1 .. (n - 1) /\ 1 .. n \in SUBSET (1 .. N)
    BY LastOfInterval
  <2>2. it[1 .. n] = CopyWord(it[(1 .. n) \ {Max(1 .. n)}], filter, q[Max(1 .. n)])
    BY <1>5, <2>1
  <2>3. it[1 .. n] = CopyWord(it[1 .. (n - 1)], filter, q[n])
    BY <2>1, <2>2
  <2> QED BY <1>3, <1>7, <2>3
<1> HIDE DEF Is
<1>8. PICK f : Course(f, s, G, N, V) /\ it[1 .. N] = f[N]
  <2>1. OfFirst(it, s, G, N, V)
    BY <1>6, <1>7 DEF OfFirst
  <2> QED BY <1>2, <2>1, FoldSteps
<1>9. f[0] = s
  BY <1>8 DEF StepsFrom, Course
<1>10. ASSUME NEW n \in 1 .. N PROVE f[n] = CopyWord(f[n - 1], filter, q[n])
  <2>1. n \in 0 .. N /\ n # 0 /\ f[n - 1] \in V
    BY <1>8 DEF Course
  <2>2. f[n] = G[n][f[n - 1]]
    BY <1>8, <2>1 DEF StepsFrom, Course
  <2> QED BY <1>3, <2>1, <2>2
<1>11. f \in [0 .. N -> V]
  BY <1>8 DEF Course
<1> QED BY <1>1, <1>8, <1>9, <1>10, <1>11 DEF WordCourse

\* The rows of a move.
RowKeeps(filter, v, q, N, V) ==
  /\ DOMAIN q = 1 .. N
  /\ q = [r \in 1 .. v.rows |-> r]
  /\ \A t \in V, n \in 1 .. N : CopyRow(t, filter, v, q[n]) \in V

RowCourse(f, s, filter, v, q, N, V) ==
  /\ f \in [0 .. N -> V] /\ f[0] = s /\ copy2d(s, filter, v) = f[N]
  /\ \A n \in 1 .. N : f[n] = CopyRow(f[n - 1], filter, v, q[n])

\* copy2d, row by row.
LEMMA RowSteps ==
  ASSUME NEW filter, NEW v, NEW V, NEW s \in V, NEW q, NEW N \in Nat, RowKeeps(filter, v, q, N, V)
  PROVE  \E f : RowCourse(f, s, filter, v, q, N, V)
<1>0. /\ DOMAIN q = 1 .. N
      /\ q = [r \in 1 .. v.rows |-> r]
      /\ \A t \in V, n \in 1 .. N : CopyRow(t, filter, v, q[n]) \in V
  BY DEF RowKeeps
<1> DEFINE Is(h) == h = [t \in SUBSET (1 .. N) |->
                           IF t = {} THEN s ELSE CopyRow(h[t \ {Max(t)}], filter, v, q[Max(t)])]
           it == CHOOSE h : Is(h)
           G == [n \in 1 .. N |-> [t \in V |-> CopyRow(t, filter, v, q[n])]]
<1>1. copy2d(s, filter, v) = it[1 .. N]
  BY <1>0, Zenon DEF copy2d, FoldLeft, MapThenFoldSet
<1>2. Turns(G, N, V)
  BY <1>0 DEF Turns
<1>3. \A n \in 1 .. N, t \in V : G[n][t] = CopyRow(t, filter, v, q[n])
  OBVIOUS
<1> HIDE DEF G
<1>4. \E h : Is(h)
  <2>0. PICK h : OfPlaces(h, s, G, N, V)
    <3> HIDE DEF Is, it
    <3> QED BY <1>2, FoldExists
  <2>1. /\ h \in [SUBSET (1 .. N) -> V]
        /\ \A t \in SUBSET (1 .. N) : h[t] = IF t = {} THEN s ELSE G[Max(t)][h[t \ {Max(t)}]]
    BY <2>0 DEF OfPlaces
  <2>2. ASSUME NEW t \in SUBSET (1 .. N), t # {}
        PROVE  h[t] = CopyRow(h[t \ {Max(t)}], filter, v, q[Max(t)])
    <3>1. Max(t) \in 1 .. N
      BY <2>2, LastOf
    <3>2. t \ {Max(t)} \in SUBSET (1 .. N)
      OBVIOUS
    <3>3. h[t \ {Max(t)}] \in V
      BY <2>1, <3>2
    <3> QED BY <1>3, <2>1, <2>2, <3>1, <3>3
  <2>3. \A t \in SUBSET (1 .. N) :
          h[t] = IF t = {} THEN s ELSE CopyRow(h[t \ {Max(t)}], filter, v, q[Max(t)])
    BY <2>1, <2>2
  <2>4. h = [t \in SUBSET (1 .. N) |-> h[t]]
    BY <2>1
  <2>5. Is(h)
    BY <2>3, <2>4
  <2> HIDE DEF Is
  <2> QED BY <2>5
<1>5. Is(it)
  <2> HIDE DEF Is
  <2> QED BY <1>4
<1> HIDE DEF it
<1>6. it[{}] = s
  <2>1. {} \in SUBSET (1 .. N)
    OBVIOUS
  <2> QED BY <1>5, <2>1
<1>7. ASSUME NEW n \in 1 .. N, it[1 .. (n - 1)] \in V PROVE it[1 .. n] = G[n][it[1 .. (n - 1)]]
  <2>1. 1 .. n # {} /\ Max(1 .. n) = n /\ (1 .. n) \ {n} = 1 .. (n - 1) /\ 1 .. n \in SUBSET (1 .. N)
    BY LastOfInterval
  <2>2. it[1 .. n] = CopyRow(it[(1 .. n) \ {Max(1 .. n)}], filter, v, q[Max(1 .. n)])
    BY <1>5, <2>1
  <2>3. it[1 .. n] = CopyRow(it[1 .. (n - 1)], filter, v, q[n])
    BY <2>1, <2>2
  <2> QED BY <1>3, <1>7, <2>3
<1> HIDE DEF Is
<1>8. PICK f : Course(f, s, G, N, V) /\ it[1 .. N] = f[N]
  <2>1. OfFirst(it, s, G, N, V)
    BY <1>6, <1>7 DEF OfFirst
  <2> QED BY <1>2, <2>1, FoldSteps
<1>9. f[0] = s
  BY <1>8 DEF StepsFrom, Course
<1>10. ASSUME NEW n \in 1 .. N PROVE f[n] = CopyRow(f[n - 1], filter, v, q[n])
  <2>1. n \in 0 .. N /\ n # 0 /\ f[n - 1] \in V
    BY <1>8 DEF Course
  <2>2. f[n] = G[n][f[n - 1]]
    BY <1>8, <2>1 DEF StepsFrom, Course
  <2> QED BY <1>3, <2>1, <2>2
<1>11. f \in [0 .. N -> V]
  BY <1>8 DEF Course
<1> QED BY <1>1, <1>8, <1>9, <1>10, <1>11 DEF RowCourse

\* A function on 1 .. n is a sequence of that length.
LEMMA LenOfFunction ==
  ASSUME NEW n \in Nat, NEW S, NEW q \in [1 .. n -> S]
  PROVE  q \in Seq(S) /\ Len(q) = n
<1>1. q \in Seq(S) /\ DOMAIN q = 1 .. n
  BY SeqDef
<1>2. DOMAIN q = 1 .. Len(q) /\ Len(q) \in Nat
  BY <1>1, LenProperties
<1> DEFINE m == Len(q)
<1> HIDE DEF m
<1>3. 1 .. m = 1 .. n /\ m \in Nat
  BY <1>1, <1>2 DEF m
<1>4. m <= n
  <2>1. m >= 1 => m \in 1 .. n
    BY <1>3
  <2> QED BY <1>3, <2>1
<1>5. n <= m
  <2>1. n >= 1 => n \in 1 .. m
    BY <1>3
  <2> QED BY <1>3, <2>1
<1>6. m = n
  BY <1>3, <1>4, <1>5
<1> QED BY <1>1, <1>6 DEF m

-----------------------------------------------------------------------------
(***************************************************************************)
(* Accesses.  A byte of an access is told by its distance from the first.  *)
(***************************************************************************)
From(a, x) == Wrap((x + AddressSpace) - a)

\* The address space is not empty, and a word fits in it.
LEMMA SpaceIs ==
  /\ AddressSpace \in Nat /\ AddressSpace > 0 /\ Address = 0 .. AddressSpace - 1
  /\ BytesPerWord \in Nat /\ BytesPerWord > 0 /\ BytesPerWord <= AddressSpace
  /\ BLKSIZE \in Nat /\ BLKSIZE > 0 /\ 0 \in Byte /\ Unwritten \notin Byte
<1>1. /\ AddressSpace \in Nat /\ AddressSpace > 0 /\ Address = 0 .. AddressSpace - 1
      /\ 0 \in Byte /\ Unwritten \notin Byte
  BY MemoryAssumption DEF Address
<1>2. /\ BLKSIZE \in Nat /\ BLKSIZE > 0 /\ BytesPerWord \in Nat /\ BytesPerWord > 0
      /\ BytesPerWord <= BLKSIZE
  BY MemoryAssumption
<1>3. 0 \in Address
  BY <1>1
<1>4. BLKSIZE <= AddressSpace
  <2>1. BLKSIZE * BlockOf(0) + BLKSIZE <= AddressSpace /\ BlockOf(0) \in Nat
    BY <1>3, BlocksInSpace, BlockAndOffset
  <2>2. BLKSIZE * BlockOf(0) \in Nat
    BY <1>2, <2>1, SMT
  <2> DEFINE m == BLKSIZE * BlockOf(0)
  <2> HIDE DEF m
  <2>3. m \in Nat /\ m + BLKSIZE <= AddressSpace
    BY <2>1, <2>2 DEF m
  <2> QED BY <1>1, <1>2, <2>3
<1> QED BY <1>1, <1>2, <1>4

\* Any number stands for an address.
LEMMA WrapIs ==
  ASSUME NEW n \in Int
  PROVE  Wrap(n) \in Address /\ (n \in Address => Wrap(n) = n)
<1>1. (n % AddressSpace) \in Address
  BY SpaceIs, IntRemainder
<1>2. n \in Address => n % AddressSpace = n
  BY SpaceIs, SMT
<1> QED BY <1>1, <1>2 DEF Wrap

\* A wrapped address goes on as the number does.
LEMMA WrapOfSum ==
  ASSUME NEW c \in Int, NEW x \in Int
  PROVE  Wrap(Wrap(c) + x) = Wrap(c + x)
BY SpaceIs, RemainderOfSum DEF Wrap

\* Once around.
LEMMA WrapAround ==
  ASSUME NEW c \in Int
  PROVE  Wrap(c + AddressSpace) = Wrap(c)
<1>1. TimesKApart(c + AddressSpace, c, AddressSpace, 1)
  BY SpaceIs DEF TimesKApart
<1> QED BY <1>1, SpaceIs, SameRemainder DEF Wrap

\* The distance of a byte, and the byte at a distance.
LEMMA FromIs ==
  ASSUME NEW a \in Address
  PROVE  /\ \A x \in Address : From(a, x) \in Address /\ Wrap(a + From(a, x)) = x
         /\ \A k \in Address : Wrap(a + k) \in Address /\ From(a, Wrap(a + k)) = k
<1>1. a \in Int /\ AddressSpace \in Int
  BY SpaceIs
<1>2. ASSUME NEW x \in Address PROVE From(a, x) \in Address /\ Wrap(a + From(a, x)) = x
  <2> DEFINE c == (x + AddressSpace) - a
  <2>1. x \in Int /\ c \in Int /\ c + a = x + AddressSpace
    BY <1>1, SpaceIs
  <2> HIDE DEF c
  <2>2. Wrap(c) \in Address /\ Wrap(Wrap(c) + a) = Wrap(c + a)
    BY <1>1, <2>1, WrapIs, WrapOfSum
  <2>3. Wrap(c + a) = x
    BY <2>1, WrapAround, WrapIs
  <2>4. Wrap(c) + a = a + Wrap(c)
    BY <1>1, <2>2, SpaceIs
  <2>5. From(a, x) = Wrap(c)
    BY DEF From, c
  <2> QED BY <2>2, <2>3, <2>4, <2>5
<1>3. ASSUME NEW k \in Address PROVE Wrap(a + k) \in Address /\ From(a, Wrap(a + k)) = k
  <2> DEFINE w == Wrap(a + k)
             d == AddressSpace - a
  <2>1. k \in Int /\ a + k \in Int /\ d \in Int /\ (a + k) + d = k + AddressSpace
    BY <1>1, SpaceIs
  <2>2. w \in Address
    BY <2>1, WrapIs
  <2>3. Wrap(w + d) = Wrap((a + k) + d)
    <3> HIDE DEF d
    <3> QED BY <2>1, WrapOfSum
  <2>4. Wrap(k + AddressSpace) = k
    BY <2>1, WrapAround, WrapIs
  <2>5. (w + AddressSpace) - a = w + d
    <3> HIDE DEF w
    <3> QED BY <1>1, <2>2, SpaceIs
  <2> HIDE DEF w, d
  <2>6. From(a, w) = k
    BY <2>1, <2>3, <2>4, <2>5 DEF From
  <2> QED BY <2>2, <2>6 DEF w
<1> QED BY <1>2, <1>3

DeviceAt(a) == CHOOSE d \in MemoryDevices : a \in d.start .. d.end

\* An address is of one device at most.
LEMMA DeviceIs ==
  ASSUME NEW d \in MemoryDevices, NEW a \in d.start .. d.end
  PROVE  DeviceAt(a) = d /\ d.start \in Address /\ d.end \in Address /\ a \in Address
<1>1. \A e \in MemoryDevices : e.start \in Address /\ e.end \in Address
  BY MemoryAssumption
<1>2. \A e \in MemoryDevices : a \in e.start .. e.end => e = d
  <2>1. SUFFICES ASSUME NEW e \in MemoryDevices, a \in e.start .. e.end, e # d PROVE FALSE
    OBVIOUS
  <2>2. d.end < e.start \/ e.end < d.start
    BY <2>1, DevicesDisjoint
  <2>3. e.start \in Int /\ e.end \in Int /\ d.start \in Int /\ d.end \in Int
    BY <1>1, SpaceIs
  <2> QED BY <2>1, <2>2, <2>3
<1>3. DeviceAt(a) \in MemoryDevices /\ a \in DeviceAt(a).start .. DeviceAt(a).end
  BY DEF DeviceAt
<1>4. a \in Address
  BY <1>1, SpaceIs
<1> QED BY <1>1, <1>2, <1>3, <1>4

\* What an access touches.
LEMMA AccessIs ==
  ASSUME NEW a \in Address, NEW n \in 1 .. AddressSpace
  PROVE  /\ deviceForAccess(a, n) \in {"memory", "crosses", "device"}
         /\ deviceForAccess(a, n) = "memory" =>
              \A k \in 0 .. n - 1 : ~isMemoryDeviceAddress(Wrap(a + k))
         /\ deviceForAccess(a, n) = "device" =>
              \E d \in MemoryDevices : d.start <= a /\ a + n - 1 <= d.end
<1> DEFINE touched == Touched(a, n)
           out == \E d \in touched : a < d.start \/ a + n - 1 > d.end
           end == a + n - 1
<1>0. /\ a \in Nat /\ n \in Nat /\ n >= 1 /\ end \in Nat /\ end = a + n - 1
      /\ AddressSpace \in Nat /\ a < AddressSpace /\ n <= AddressSpace
  BY SpaceIs
<1>1. deviceForAccess(a, n) = CASE touched = {} -> "memory" [] out -> "crosses" [] OTHER -> "device"
  BY DEF deviceForAccess
<1>2. \A d \in MemoryDevices : d.start \in Nat /\ d.end \in Nat /\ d.end < AddressSpace
  BY SpaceIs, MemoryAssumption
<1>3. touched = {d \in MemoryDevices : \/ a <= d.end /\ end >= d.start
                                       \/ end >= AddressSpace /\ Wrap(end) >= d.start}
  BY DEF Touched
<1> HIDE DEF touched, out, end
<1>4. out => touched # {}
  BY DEF out
<1>5. CASE touched = {}
  <2>1. deviceForAccess(a, n) = "memory"
    BY <1>1, <1>4, <1>5
  <2>2. ASSUME NEW k \in 0 .. n - 1, isMemoryDeviceAddress(Wrap(a + k)) PROVE FALSE
    <3>1. PICK d \in MemoryDevices : Wrap(a + k) \in d.start .. d.end
      BY <2>2 DEF isMemoryDeviceAddress
    <3>2. /\ ~(a <= d.end /\ end >= d.start)
          /\ ~(end >= AddressSpace /\ Wrap(end) >= d.start)
      BY <1>3, <1>5
    <3>3. CASE a + k < AddressSpace
      <4>1. a + k \in Address
        BY <1>0, <3>3, SpaceIs
      <4>2. Wrap(a + k) = a + k
        BY <4>1, <1>0, WrapIs
      <4> QED BY <1>0, <1>2, <3>1, <3>2, <4>2
    <3>4. CASE a + k >= AddressSpace
      <4> DEFINE w == (a + k) - AddressSpace
                 v == end - AddressSpace
      <4>1. w \in Address /\ v \in Address /\ w <= v /\ a + k = w + AddressSpace
            /\ end = v + AddressSpace /\ end >= AddressSpace
        BY <1>0, <3>4, SpaceIs
      <4>2. w \in Int /\ v \in Int
        BY <4>1, SpaceIs
      <4> HIDE DEF w, v
      <4>3. Wrap(a + k) = w /\ Wrap(end) = v
        BY <4>1, <4>2, WrapAround, WrapIs
      <4>4. d.start <= w
        BY <3>1, <4>3
      <4>5. v >= d.start
        BY <1>2, <4>1, <4>2, <4>4
      <4> QED BY <3>2, <4>1, <4>3, <4>5
    <3> QED BY <1>0, <3>3, <3>4
  <2> QED BY <2>1, <2>2
<1>6. CASE touched # {} /\ out
  BY <1>1, <1>6
<1>7. CASE touched # {} /\ ~out
  <2>1. deviceForAccess(a, n) = "device"
    BY <1>1, <1>7
  <2>2. PICK d \in touched : TRUE
    BY <1>7
  <2>3. d \in MemoryDevices /\ ~(a < d.start) /\ ~(a + n - 1 > d.end)
    BY <1>3, <1>7, <2>2 DEF out
  <2>4. d.start <= a /\ a + n - 1 <= d.end
    BY <1>0, <1>2, <2>3
  <2> QED BY <2>1, <2>3, <2>4
<1> QED BY <1>5, <1>6, <1>7

\* The access of a byte.
LEMMA ByteAccess ==
  ASSUME NEW x \in Address
  PROVE  deviceForAccess(x, 1) = IF isMemoryDeviceAddress(x) THEN "device" ELSE "memory"
<1> DEFINE touched == Touched(x, 1)
           out == \E d \in touched : x < d.start \/ x + 1 - 1 > d.end
<1>1. deviceForAccess(x, 1) = CASE touched = {} -> "memory" [] out -> "crosses" [] OTHER -> "device"
  BY DEF deviceForAccess
<1>2. x \in Nat /\ x < AddressSpace /\ x + 1 - 1 = x
  BY SpaceIs
<1>3. touched = {d \in MemoryDevices : \/ x <= d.end /\ x >= d.start
                                       \/ x >= AddressSpace /\ Wrap(x) >= d.start}
  BY <1>2 DEF Touched
<1>4. \A d \in MemoryDevices : d.start \in Nat /\ d.end \in Nat
  BY SpaceIs, MemoryAssumption
<1>5. \A d \in MemoryDevices : d \in touched <=> x \in d.start .. d.end
  BY <1>2, <1>3, <1>4, SpaceIs
<1>6. touched \subseteq MemoryDevices
  BY <1>3
<1> HIDE DEF touched
<1>7. ~out
  BY <1>2, <1>4, <1>5, <1>6
<1>8. touched = {} <=> ~isMemoryDeviceAddress(x)
  BY <1>5, <1>6 DEF isMemoryDeviceAddress
<1> HIDE DEF out
<1> QED BY <1>1, <1>7, <1>8

\* The access of a byte of an access that is all memory or all of a device.
LEMMA AccessOfByte ==
  ASSUME NEW a \in Address, NEW n \in 1 .. AddressSpace, deviceForAccess(a, n) # "crosses",
         NEW k \in 0 .. n - 1
  PROVE  /\ Wrap(a + k) \in Address /\ deviceForAccess(Wrap(a + k), 1) = deviceForAccess(a, n)
         /\ deviceForAccess(a, n) = "device" =>
              Wrap(a + k) = a + k /\ DeviceAt(Wrap(a + k)) = DeviceAt(a)
<1>0. a \in Nat /\ n \in Nat /\ k \in Nat /\ a + k \in Int /\ k <= n - 1
  BY SpaceIs
<1>1. Wrap(a + k) \in Address
  BY <1>0, WrapIs
<1>2. CASE deviceForAccess(a, n) = "memory"
  <2>1. ~isMemoryDeviceAddress(Wrap(a + k))
    BY <1>2, AccessIs
  <2> QED BY <1>1, <1>2, <2>1, ByteAccess
<1>3. CASE deviceForAccess(a, n) = "device"
  <2>1. PICK d \in MemoryDevices : d.start <= a /\ a + n - 1 <= d.end
    BY <1>3, AccessIs
  <2>2. d.start \in Nat /\ d.end \in Nat
    BY SpaceIs, MemoryAssumption
  <2>3. a \in d.start .. d.end /\ a + k \in d.start .. d.end
    BY <1>0, <2>1, <2>2
  <2>4. DeviceAt(a) = d /\ DeviceAt(a + k) = d /\ a + k \in Address
    BY <2>3, DeviceIs
  <2>5. Wrap(a + k) = a + k
    BY <1>0, <2>4, WrapIs
  <2>6. isMemoryDeviceAddress(Wrap(a + k))
    BY <2>3, <2>5 DEF isMemoryDeviceAddress
  <2> QED BY <1>1, <1>3, <2>4, <2>5, <2>6, ByteAccess
<1> QED BY <1>2, <1>3, AccessIs

\* However the sum is put together.
LEMMA FromIsAlso ==
  ASSUME NEW a \in Address, NEW x \in Address
  PROVE  Wrap(x + AddressSpace - a) = From(a, x)
<1>1. a \in Int /\ x \in Int /\ AddressSpace \in Int
  BY SpaceIs
<1>2. x + AddressSpace - a = (x + AddressSpace) - a
  BY <1>1
<1> QED BY <1>2 DEF From

\* The bytes of an access: those nearer to its first than its length.
Bytes(a, n) == {x \in Address : From(a, x) < n}

\* The two ways in which the model names the bytes of an access.
LEMMA BytesAre ==
  ASSUME NEW a \in Address, NEW n \in Nat
  PROVE  /\ {Wrap(a + i - 1) : i \in 1 .. n} = Bytes(a, n)
         /\ {Wrap(a + i) : i \in 0 .. n - 1} = Bytes(a, n)
         /\ \A x \in Bytes(a, n) : From(a, x) + 1 \in 1 .. n
<1>0. a \in Nat /\ a < AddressSpace /\ AddressSpace \in Nat
  BY SpaceIs
<1>1. ASSUME NEW i \in 0 .. n - 1 PROVE Wrap(a + i) \in Bytes(a, n)
  <2>1. CASE i < AddressSpace
    <3>1. i \in Address
      BY <2>1, SpaceIs
    <3>2. Wrap(a + i) \in Address /\ From(a, Wrap(a + i)) = i
      BY <3>1, FromIs
    <3> QED BY <3>2 DEF Bytes
  <2>2. CASE i >= AddressSpace
    <3> DEFINE w == Wrap(a + i)
    <3>1. w \in Address
      BY <1>0, WrapIs
    <3> HIDE DEF w
    <3>2. From(a, w) \in Address
      BY <3>1, FromIs
    <3>3. From(a, w) < n
      BY <2>2, <3>2, SpaceIs
    <3> QED BY <3>1, <3>3 DEF Bytes, w
  <2> QED BY <1>0, <2>1, <2>2
<1>2. ASSUME NEW x \in Bytes(a, n)
      PROVE  From(a, x) \in 0 .. n - 1 /\ x = Wrap(a + From(a, x))
  <2>1. x \in Address /\ From(a, x) < n
    BY DEF Bytes
  <2>2. From(a, x) \in Address /\ Wrap(a + From(a, x)) = x
    BY <2>1, FromIs
  <2>3. From(a, x) \in 0 .. n - 1
    BY <2>1, <2>2, SpaceIs
  <2> QED BY <2>2, <2>3
<1>3. {Wrap(a + i) : i \in 0 .. n - 1} = Bytes(a, n)
  BY <1>1, <1>2
<1>4. \A i \in 1 .. n : i - 1 \in 0 .. n - 1 /\ a + i - 1 = a + (i - 1)
  BY <1>0
<1>5. \A i \in 0 .. n - 1 : i + 1 \in 1 .. n /\ a + (i + 1) - 1 = a + i
  BY <1>0
<1>6. {Wrap(a + i - 1) : i \in 1 .. n} = {Wrap(a + i) : i \in 0 .. n - 1}
  BY <1>4, <1>5
<1>7. \A x \in Bytes(a, n) : From(a, x) + 1 \in 1 .. n
  BY <1>2
<1> QED BY <1>3, <1>6, <1>7

(***************************************************************************)
(* Types.                                                                  *)
(***************************************************************************)
Content == Byte \union {Unwritten}

Results == {"ok", "READ_UNUSED_MEM", "INVALID_DEVICE_ACCESS", "DEVICE_ACCESS_UNSUPPORTED",
            "INVALID_DEVICE_MOVE_RANGE", "DEVICE_MOVE_PERIPHERAL_UNSUPPORTED"}

Memories ==
  [byte : [Address -> Content], blocks : SUBSET Block, version : [Block -> Nat],
   register : [Address -> Byte], result : Results]

\* A memory of that type is one whose versions the caches compare.
LEMMA MemoriesAre ==
  ASSUME NEW s \in Memories
  PROVE  /\ IsMemory(s) /\ s.byte \in [Address -> Content] /\ s.blocks \subseteq Block
         /\ s.version \in [Block -> Nat] /\ s.register \in [Address -> Byte] /\ s.result \in Results
         /\ \A r \in Results : [s EXCEPT !.result = r] \in Memories
BY DEF Memories, IsMemory

\* Bytes that are put stay typed.
LEMMA PutIs ==
  ASSUME NEW s \in Memories, NEW a \in Address, NEW bytes \in Seq(Byte)
  PROVE  /\ Put(s, a, bytes) \in Memories
         /\ Put(s, a, bytes).register = s.register /\ Put(s, a, bytes).result = "ok"
         /\ Put(s, a, bytes).byte = [x \in Address |-> IF x \in Bytes(a, Len(bytes))
                                                       THEN bytes[From(a, x) + 1] ELSE s.byte[x]]
<1> DEFINE n == Len(bytes)
           written == {Wrap(a + i - 1) : i \in DOMAIN bytes}
           byte == [x \in Address |-> IF x \in Bytes(a, n) THEN bytes[From(a, x) + 1]
                                      ELSE s.byte[x]]
           blocks == s.blocks \union {BlockOf(x) : x \in written}
           t == [s EXCEPT !.byte = byte, !.blocks = blocks, !.version = Raise(s, a, n),
                          !.result = "ok"]
<1>1. n \in Nat /\ DOMAIN bytes = 1 .. n /\ \A i \in 1 .. n : bytes[i] \in Byte
  BY LenProperties, ElementOfSeq
<1>2. written = Bytes(a, n) /\ Bytes(a, n) \subseteq Address
  BY <1>1, BytesAre DEF Bytes
<1>3. Put(s, a, bytes) = t
  <2> DEFINE old == [x \in Address |-> IF x \in written
                                       THEN bytes[Wrap((x + AddressSpace) - a) + 1] ELSE s.byte[x]]
  <2>1. Put(s, a, bytes) = [s EXCEPT !.byte = old, !.blocks = blocks,
                                     !.version = Raise(s, a, n), !.result = "ok"]
    <3> DEFINE more == {BlockOf(x) : x \in written}
               LastWrite(x) == bytes[Wrap(x + AddressSpace - a) + 1]
               left == [s EXCEPT !.byte = [x \in Address |-> IF x \in written THEN LastWrite(x) ELSE @[x]],
                                 !.blocks = @ \union more, !.version = Raise(s, a, n),
                                 !.result = "ok"]
               right == [s EXCEPT !.byte = [x \in Address |-> IF x \in written THEN LastWrite(x)
                                                             ELSE s.byte[x]],
                                  !.blocks = s.blocks \union more, !.version = Raise(s, a, n),
                                  !.result = "ok"]
    <3>1. Put(s, a, bytes) = left
      BY Zenon DEF Put
    <3>2. left = right
      <4> HIDE DEF written, more, LastWrite, n
      <4> QED BY DEF Memories
    <3>3. right = [s EXCEPT !.byte = old, !.blocks = blocks, !.version = Raise(s, a, n),
                            !.result = "ok"]
      <4>1. \A x \in Address : Wrap(x + AddressSpace - a) = Wrap((x + AddressSpace) - a)
        BY FromIsAlso DEF From
      <4> HIDE DEF written
      <4>2. [x \in Address |-> IF x \in written THEN LastWrite(x) ELSE s.byte[x]] = old
        BY <4>1
      <4> HIDE DEF old, LastWrite, n
      <4> QED BY <4>2
    <3> HIDE DEF left, right, old, blocks, n
    <3> QED BY <3>1, <3>2, <3>3
  <2>2. old = byte
    BY <1>2 DEF From
  <2> QED BY <2>1, <2>2
<1>4. /\ s.byte \in [Address -> Content] /\ s.blocks \subseteq Block
      /\ s.version \in [Block -> Nat] /\ s.register \in [Address -> Byte] /\ IsMemory(s)
  BY MemoriesAre
<1>5. \A x \in Bytes(a, n) : bytes[From(a, x) + 1] \in Byte
  BY <1>1, BytesAre
<1>6. byte \in [Address -> Content]
  BY <1>4, <1>5 DEF Content
<1>7. \A x \in written : BlockOf(x) \in Block
  BY <1>2, BlocksInSpace
<1>8. blocks \in SUBSET Block
  BY <1>4, <1>7
<1>9. Raise(s, a, n) \in [Block -> Nat]
  BY <1>1, <1>4, RaiseRaises
<1> HIDE DEF byte, blocks
<1>10. t \in Memories
  BY <1>6, <1>8, <1>9 DEF Memories, Results
<1>11. t.byte = byte /\ t.register = s.register /\ t.result = "ok"
  BY DEF Memories
<1> QED BY <1>3, <1>10, <1>11 DEF byte

\* So does what a device takes.
LEMMA PutDeviceIs ==
  ASSUME NEW s \in Memories, NEW a \in Address, NEW bytes \in Seq(Byte)
  PROVE  /\ PutDevice(s, a, bytes) \in Memories /\ PutDevice(s, a, bytes).byte = s.byte
         /\ PutDevice(s, a, bytes).result =
              IF DeviceAt(a).write THEN "ok" ELSE "DEVICE_ACCESS_UNSUPPORTED"
         /\ PutDevice(s, a, bytes).register =
              IF DeviceAt(a).write
              THEN [x \in Address |-> IF x \in a .. a + Len(bytes) - 1 THEN bytes[x - a + 1]
                                      ELSE s.register[x]]
              ELSE s.register
<1> DEFINE n == Len(bytes)
           r == [x \in Address |-> IF x \in a .. a + n - 1 THEN bytes[x - a + 1] ELSE s.register[x]]
           t == [s EXCEPT !.register = r, !.result = "ok"]
<1>1. n \in Nat /\ DOMAIN bytes = 1 .. n /\ \A i \in 1 .. n : bytes[i] \in Byte
  BY LenProperties, ElementOfSeq
<1>2. s.register \in [Address -> Byte] /\ a \in Nat /\ Address \subseteq Nat
  BY MemoriesAre, SpaceIs
<1>3. \A x \in Address : x \in a .. a + n - 1 => x - a + 1 \in 1 .. n
  BY <1>1, <1>2
<1>4. r \in [Address -> Byte]
  BY <1>1, <1>2, <1>3
<1>5. PutDevice(s, a, bytes) = IF ~DeviceAt(a).write
                               THEN [s EXCEPT !.result = "DEVICE_ACCESS_UNSUPPORTED"] ELSE t
  BY DEF PutDevice, DeviceAt
<1> HIDE DEF r
<1>6. t \in Memories /\ t.byte = s.byte /\ t.register = r /\ t.result = "ok"
  BY <1>4 DEF Memories, Results
<1>7. LET u == [s EXCEPT !.result = "DEVICE_ACCESS_UNSUPPORTED"]
      IN  /\ u \in Memories /\ u.byte = s.byte /\ u.register = s.register
          /\ u.result = "DEVICE_ACCESS_UNSUPPORTED"
  BY DEF Memories, Results
<1> HIDE DEF t
<1>8. CASE DeviceAt(a).write
  BY <1>5, <1>6, <1>8 DEF r
<1>9. CASE ~DeviceAt(a).write
  BY <1>5, <1>7, <1>9
<1> QED BY <1>8, <1>9

\* The four ways of a store.
LEMMA StoreWays ==
  ASSUME NEW s, NEW a, NEW bytes
  PROVE  storeBytes(s, a, bytes) =
           IF a \in Intercepted THEN [s EXCEPT !.result = "ok"]
           ELSE IF deviceForAccess(a, Len(bytes)) = "crosses"
           THEN [s EXCEPT !.result = "INVALID_DEVICE_ACCESS"]
           ELSE IF deviceForAccess(a, Len(bytes)) = "device" THEN PutDevice(s, a, bytes)
           ELSE Put(s, a, bytes)
<1> DEFINE access == deviceForAccess(a, Len(bytes))
<1> HIDE DEF access
<1>1. storeBytes(s, a, bytes) =
        CASE a \in Intercepted -> [s EXCEPT !.result = "ok"]
          [] a \notin Intercepted /\ access = "crosses" ->
               [s EXCEPT !.result = "INVALID_DEVICE_ACCESS"]
          [] a \notin Intercepted /\ access = "device" -> PutDevice(s, a, bytes)
          [] OTHER -> Put(s, a, bytes)
  BY DEF storeBytes, access
<1>2. CASE a \in Intercepted
  BY <1>1, <1>2
<1>3. CASE a \notin Intercepted /\ access = "crosses"
  BY <1>1, <1>3 DEF access
<1>4. CASE a \notin Intercepted /\ access = "device"
  BY <1>1, <1>4 DEF access
<1>5. CASE a \notin Intercepted /\ access # "crosses" /\ access # "device"
  BY <1>1, <1>5 DEF access
<1> QED BY <1>2, <1>3, <1>4, <1>5

\* A store of bytes into a memory gives a memory.
LEMMA StoreTyped ==
  ASSUME NEW s \in Memories, NEW a \in Address, NEW bytes \in Seq(Byte)
  PROVE  storeBytes(s, a, bytes) \in Memories
<1>1. [s EXCEPT !.result = "ok"] \in Memories /\ [s EXCEPT !.result = "INVALID_DEVICE_ACCESS"] \in Memories
  BY MemoriesAre DEF Results
<1>2. Put(s, a, bytes) \in Memories /\ PutDevice(s, a, bytes) \in Memories
  BY PutIs, PutDeviceIs
<1> QED BY <1>1, <1>2, StoreWays

\* And the bytes of a file.
Placed(file) == IF file.start = 0 THEN Wrap(WordSignBit + AddressSpace - Len(file.bytes))
                ELSE file.start

\* What a file leaves in memory when it is loaded.
LEMMA BulkIs ==
  ASSUME NEW s \in Memories, NEW file, file.start \in Address, file.bytes \in Seq(Content)
  PROVE  /\ Placed(file) \in Address /\ bulkLoadBytes(s, file) \in Memories
         /\ bulkLoadBytes(s, file).byte =
              [a \in Address |-> IF a \in Bytes(Placed(file), Len(file.bytes))
                                 THEN file.bytes[From(Placed(file), a) + 1] ELSE s.byte[a]]
<1> DEFINE n == Len(file.bytes)
           address == Placed(file)
           into == {BlockOf(a) : a \in Bytes(address, n)}
           byte == [a \in Address |-> IF a \in Bytes(address, n)
                                      THEN file.bytes[From(address, a) + 1] ELSE s.byte[a]]
           version == [b \in Block |-> IF b \in into THEN s.version[b] + 1 ELSE s.version[b]]
           t == [s EXCEPT !.byte = byte, !.blocks = s.blocks \union into,
                          !.version = version, !.result = "ok"]
<1>1. n \in Nat /\ \A i \in 1 .. n : file.bytes[i] \in Content
  BY LenProperties, ElementOfSeq
<1>2. address \in Address
  <2>1. WordSignBit + AddressSpace - n \in Int
    BY <1>1, MemoryAssumption, SpaceIs
  <2> QED BY <2>1, WrapIs DEF Placed
<1> HIDE DEF address
<1>3. /\ {Wrap(address + i) : i \in 0 .. n - 1} = Bytes(address, n)
      /\ \A x \in Bytes(address, n) : From(address, x) + 1 \in 1 .. n
      /\ Bytes(address, n) \subseteq Address
  BY <1>1, <1>2, BytesAre DEF Bytes
<1>4. bulkLoadBytes(s, file) = t
  <2> DEFINE written == {Wrap(address + i) : i \in 0 .. n - 1}
             old == [a \in Address |-> IF a \in written
                                       THEN file.bytes[Wrap((a + AddressSpace) - address) + 1]
                                       ELSE s.byte[a]]
             in == {BlockOf(a) : a \in written}
  <2>1. bulkLoadBytes(s, file) =
          [s EXCEPT !.byte = old, !.blocks = s.blocks \union in,
                    !.version = [b \in Block |-> IF b \in in THEN s.version[b] + 1
                                                 ELSE s.version[b]],
                    !.result = "ok"]
    <3> DEFINE LastWrite(a) == file.bytes[Wrap(a + AddressSpace - address) + 1]
           left ==
             [s EXCEPT !.byte = [a \in Address |-> IF a \in written THEN LastWrite(a) ELSE @[a]],
                       !.blocks = @ \union in,
                       !.version = [b \in Block |-> IF b \in in THEN @[b] + 1 ELSE @[b]],
                       !.result = "ok"]
           right ==
             [s EXCEPT !.byte = [a \in Address |-> IF a \in written THEN LastWrite(a) ELSE s.byte[a]],
                       !.blocks = s.blocks \union in,
                       !.version = [b \in Block |-> IF b \in in THEN s.version[b] + 1
                                                    ELSE s.version[b]],
                       !.result = "ok"]
    <3>1. bulkLoadBytes(s, file) = left
      BY Zenon DEF bulkLoadBytes, address, Placed
    <3>2. left = right
      <4> HIDE DEF written, in, LastWrite
      <4> QED BY DEF Memories
    <3> DEFINE new ==
                 [s EXCEPT !.byte = old, !.blocks = s.blocks \union in,
                           !.version = [b \in Block |-> IF b \in in THEN s.version[b] + 1
                                                        ELSE s.version[b]],
                           !.result = "ok"]
    <3>3. right = new
      <4>1. \A a \in Address :
              Wrap(a + AddressSpace - address) = Wrap((a + AddressSpace) - address)
        BY <1>2, FromIsAlso DEF From
      <4> HIDE DEF written
      <4>2. [a \in Address |-> IF a \in written THEN LastWrite(a) ELSE s.byte[a]] = old
        BY <4>1
      <4> HIDE DEF old, LastWrite, in
      <4> QED BY <4>2
    <3>4. bulkLoadBytes(s, file) = new
      <4> HIDE DEF left, right, new
      <4> QED BY <3>1, <3>2, <3>3
    <3> QED BY <3>4
  <2>2. written = Bytes(address, n)
    BY <1>3
  <2>3. old = byte
    BY <2>2 DEF From
  <2>4. in = into
    BY <2>2
  <2> QED BY <2>1, <2>3, <2>4
<1>5. /\ s.byte \in [Address -> Content] /\ s.blocks \subseteq Block
      /\ s.version \in [Block -> Nat]
  BY MemoriesAre
<1>6. byte \in [Address -> Content]
  BY <1>1, <1>3, <1>5
<1>7. into \subseteq Block
  BY <1>3, BlocksInSpace
<1> HIDE DEF byte, into
<1>8. version \in [Block -> Nat]
  BY <1>5
<1>9. s.blocks \union into \in SUBSET Block
  BY <1>5, <1>7
<1> HIDE DEF version
<1>10. t \in Memories /\ t.byte = byte
  BY <1>6, <1>8, <1>9 DEF Memories, Results
<1> QED BY <1>2, <1>4, <1>10 DEF byte, address

-----------------------------------------------------------------------------
(***************************************************************************)
(* Saved memory: the files hold the blocks in runs.                        *)
(***************************************************************************)
RunEnd(s, b) == CHOOSE e \in s.blocks : /\ b <= e /\ b .. e \subseteq s.blocks
                                        /\ e + 1 \notin s.blocks

Length(s, b) == (RunEnd(s, b) - b + 1) * BLKSIZE

File(s, b) == [start |-> b * BLKSIZE,
               bytes |-> [i \in 1 .. Length(s, b) |-> s.byte[b * BLKSIZE + i - 1]]]

\* There is a file for each first block.
LEMMA FilesAre ==
  ASSUME NEW s
  PROVE  saveMemory(s) = {File(s, b) : b \in FirstBlocks(s)}
BY Zenon DEF saveMemory, File, Length, RunEnd

\* A run that begins at a block ends.
LEMMA RunEnds ==
  ASSUME NEW s \in Memories, NEW b \in s.blocks
  PROVE  /\ RunEnd(s, b) \in Block /\ b \in Block /\ b <= RunEnd(s, b)
         /\ b .. RunEnd(s, b) \subseteq s.blocks /\ RunEnd(s, b) + 1 \notin s.blocks
<1>1. s.blocks \subseteq Block /\ Block \subseteq Nat /\ b \in Nat
  BY MemoriesAre DEF Block
<1> DEFINE T == {e \in Nat : b <= e /\ e + 1 \notin s.blocks}
           m == AddressSpace \div BLKSIZE
<1>2. m \in Nat /\ Block = 0 .. m - 1
  BY SpaceIs, QuotientAndRemainder DEF Block
<1>3. m - 1 \in T
  <2> HIDE DEF m
  <2> QED BY <1>1, <1>2
<1>4. PICK e \in T : \A k \in T : e <= k
  <2>1. T \subseteq Nat /\ T # {}
    BY <1>3
  <2> HIDE DEF T
  <2> QED BY <2>1, LeastNatural
<1>5. b .. e \subseteq s.blocks
  <2>1. SUFFICES ASSUME NEW k \in b .. e, k # b PROVE k \in s.blocks
    OBVIOUS
  <2>2. k - 1 \in Nat /\ k - 1 < e /\ b <= k - 1 /\ (k - 1) + 1 = k
    BY <1>1, <1>4, <2>1
  <2>3. k - 1 \notin T
    BY <1>4, <2>2
  <2> QED BY <2>2, <2>3
<1>6. e \in s.blocks /\ b <= e /\ e + 1 \notin s.blocks
  BY <1>1, <1>4, <1>5
<1>7. /\ RunEnd(s, b) \in s.blocks /\ b <= RunEnd(s, b)
      /\ b .. RunEnd(s, b) \subseteq s.blocks /\ RunEnd(s, b) + 1 \notin s.blocks
  BY <1>5, <1>6 DEF RunEnd
<1> QED BY <1>1, <1>7

\* Addresses and blocks in order.
LEMMA InBlocks ==
  ASSUME NEW b \in Nat, NEW e \in Nat, NEW a \in Nat
  PROVE  BlockOf(a) \in b .. e <=> BLKSIZE * b <= a /\ a < (BLKSIZE * e) + BLKSIZE
<1> DEFINE c == BlockOf(a)
           C == BLKSIZE * c
           B == BLKSIZE * b
           E == BLKSIZE * e
<1>1. /\ c \in Nat /\ C \in Nat /\ BLKSIZE \in Nat /\ BLKSIZE > 0 /\ C <= a /\ a < C + BLKSIZE
  <2>1. /\ c \in Nat /\ C \in Nat /\ BlockOffset(a) \in Nat /\ BlockOffset(a) < BLKSIZE
        /\ a = C + BlockOffset(a) /\ BLKSIZE \in Nat /\ BLKSIZE > 0
    BY BlockAndOffset
  <2> HIDE DEF c, C
  <2> QED BY <2>1
<1> HIDE DEF c
<1>2. B \in Nat /\ E \in Nat
  BY <1>1, SMT
<1>3. c < b => C + BLKSIZE <= B
  <2>1. ASSUME c < b PROVE C + BLKSIZE <= B
    <3>1. BLKSIZE * b = (BLKSIZE * c) + BLKSIZE + (BLKSIZE * ((b - c) - 1))
      BY <1>1, SMT
    <3>2. BLKSIZE * ((b - c) - 1) \in Nat
      BY <1>1, <2>1, SMT
    <3> DEFINE x == BLKSIZE * ((b - c) - 1)
    <3> HIDE DEF x
    <3>3. B = C + BLKSIZE + x /\ x \in Nat
      BY <3>1, <3>2 DEF x
    <3> HIDE DEF B, C
    <3> QED BY <1>1, <1>2, <3>3
  <2> QED BY <2>1
<1>4. e < c => E + BLKSIZE <= C
  <2>1. ASSUME e < c PROVE E + BLKSIZE <= C
    <3>1. BLKSIZE * c = (BLKSIZE * e) + BLKSIZE + (BLKSIZE * ((c - e) - 1))
      BY <1>1, SMT
    <3>2. BLKSIZE * ((c - e) - 1) \in Nat
      BY <1>1, <2>1, SMT
    <3> DEFINE x == BLKSIZE * ((c - e) - 1)
    <3> HIDE DEF x
    <3>3. C = E + BLKSIZE + x /\ x \in Nat
      BY <3>1, <3>2 DEF x
    <3> HIDE DEF E, C
    <3> QED BY <1>1, <1>2, <3>3
  <2> QED BY <2>1
<1>5. b <= c => B <= C
  <2>1. ASSUME b <= c PROVE B <= C
    <3>1. BLKSIZE * c = (BLKSIZE * b) + (BLKSIZE * (c - b))
      BY <1>1, SMT
    <3>2. BLKSIZE * (c - b) \in Nat
      BY <1>1, <2>1, SMT
    <3> DEFINE x == BLKSIZE * (c - b)
    <3> HIDE DEF x
    <3>3. C = B + x /\ x \in Nat
      BY <3>1, <3>2 DEF x
    <3> HIDE DEF C, B
    <3> QED BY <1>1, <1>2, <3>3
  <2> QED BY <2>1
<1>6. c <= e => C <= E
  <2>1. ASSUME c <= e PROVE C <= E
    <3>1. BLKSIZE * e = (BLKSIZE * c) + (BLKSIZE * (e - c))
      BY <1>1, SMT
    <3>2. BLKSIZE * (e - c) \in Nat
      BY <1>1, <2>1, SMT
    <3> DEFINE x == BLKSIZE * (e - c)
    <3> HIDE DEF x
    <3>3. E = C + x /\ x \in Nat
      BY <3>1, <3>2 DEF x
    <3> HIDE DEF E, C
    <3> QED BY <1>1, <1>2, <3>3
  <2> QED BY <2>1
<1> HIDE DEF B, C, E
<1>7. c \in b .. e <=> B <= a /\ a < E + BLKSIZE
  BY <1>1, <1>2, <1>3, <1>4, <1>5, <1>6
<1> QED BY <1>7 DEF B, E, c

\* What is in a file: the bytes of the blocks of its run.
Holds(file, s, b) ==
  /\ file.start \in Address /\ file.bytes \in Seq(Content) /\ (file.start = 0 => b = 0)
  /\ b # 0 => \A a \in Address :
                /\ a \in Bytes(Placed(file), Len(file.bytes)) <=> BlockOf(a) \in b .. RunEnd(s, b)
                /\ a \in Bytes(Placed(file), Len(file.bytes)) =>
                     file.bytes[From(Placed(file), a) + 1] = s.byte[a]

\* What the file that begins with a block holds.
LEMMA FileHolds ==
  ASSUME NEW s \in Memories, NEW b \in s.blocks
  PROVE  Holds(File(s, b), s, b)
<1> DEFINE e == RunEnd(s, b)
           B == BLKSIZE * b
           L == Length(s, b)
           file == File(s, b)
<1>1. e \in Block /\ b \in Block /\ b <= e /\ Block \subseteq Nat
  BY RunEnds DEF Block
<1>2. s.byte \in [Address -> Content]
  BY MemoriesAre
<1> HIDE DEF e
<1>3. B \in Nat /\ b * BLKSIZE = B /\ L \in Nat /\ B + L = (BLKSIZE * e) + BLKSIZE
  <2>1. B \in Nat /\ b * BLKSIZE = B
    BY <1>1, SpaceIs, SMT
  <2>2. L = (e - b + 1) * BLKSIZE
    BY DEF Length, e
  <2>3. (e - b + 1) * BLKSIZE = (BLKSIZE * (e - b)) + BLKSIZE /\ BLKSIZE * (e - b) \in Nat
    BY <1>1, SpaceIs, SMT
  <2>4. BLKSIZE * e = (BLKSIZE * b) + (BLKSIZE * (e - b))
    BY <1>1, SpaceIs, SMT
  <2> DEFINE x == BLKSIZE * (e - b)
             E == BLKSIZE * e
  <2> HIDE DEF x, E, B, L
  <2>5. L = x + BLKSIZE /\ x \in Nat /\ E = B + x
    BY <2>2, <2>3, <2>4 DEF x, E, B
  <2> QED BY <2>1, <2>5, SpaceIs DEF E
<1>4. B + L <= AddressSpace
  <2>1. (BLKSIZE * e) + BLKSIZE <= AddressSpace
    <3> DEFINE q == AddressSpace \div BLKSIZE
    <3>1. q \in Nat /\ AddressSpace = BLKSIZE * q /\ e <= q - 1
      <4>1. q \in Nat /\ AddressSpace = (BLKSIZE * q) + (AddressSpace % BLKSIZE)
        BY SpaceIs, QuotientAndRemainder
      <4>2. AddressSpace % BLKSIZE = 0
        BY MemoryAssumption
      <4>3. BLKSIZE * q \in Nat
        <5>1. q \in Nat /\ BLKSIZE \in Nat
          BY <4>1, SpaceIs
        <5> HIDE DEF q
        <5> QED BY <5>1, SMT
      <4>4. e \in 0 .. q - 1
        BY <1>1 DEF Block
      <4> HIDE DEF q
      <4> QED BY <4>1, <4>2, <4>3, <4>4
    <3> HIDE DEF q
    <3>2. BLKSIZE * q = (BLKSIZE * e) + BLKSIZE + (BLKSIZE * ((q - e) - 1))
      BY <1>1, <3>1, SpaceIs, SMT
    <3>3. BLKSIZE * ((q - e) - 1) \in Nat /\ BLKSIZE * e \in Nat
      BY <1>1, <3>1, SpaceIs, SMT
    <3> DEFINE x == BLKSIZE * ((q - e) - 1)
               E == BLKSIZE * e
    <3> HIDE DEF x, E
    <3>4. AddressSpace = E + BLKSIZE + x /\ x \in Nat /\ E \in Nat
      BY <3>1, <3>2, <3>3 DEF x, E
    <3>5. E + BLKSIZE <= AddressSpace
      BY <3>4, SpaceIs
    <3> QED BY <3>5 DEF E
  <2> QED BY <1>3, <2>1
<1>5. b # 0 <=> B # 0
  BY <1>1, SpaceIs, SMT
<1>6. L > 0
  <2>1. L = (e - b + 1) * BLKSIZE
    BY DEF Length, e
  <2>2. (e - b + 1) * BLKSIZE = (BLKSIZE * (e - b)) + BLKSIZE /\ BLKSIZE * (e - b) \in Nat
    BY <1>1, SpaceIs, SMT
  <2> HIDE DEF L
  <2> QED BY <2>1, <2>2, SpaceIs
<1> HIDE DEF B, L
<1>7. file.start = B /\ file.bytes = [i \in 1 .. L |-> s.byte[B + i - 1]]
  BY <1>3 DEF File, L
<1> HIDE DEF file
<1>8. \A i \in 1 .. L : B + i - 1 \in Address
  BY <1>3, <1>4, SpaceIs
<1>9. file.start \in Address
  BY <1>3, <1>4, <1>6, <1>7, SpaceIs
<1>10. file.bytes \in Seq(Content) /\ Len(file.bytes) = L
  <2>1. \A i \in 1 .. L : s.byte[B + i - 1] \in Content
    BY <1>2, <1>8
  <2>2. file.bytes \in [1 .. L -> Content]
    BY <1>7, <2>1
  <2>3. file.bytes \in Seq(Content) /\ DOMAIN file.bytes = 1 .. L
    BY <1>3, <2>2, SeqDef
  <2>4. DOMAIN file.bytes = 1 .. Len(file.bytes) /\ Len(file.bytes) \in Nat
    BY <2>3, LenProperties
  <2>5. Len(file.bytes) = L
    <3> DEFINE m == Len(file.bytes)
    <3> HIDE DEF m
    <3>1. 1 .. m = 1 .. L /\ m \in Nat /\ L \in 1 .. L
      BY <1>3, <1>6, <2>3, <2>4 DEF m
    <3>2. L <= m
      BY <3>1
    <3>3. m <= L
      <4>1. m \in 1 .. m
        BY <1>3, <1>6, <3>1, <3>2
      <4> QED BY <3>1, <4>1
    <3> QED BY <1>3, <3>1, <3>2, <3>3 DEF m
  <2> QED BY <2>3, <2>5
<1>11. ASSUME b # 0, NEW a \in Address
       PROVE  /\ Placed(file) = B
              /\ a \in Bytes(B, L) <=> BlockOf(a) \in b .. e
              /\ a \in Bytes(B, L) => file.bytes[From(B, a) + 1] = s.byte[a]
  <2>1. Placed(file) = B
    BY <1>5, <1>7, <1>11 DEF Placed
  <2>2. a \in Nat /\ a < AddressSpace /\ AddressSpace \in Nat /\ B \in Address
    BY <1>7, <1>9, SpaceIs
  <2>3. From(B, a) = IF B <= a THEN a - B ELSE (a + AddressSpace) - B
    <3>1. CASE B <= a
      <4>1. (a + AddressSpace) - B = (a - B) + AddressSpace /\ a - B \in Int /\ a - B \in Address
        BY <1>3, <2>2, <3>1, SpaceIs
      <4>2. Wrap((a - B) + AddressSpace) = a - B
        BY <4>1, WrapAround, WrapIs
      <4> QED BY <3>1, <4>1, <4>2 DEF From
    <3>2. CASE a < B
      <4>1. (a + AddressSpace) - B \in Int /\ (a + AddressSpace) - B \in Address /\ ~(B <= a)
        BY <1>3, <2>2, <3>2, SpaceIs
      <4> QED BY <4>1, WrapIs DEF From
    <3> QED BY <1>3, <2>2, <3>1, <3>2
  <2>4. a \in Bytes(B, L) <=> B <= a /\ a < B + L
    <3>1. a \in Bytes(B, L) <=> From(B, a) < L
      BY DEF Bytes
    <3> QED BY <1>3, <1>4, <2>2, <2>3, <3>1
  <2>5. BlockOf(a) \in b .. e <=> B <= a /\ a < B + L
    <3>1. BlockOf(a) \in b .. e <=> BLKSIZE * b <= a /\ a < (BLKSIZE * e) + BLKSIZE
      BY <1>1, <2>2, InBlocks
    <3> QED BY <1>3, <3>1 DEF B
  <2>6. ASSUME a \in Bytes(B, L) PROVE file.bytes[From(B, a) + 1] = s.byte[a]
    <3>1. B <= a /\ a < B + L /\ From(B, a) = a - B
      BY <2>3, <2>4, <2>6
    <3>2. (a - B) + 1 \in 1 .. L /\ B + ((a - B) + 1) - 1 = a
      BY <1>3, <2>2, <3>1
    <3> QED BY <1>7, <3>1, <3>2
  <2> QED BY <2>1, <2>4, <2>5, <2>6
<1>12. file.start = 0 => b = 0
  BY <1>5, <1>7
<1> QED BY <1>9, <1>10, <1>11, <1>12 DEF Holds, e, file

\* Each block is in a run.
LEMMA RunOfBlock ==
  ASSUME NEW s \in Memories, NEW k \in s.blocks
  PROVE  \E b \in FirstBlocks(s) : k \in b .. RunEnd(s, b)
<1>1. s.blocks \subseteq Nat /\ k \in Nat
  BY MemoriesAre, SpaceIs DEF Block
<1> DEFINE T == {b \in Nat : b <= k /\ b .. k \subseteq s.blocks}
<1>2. k \in T
  BY <1>1
<1>3. PICK b \in T : \A c \in T : b <= c
  <2>1. T \subseteq Nat /\ T # {}
    BY <1>2
  <2> HIDE DEF T
  <2> QED BY <2>1, LeastNatural
<1>4. b \in s.blocks /\ b \in Nat /\ b <= k /\ b .. k \subseteq s.blocks
  BY <1>1, <1>3
<1>5. b \in FirstBlocks(s)
  <2>1. SUFFICES ASSUME b # 0, b - 1 \in s.blocks PROVE FALSE
    BY <1>4 DEF FirstBlocks
  <2>2. b - 1 \in Nat /\ b - 1 <= k /\ (b - 1) .. k \subseteq {b - 1} \union (b .. k)
    BY <1>1, <1>4, <2>1
  <2>3. b - 1 \in T
    BY <1>4, <2>1, <2>2
  <2> QED BY <1>3, <1>4, <2>3
<1>6. /\ RunEnd(s, b) \in Nat /\ RunEnd(s, b) + 1 \notin s.blocks /\ b <= RunEnd(s, b)
  BY <1>4, RunEnds DEF Block
<1>7. k <= RunEnd(s, b)
  <2>1. CASE RunEnd(s, b) < k
    <3>1. RunEnd(s, b) + 1 \in b .. k
      BY <1>1, <1>4, <1>6, <2>1
    <3> QED BY <1>4, <1>6, <3>1
  <2> QED BY <1>1, <1>6, <2>1
<1>8. k \in b .. RunEnd(s, b)
  BY <1>1, <1>4, <1>6, <1>7
<1> QED BY <1>5, <1>8

-----------------------------------------------------------------------------
(***************************************************************************)
(* The life of a saved state.                                              *)
(***************************************************************************)
\* The members of a finite set in some order.
LEMMA Ordered ==
  ASSUME NEW S, IsFiniteSet(S)
  PROVE  /\ Cardinality(S) \in Nat /\ SetToSeq(S) \in [1 .. Cardinality(S) -> S]
         /\ \A q \in SetToSeqs(S) :
              /\ q \in [1 .. Cardinality(S) -> S]
              /\ \A x \in S : \E i \in 1 .. Cardinality(S) : q[i] = x
<1> DEFINE N == Cardinality(S)
<1>1. N \in Nat /\ ExistsBijection(1 .. N, S)
  BY FS_CardinalityType
<1>2. PICK f \in [1 .. N -> S] : IsInjective(f)
  <2>1. PICK f : f \in Bijection(1 .. N, S)
    BY <1>1 DEF ExistsBijection
  <2>2. f \in [1 .. N -> S] /\ \A a, b \in 1 .. N : f[a] = f[b] => a = b
    BY <2>1 DEF Bijection, Injection, IsInjective
  <2>3. IsInjective(f)
    BY <2>2 DEF IsInjective
  <2> QED BY <2>2, <2>3
<1>3. SetToSeq(S) \in [1 .. N -> S]
  BY <1>2 DEF SetToSeq
<1>4. ASSUME NEW q \in SetToSeqs(S)
      PROVE  q \in [1 .. N -> S] /\ \A x \in S : \E i \in 1 .. N : q[i] = x
  <2>1. q \in [1 .. N -> S] /\ \A i, j \in 1 .. N : i # j => q[i] # q[j]
    BY DEF SetToSeqs
  <2>2. q \in Injection(1 .. N, S)
    BY <2>1 DEF Injection, IsInjective
  <2>3. IsFiniteSet(1 .. N) /\ Cardinality(1 .. N) = N
    BY <1>1, FS_Interval
  <2>4. q \in Surjection(1 .. N, S)
    BY <2>2, <2>3, FS_Injection
  <2>5. \A x \in S : \E i \in 1 .. N : q[i] = x
    BY <2>4 DEF Surjection
  <2> QED BY <2>1, <2>5
<1> QED BY <1>1, <1>3, <1>4

\* What a process begins with.
LEMMA InitTyped == NoMemory \in Memories /\ memoryInit(NoMemory) \in Memories
<1>1. NoMemory \in Memories
  BY SpaceIs DEF NoMemory, Memories, Content, Results
<1> DEFINE q == SetToSeq(InitWords)
           N == Cardinality(InitWords)
           zeros == [i \in 1 .. BytesPerWord |-> 0]
<1>2. IsFiniteSet(InitWords) /\ InitWords \subseteq Address
  <2>1. InitWords \subseteq Address
    BY MemoryAssumption
  <2>2. IsFiniteSet(Address)
    BY SpaceIs, FS_Interval
  <2> QED BY <2>1, <2>2, FS_Subset
<1>3. N \in Nat /\ q \in [1 .. N -> InitWords]
  BY <1>2, Ordered
<1>4. zeros \in Seq(Byte)
  BY SpaceIs, SeqDef
<1> HIDE DEF q, N
<1>5. \A t \in Memories, n \in 1 .. N : Put(t, q[n], zeros) \in Memories
  <2> HIDE DEF zeros
  <2>1. \A n \in 1 .. N : q[n] \in Address
    BY <1>2, <1>3
  <2> QED BY <1>4, <2>1, PutIs
<1>6. PICK f : InitCourse(f, NoMemory, q, N, Memories)
  <2>1. DOMAIN q = 1 .. N /\ q = SetToSeq(InitWords)
    BY <1>3 DEF q
  <2>2. InitKeeps(q, N, Memories)
    BY <1>5, <2>1 DEF InitKeeps
  <2> QED BY <1>1, <1>3, <2>2, InitSteps
<1>7. N \in 0 .. N
  BY <1>3
<1> QED BY <1>1, <1>6, <1>7 DEF InitCourse

\* The files of a save are finitely many.
LEMMA FilesFinite ==
  ASSUME NEW s \in Memories
  PROVE  IsFiniteSet(saveMemory(s))
<1> DEFINE f == [b \in FirstBlocks(s) |-> File(s, b)]
           m == AddressSpace \div BLKSIZE
<1>1. IsFiniteSet(Block)
  <2>1. m \in Nat
    BY SpaceIs, QuotientAndRemainder
  <2>2. Block = 0 .. m - 1
    BY DEF Block
  <2> HIDE DEF m
  <2>3. 0 \in Int /\ m - 1 \in Int
    BY <2>1
  <2> QED BY <2>2, <2>3, FS_Interval
<1>2. FirstBlocks(s) \in SUBSET Block
  BY MemoriesAre DEF FirstBlocks
<1>3. IsFiniteSet(FirstBlocks(s))
  BY <1>1, <1>2, FS_Subset
<1>4. saveMemory(s) = {File(s, b) : b \in FirstBlocks(s)}
  BY FilesAre
<1>5. f \in Surjection(FirstBlocks(s), saveMemory(s))
  BY <1>4 DEF Surjection
<1> QED BY <1>3, <1>5, FS_Surjection

\* What a load gives back.
Returned(s, image, t) ==
  0 \notin image.blocks =>
    \A a \in Address :
      t.byte[a] = IF BlockOf(a) \in image.blocks THEN image.byte[a] ELSE s.byte[a]

\* File by file, whatever their order.
LEMMA LoadIs ==
  ASSUME NEW s \in Memories, NEW image \in Memories, NEW q \in SetToSeqs(saveMemory(image))
  PROVE  loadMemory(s, q) \in Memories /\ Returned(s, image, loadMemory(s, q))
<1> DEFINE files == saveMemory(image)
           N == Cardinality(files)
<1>1. /\ N \in Nat /\ q \in [1 .. N -> files]
      /\ \A x \in files : \E i \in 1 .. N : q[i] = x
  BY FilesFinite, Ordered
<1>2. files = {File(image, b) : b \in FirstBlocks(image)}
  BY FilesAre
<1>3. FirstBlocks(image) \subseteq image.blocks
  BY DEF FirstBlocks
<1> HIDE DEF files, N
<1>4. \A i \in 1 .. N : \E b \in FirstBlocks(image) : q[i] = File(image, b) /\ Holds(q[i], image, b)
  BY <1>1, <1>2, <1>3, FileHolds
<1>5. \A i \in 1 .. N : q[i].start \in Address /\ q[i].bytes \in Seq(Content)
  BY <1>4 DEF Holds
<1>6. \A t \in Memories, i \in 1 .. N : bulkLoadBytes(t, q[i]) \in Memories
  BY <1>5, BulkIs
<1>7. PICK f : /\ f \in [0 .. N -> Memories] /\ f[0] = s /\ loadMemory(s, q) = f[N]
               /\ \A n \in 1 .. N : f[n] = bulkLoadBytes(f[n - 1], q[n])
  <2>1. LoadKeeps(q, N, Memories)
    BY <1>1, <1>6 DEF LoadKeeps
  <2>2. PICK f : LoadCourse(f, s, q, N, Memories)
    BY <1>1, <2>1, LoadSteps
  <2> QED BY <2>2 DEF LoadCourse
<1>8. N \in 0 .. N
  BY <1>1
<1>9. ASSUME 0 \notin image.blocks PROVE Returned(s, image, f[N])
  <2> DEFINE In(i, a) == a \in Bytes(Placed(q[i]), Len(q[i].bytes))
             Done(n) == \A a \in Address :
                          f[n].byte[a] = IF \E i \in 1 .. n : In(i, a) THEN image.byte[a]
                                         ELSE s.byte[a]
             T == {n \in 0 .. N : Done(n)}
  <2>1. \A i \in 1 .. N : \E b \in FirstBlocks(image) :
          /\ q[i] = File(image, b)
          /\ \A a \in Address : /\ In(i, a) <=> BlockOf(a) \in b .. RunEnd(image, b)
                                /\ In(i, a) => q[i].bytes[From(Placed(q[i]), a) + 1] = image.byte[a]
    <3>1. \A b \in FirstBlocks(image) : b # 0
      BY <1>3, <1>9
    <3> QED BY <1>4, <3>1 DEF Holds
  <2>2. 0 \in T
    BY <1>1, <1>7
  <2>3. ASSUME NEW n \in 1 .. N, n - 1 \in T PROVE n \in T
    <3>1. Done(n - 1) /\ f[n - 1] \in Memories /\ f[n] = bulkLoadBytes(f[n - 1], q[n])
      BY <1>7, <2>3
    <3>2. f[n].byte = [a \in Address |-> IF In(n, a) THEN q[n].bytes[From(Placed(q[n]), a) + 1]
                                         ELSE f[n - 1].byte[a]]
      BY <1>5, <3>1, BulkIs
    <3>3. \A a \in Address : In(n, a) => q[n].bytes[From(Placed(q[n]), a) + 1] = image.byte[a]
      BY <2>1
    <3> HIDE DEF In
    <3>4. ASSUME NEW a \in Address
          PROVE  f[n].byte[a] = IF \E i \in 1 .. n : In(i, a) THEN image.byte[a] ELSE s.byte[a]
      <4>1. (\E i \in 1 .. n : In(i, a)) <=> In(n, a) \/ \E i \in 1 .. n - 1 : In(i, a)
        <5>1. 1 .. n = (1 .. n - 1) \union {n}
          OBVIOUS
        <5> QED BY <5>1
      <4>2. CASE In(n, a)
        BY <3>2, <3>3, <4>1, <4>2
      <4>3. CASE ~In(n, a)
        BY <3>1, <3>2, <4>1, <4>3
      <4> QED BY <4>2, <4>3
    <3> QED BY <3>4
  <2>4. Done(N)
    <3> HIDE DEF Done
    <3>1. 0 .. N \subseteq T
      <4> HIDE DEF T
      <4> QED BY <1>1, <2>2, <2>3, UpTo
    <3> QED BY <1>8, <3>1
  <2>5. ASSUME NEW a \in Address
        PROVE  (\E i \in 1 .. N : In(i, a)) <=> BlockOf(a) \in image.blocks
    <3>1. ASSUME NEW i \in 1 .. N, In(i, a) PROVE BlockOf(a) \in image.blocks
      <4>1. PICK b \in FirstBlocks(image) : BlockOf(a) \in b .. RunEnd(image, b)
        BY <2>1, <3>1
      <4>2. b .. RunEnd(image, b) \subseteq image.blocks
        BY <1>3, RunEnds
      <4> QED BY <4>1, <4>2
    <3>2. ASSUME BlockOf(a) \in image.blocks PROVE \E i \in 1 .. N : In(i, a)
      <4>1. PICK b \in FirstBlocks(image) : BlockOf(a) \in b .. RunEnd(image, b)
        BY <3>2, RunOfBlock
      <4>2. PICK i \in 1 .. N : q[i] = File(image, b)
        BY <1>1, <1>2
      <4>3. PICK c \in FirstBlocks(image) :
              q[i] = File(image, c) /\ (In(i, a) <=> BlockOf(a) \in c .. RunEnd(image, c))
        BY <2>1
      <4>4. b = c
        <5>1. b * BLKSIZE = c * BLKSIZE
          BY <4>2, <4>3 DEF File
        <5>2. b \in Nat /\ c \in Nat
          BY <1>3, MemoriesAre DEF Block
        <5>3. BLKSIZE * (b - c) = 0
          <6>1. BLKSIZE * (b - c) = (b * BLKSIZE) - (c * BLKSIZE)
            BY <5>2, SpaceIs, SMT
          <6>2. b * BLKSIZE \in Int
            BY <5>2, SpaceIs, SMT
          <6> QED BY <5>1, <6>1, <6>2
        <5>4. b - c = 0
          BY <5>2, <5>3, SpaceIs, NoMultipleBetween
        <5> QED BY <5>2, <5>4
      <4> QED BY <4>1, <4>3, <4>4
    <3> QED BY <3>1, <3>2
  <2> HIDE DEF In
  <2> QED BY <2>4, <2>5 DEF Returned
<1>10. Returned(s, image, f[N])
  BY <1>9 DEF Returned
<1> QED BY <1>7, <1>8, <1>10

\* What the save and the load of a process keep: the image of the directory is
\* the memory it was written from, and until the next store a load has given it
\* back.  Memory that moves is neither saved nor loaded.
SavedInv ==
  /\ moved = None => memory \in Memories
  /\ moved # None => disk = None /\ loaded = None
  /\ disk # None => disk.image \in Memories /\ disk.files = saveMemory(disk.image)
  /\ loaded # None => disk # None /\ Returned(loaded.before, disk.image, memory)

\* A process starts with nothing saved, loaded or moved.
LEMMA SavedInit == MemoryInit => SavedInv
BY InitTyped DEF MemoryInit, SavedInv

\* A move is of memory that is not saved.
LEMMA MovesNotSaved == SavedInv /\ MoveNext => SavedInv'
<1>1. SUFFICES ASSUME SavedInv, MoveNext PROVE SavedInv'
  OBVIOUS
<1>2. DOMAIN None = {"none"}
  BY DEF None
<1>3. CASE \E i \in Images : FillMemory(i)
  <2>1. PICK i \in Images : FillMemory(i)
    BY <1>3
  <2>2. moved' = [image |-> TRUE] /\ disk = None /\ UNCHANGED <<disk, loaded>>
    BY <2>1 DEF FillMemory
  <2>3. DOMAIN moved' = {"image"}
    BY <2>2
  <2>4. moved' # None
    BY <1>2, <2>3
  <2>5. loaded = None
    BY <1>1, <2>2 DEF SavedInv
  <2> QED BY <2>2, <2>4, <2>5 DEF SavedInv
<1>4. CASE \E v \in Moves : Move(v)
  <2>1. PICK v \in Moves : Move(v)
    BY <1>4
  <2>2. /\ "image" \in DOMAIN moved /\ moved' = [move |-> v, before |-> memory]
        /\ UNCHANGED <<disk, loaded>>
    BY <2>1 DEF Move
  <2>3. moved # None
    BY <1>2, <2>2
  <2>4. DOMAIN moved' = {"move", "before"}
    BY <2>2
  <2>5. moved' # None
    BY <1>2, <2>4
  <2>6. disk = None /\ loaded = None
    BY <1>1, <2>3 DEF SavedInv
  <2> QED BY <2>2, <2>5, <2>6 DEF SavedInv
<1> QED BY <1>1, <1>3, <1>4 DEF MoveNext

\* Stores, saves, restarts and loads keep it.
LEMMA SavesKeep == SavedInv /\ SaveNext => SavedInv'
<1>1. SUFFICES ASSUME SavedInv, SaveNext PROVE SavedInv'
  OBVIOUS
<1>2. ASSUME NEW a \in Sites, NEW w \in Words, Store(a, w) PROVE SavedInv'
  <2>1. /\ moved = None /\ memory' = storeBytes(memory, a, w) /\ loaded' = None
        /\ moved' = moved /\ disk' = disk
    BY <1>2 DEF Store
  <2>2. a \in Address
    BY ContentsAssumption
  <2>3. w \in Seq(Byte)
    <3>1. PICK b \in Byte : w = [i \in 1 .. BytesPerWord |-> b]
      BY DEF Words
    <3>2. w \in [1 .. BytesPerWord -> Byte]
      BY <3>1
    <3> QED BY <3>2, SpaceIs, SeqDef
  <2>4. memory' \in Memories
    BY <1>1, <2>1, <2>2, <2>3, StoreTyped DEF SavedInv
  <2> QED BY <1>1, <2>1, <2>4 DEF SavedInv
<1>3. ASSUME NEW file \in Firmware, LoadFirmware(file) PROVE SavedInv'
  <2>1. /\ moved = None /\ disk = None /\ memory' = bulkLoadBytes(memory, file)
        /\ UNCHANGED <<moved, disk, loaded>>
    BY <1>3 DEF LoadFirmware
  <2>2. file.start \in Address /\ file.bytes \in Seq(Content)
    <3>1. file.start \in Address /\ file.bytes \in Seq(Byte)
      BY ContentsAssumption
    <3>2. file.bytes \in [1 .. Len(file.bytes) -> Byte] /\ Len(file.bytes) \in Nat
      BY <3>1, LenProperties
    <3>3. file.bytes \in [1 .. Len(file.bytes) -> Content]
      BY <3>2 DEF Content
    <3> QED BY <3>1, <3>2, <3>3, SeqDef
  <2>3. memory' \in Memories
    BY <1>1, <2>1, <2>2, BulkIs DEF SavedInv
  <2>4. loaded = None
    BY <1>1, <2>1 DEF SavedInv
  <2> QED BY <2>1, <2>3, <2>4 DEF SavedInv
<1>4. ASSUME Save PROVE SavedInv'
  <2>1. /\ moved = None /\ disk = None /\ disk' = [files |-> saveMemory(memory), image |-> memory]
        /\ UNCHANGED <<memory, moved, loaded>>
    BY <1>4 DEF Save
  <2>2. disk'.image = memory /\ disk'.files = saveMemory(memory)
    BY <2>1
  <2>3. loaded = None
    BY <1>1, <2>1 DEF SavedInv
  <2> QED BY <1>1, <2>1, <2>2, <2>3 DEF SavedInv
<1>5. ASSUME Restart PROVE SavedInv'
  <2>1. disk # None /\ memory' = memoryInit(NoMemory) /\ loaded' = None /\ UNCHANGED <<moved, disk>>
    BY <1>5 DEF Restart
  <2> QED BY <1>1, <2>1, InitTyped DEF SavedInv
<1>6. ASSUME Load PROVE SavedInv'
  <2>1. PICK q \in SetToSeqs(disk.files) : memory' = loadMemory(memory, q)
    BY <1>6 DEF Load
  <2>2. disk # None /\ loaded' = [before |-> memory] /\ UNCHANGED <<moved, disk>>
    BY <1>6 DEF Load
  <2>3. /\ moved = None /\ memory \in Memories /\ disk.image \in Memories
        /\ disk.files = saveMemory(disk.image)
    BY <1>1, <2>2 DEF SavedInv
  <2>4. memory' \in Memories /\ Returned(memory, disk.image, memory')
    BY <2>1, <2>3, LoadIs
  <2>5. loaded'.before = memory
    BY <2>2
  <2>6. Returned(loaded'.before, disk'.image, memory')
    BY <2>2, <2>4, <2>5
  <2> QED BY <2>2, <2>3, <2>4, <2>6 DEF SavedInv
<1> QED BY <1>1, <1>2, <1>3, <1>4, <1>5, <1>6 DEF SaveNext

(***************************************************************************)
(* The directory holds the memory that was saved, and a load returns it.   *)
(***************************************************************************)
THEOREM SavedCorrect == MemorySpec => []SavedInv
<1>1. SavedInv /\ UNCHANGED memoryVars => SavedInv'
  BY DEF SavedInv, memoryVars
<1> QED BY <1>1, SavedInit, MovesNotSaved, SavesKeep, PTL DEF MemorySpec

(***************************************************************************)
(* Whatever was written, saved and written since, in whatever order the    *)
(* directory names the files, every byte that was saved comes back and no  *)
(* other block changes, unless the block at address 0 was saved.           *)
(***************************************************************************)
THEOREM LoadReturnsBytesCorrect == MemorySpec => []LoadReturnsBytes
<1>1. SavedInv => LoadReturnsBytes
  BY DEF SavedInv, LoadReturnsBytes, Returned
<1> QED BY <1>1, SavedCorrect, PTL

-----------------------------------------------------------------------------
(***************************************************************************)
(* Block moves.  What one byte of an access reads and where it is stored   *)
(* does not depend on the access it is part of.                            *)
(***************************************************************************)
Like(s, t) == s.byte = t.byte /\ s.register = t.register

\* What a byte reads as.
Value(s, x) == IF isMemoryDeviceAddress(x) THEN s.register[x] ELSE ReadableByte(s, x)

\* What a read of one byte returns.
LEMMA ReadByte ==
  ASSUME NEW s \in Memories, NEW x \in Address
  PROVE  /\ readBytes(s, x, 1) = IF Value(s, x) = Unwritten THEN [result |-> "READ_UNUSED_MEM"]
                                 ELSE [result |-> "ok", bytes |-> [i \in 1 .. 1 |-> Value(s, x)]]
         /\ Value(s, x) \in Content
<1> DEFINE bytes == [i \in 1 .. 1 |-> ReadableByte(s, Wrap(x + i - 1))]
           registers == [i \in 1 .. 1 |-> s.register[Wrap(x + i - 1)]]
           access == deviceForAccess(x, 1)
<1>1. \A i \in 1 .. 1 : i = 1 /\ Wrap(x + i - 1) = x
  <2>1. x \in Int /\ x + 1 - 1 = x
    BY SpaceIs
  <2>2. Wrap(x) = x
    BY <2>1, WrapIs
  <2> QED BY <2>1, <2>2
<1>2. bytes = [i \in 1 .. 1 |-> ReadableByte(s, x)] /\ registers = [i \in 1 .. 1 |-> s.register[x]]
  BY <1>1
<1>3. readBytes(s, x, 1) =
        CASE access = "crosses" -> [result |-> "INVALID_DEVICE_ACCESS"]
          [] access = "device" -> [result |-> "ok", bytes |-> registers]
          [] OTHER -> IF \E i \in 1 .. 1 : bytes[i] = Unwritten
                      THEN [result |-> "READ_UNUSED_MEM"]
                      ELSE [result |-> "ok", bytes |-> bytes]
  BY Zenon DEF readBytes
<1>4. access = IF isMemoryDeviceAddress(x) THEN "device" ELSE "memory"
  BY ByteAccess
<1> HIDE DEF access, bytes, registers
<1>5. s.register[x] \in Byte /\ ReadableByte(s, x) \in Content
  BY MemoriesAre, SpaceIs DEF ReadableByte, Content
<1>6. CASE isMemoryDeviceAddress(x)
  <2>1. readBytes(s, x, 1) = [result |-> "ok", bytes |-> registers]
    BY <1>3, <1>4, <1>6
  <2>2. Value(s, x) = s.register[x] /\ Value(s, x) # Unwritten
    BY <1>5, <1>6, SpaceIs DEF Value
  <2> QED BY <1>2, <1>5, <2>1, <2>2 DEF Content
<1>7. CASE ~isMemoryDeviceAddress(x)
  <2>1. readBytes(s, x, 1) = IF \E i \in 1 .. 1 : bytes[i] = Unwritten
                             THEN [result |-> "READ_UNUSED_MEM"]
                             ELSE [result |-> "ok", bytes |-> bytes]
    BY <1>3, <1>4, <1>7
  <2>2. Value(s, x) = ReadableByte(s, x)
    BY <1>7 DEF Value
  <2>3. (\E i \in 1 .. 1 : bytes[i] = Unwritten) <=> Value(s, x) = Unwritten
    BY <1>2, <2>2
  <2> QED BY <1>2, <1>5, <2>1, <2>2, <2>3
<1> QED BY <1>6, <1>7

\* The result of a read.
LEMMA ReadIs ==
  ASSUME NEW s \in Memories, NEW a \in Address, NEW n \in 1 .. AddressSpace
  PROVE  /\ readBytes(s, a, n).result \in Results
         /\ readBytes(s, a, n).result = "ok" =>
              LET bytes == readBytes(s, a, n).bytes
              IN  /\ bytes \in [1 .. n -> Byte]
                  /\ \A k \in 0 .. n - 1 : /\ bytes[k + 1] = Value(s, Wrap(a + k))
                                           /\ Wrap(a + k) \in Address
<1> DEFINE mem == [i \in 1 .. n |-> ReadableByte(s, Wrap(a + i - 1))]
           reg == [i \in 1 .. n |-> s.register[Wrap(a + i - 1)]]
           access == deviceForAccess(a, n)
           read == readBytes(s, a, n)
<1>1. read = CASE access = "crosses" -> [result |-> "INVALID_DEVICE_ACCESS"]
               [] access = "device" -> [result |-> "ok", bytes |-> reg]
               [] OTHER -> IF \E i \in 1 .. n : mem[i] = Unwritten
                           THEN [result |-> "READ_UNUSED_MEM"]
                           ELSE [result |-> "ok", bytes |-> mem]
  BY Zenon DEF readBytes
<1>2. access \in {"memory", "crosses", "device"}
  BY AccessIs
<1>3. a \in Nat /\ n \in Nat
  BY SpaceIs
<1>4. \A i \in 1 .. n : i - 1 \in 0 .. n - 1 /\ a + i - 1 = a + (i - 1)
  BY <1>3
<1>5. \A k \in 0 .. n - 1 : k + 1 \in 1 .. n /\ a + (k + 1) - 1 = a + k /\ Wrap(a + k) \in Address
  <2>1. \A k \in 0 .. n - 1 : k + 1 \in 1 .. n /\ a + (k + 1) - 1 = a + k /\ a + k \in Int
    BY <1>3
  <2> QED BY <2>1, WrapIs
<1>6. \A i \in 1 .. n : Wrap(a + i - 1) \in Address
  BY <1>4, <1>5
<1>7. /\ \A x \in Address : s.register[x] \in Byte /\ ReadableByte(s, x) \in Content
  BY MemoriesAre, SpaceIs DEF ReadableByte, Content
<1> HIDE DEF access, read
<1>8. CASE access = "crosses"
  BY <1>1, <1>8 DEF Results, read
<1>9. CASE access = "device"
  <2>1. read = [result |-> "ok", bytes |-> reg]
    BY <1>1, <1>9
  <2>2. reg \in [1 .. n -> Byte]
    BY <1>6, <1>7
  <2>3. ASSUME NEW k \in 0 .. n - 1 PROVE reg[k + 1] = Value(s, Wrap(a + k))
    <3>1. deviceForAccess(Wrap(a + k), 1) = "device"
      BY <1>9, AccessOfByte DEF access
    <3>2. isMemoryDeviceAddress(Wrap(a + k))
      BY <1>5, <3>1, ByteAccess
    <3>3. reg[k + 1] = s.register[Wrap(a + k)]
      BY <1>5
    <3> QED BY <3>2, <3>3 DEF Value
  <2> HIDE DEF reg
  <2>4. read.result = "ok" /\ read.bytes = reg
    BY <2>1
  <2> QED BY <1>5, <2>2, <2>3, <2>4 DEF Results, read
<1>10. CASE access = "memory"
  <2>1. read = IF \E i \in 1 .. n : mem[i] = Unwritten THEN [result |-> "READ_UNUSED_MEM"]
               ELSE [result |-> "ok", bytes |-> mem]
    BY <1>1, <1>10
  <2>2. CASE \E i \in 1 .. n : mem[i] = Unwritten
    BY <2>1, <2>2 DEF Results, read
  <2>3. CASE ~\E i \in 1 .. n : mem[i] = Unwritten
    <3>1. mem \in [1 .. n -> Byte]
      BY <1>6, <1>7, <2>3 DEF Content
    <3>2. ASSUME NEW k \in 0 .. n - 1 PROVE mem[k + 1] = Value(s, Wrap(a + k))
      <4>1. deviceForAccess(Wrap(a + k), 1) = "memory"
        BY <1>10, AccessOfByte DEF access
      <4>2. ~isMemoryDeviceAddress(Wrap(a + k))
        BY <1>5, <4>1, ByteAccess
      <4>3. mem[k + 1] = ReadableByte(s, Wrap(a + k))
        BY <1>5
      <4> QED BY <4>2, <4>3 DEF Value
    <3>3. read = [result |-> "ok", bytes |-> mem]
      BY <2>1, <2>3
    <3> HIDE DEF mem
    <3>4. read.result = "ok" /\ read.bytes = mem
      BY <3>3
    <3> QED BY <1>5, <3>1, <3>2, <3>4 DEF Results, read
  <2> QED BY <2>2, <2>3
<1> QED BY <1>2, <1>8, <1>9, <1>10

\* Where a store goes.
Target(a, n) == IF a \in Intercepted THEN "nowhere"
                ELSE IF deviceForAccess(a, n) = "memory" THEN "memory"
                ELSE IF deviceForAccess(a, n) = "device" /\ DeviceAt(a).write THEN "device"
                ELSE "fails"

\* s with the first n of these bytes stored at a.
Stored(s, t, a, n, bytes, where) ==
  /\ t.result = "ok"
  /\ \A x \in Address :
       LET new == bytes[From(a, x) + 1]
       IN  /\ t.byte[x] = IF where = "memory" /\ From(a, x) < n THEN new ELSE s.byte[x]
           /\ t.register[x] = IF where = "device" /\ From(a, x) < n THEN new ELSE s.register[x]

\* What a store changes.
LEMMA StoreIs ==
  ASSUME NEW s \in Memories, NEW a \in Address, NEW n \in 1 .. AddressSpace,
         NEW bytes \in [1 .. n -> Byte]
  PROVE  /\ storeBytes(s, a, bytes) \in Memories
         /\ Target(a, n) \in {"nowhere", "memory", "device", "fails"}
         /\ IF Target(a, n) = "fails"
            THEN storeBytes(s, a, bytes).result # "ok" /\ Like(storeBytes(s, a, bytes), s)
            ELSE Stored(s, storeBytes(s, a, bytes), a, n, bytes, Target(a, n))
<1> DEFINE t == storeBytes(s, a, bytes)
           access == deviceForAccess(a, n)
<1>1. bytes \in Seq(Byte) /\ Len(bytes) = n
  BY LenOfFunction
<1>2. t \in Memories
  BY <1>1, StoreTyped
<1>3. access \in {"memory", "crosses", "device"}
  BY AccessIs
<1>4. t = IF a \in Intercepted THEN [s EXCEPT !.result = "ok"]
          ELSE IF access = "crosses" THEN [s EXCEPT !.result = "INVALID_DEVICE_ACCESS"]
          ELSE IF access = "device" THEN PutDevice(s, a, bytes)
          ELSE Put(s, a, bytes)
  BY <1>1, StoreWays
<1>5. \A r : LET u == [s EXCEPT !.result = r] IN u.result = r /\ Like(u, s)
  BY DEF Memories, Like
<1> HIDE DEF t, access
<1>6. CASE a \in Intercepted
  <2>1. t.result = "ok" /\ Like(t, s)
    BY <1>4, <1>5, <1>6
  <2>2. Target(a, n) = "nowhere"
    BY <1>6 DEF Target
  <2>3. Stored(s, t, a, n, bytes, "nowhere")
    BY <2>1 DEF Stored, Like
  <2> QED BY <1>2, <2>2, <2>3 DEF t
<1>7. CASE a \notin Intercepted /\ access = "crosses"
  <2>1. t.result = "INVALID_DEVICE_ACCESS" /\ Like(t, s)
    BY <1>4, <1>5, <1>7
  <2>2. Target(a, n) = "fails"
    BY <1>7 DEF Target, access
  <2> QED BY <1>2, <2>1, <2>2 DEF t
<1>8. CASE a \notin Intercepted /\ access = "device"
  <2>1. t = PutDevice(s, a, bytes)
    BY <1>4, <1>8
  <2>2. Target(a, n) = IF DeviceAt(a).write THEN "device" ELSE "fails"
    BY <1>8 DEF Target, access
  <2>3. /\ t.byte = s.byte
        /\ t.result = IF DeviceAt(a).write THEN "ok" ELSE "DEVICE_ACCESS_UNSUPPORTED"
        /\ t.register = IF DeviceAt(a).write
                        THEN [x \in Address |-> IF x \in a .. a + n - 1 THEN bytes[x - a + 1]
                                                ELSE s.register[x]]
                        ELSE s.register
    <3> DEFINE u == PutDevice(s, a, bytes)
               m == Len(bytes)
    <3>1. /\ u.byte = s.byte
          /\ u.result = IF DeviceAt(a).write THEN "ok" ELSE "DEVICE_ACCESS_UNSUPPORTED"
          /\ u.register = IF DeviceAt(a).write
                          THEN [x \in Address |-> IF x \in a .. a + m - 1 THEN bytes[x - a + 1]
                                                  ELSE s.register[x]]
                          ELSE s.register
      BY <1>1, PutDeviceIs
    <3> HIDE DEF u, m
    <3>2. m = n
      BY <1>1 DEF m
    <3>3. t = u
      BY <2>1 DEF u
    <3> QED BY <3>1, <3>2, <3>3
  <2>4. CASE ~DeviceAt(a).write
    BY <1>2, <2>2, <2>3, <2>4 DEF t, Like
  <2>5. CASE DeviceAt(a).write
    <3>1. PICK d \in MemoryDevices : d.start <= a /\ a + n - 1 <= d.end
      BY <1>8, AccessIs DEF access
    <3>2. a \in Nat /\ n \in Nat /\ n >= 1 /\ a + n - 1 < AddressSpace /\ AddressSpace \in Nat
          /\ a < AddressSpace
      BY <3>1, MemoryAssumption, SpaceIs
    <3>3. ASSUME NEW x \in Address
          PROVE  /\ x \in a .. a + n - 1 <=> From(a, x) < n
                 /\ From(a, x) < n => x - a = From(a, x)
      <4>1. x \in Nat /\ x < AddressSpace
        BY SpaceIs
      <4>2. CASE a <= x
        <5>1. x - a \in Address /\ Wrap(a + (x - a)) = x
          <6>1. x - a \in Address /\ a + (x - a) = x
            BY <3>2, <4>1, <4>2, SpaceIs
          <6> QED BY <4>1, <6>1, WrapIs
        <5>2. From(a, x) = x - a
          BY <5>1, FromIs
        <5> QED BY <3>2, <4>1, <4>2, <5>2
      <4>3. CASE x < a
        <5> DEFINE k == (x + AddressSpace) - a
        <5>1. k \in Address
          BY <3>2, <4>1, <4>3, SpaceIs
        <5>2. From(a, x) = k
          BY <5>1, WrapIs, SpaceIs DEF From
        <5>3. k >= n
          BY <3>2, <4>1, <4>3
        <5>4. k \in Int
          BY <5>1, SpaceIs
        <5> HIDE DEF k
        <5> QED BY <3>2, <4>1, <4>3, <5>2, <5>3, <5>4
      <4> QED BY <3>2, <4>1, <4>2, <4>3
    <3>4. Stored(s, t, a, n, bytes, "device")
      BY <2>3, <2>5, <3>3 DEF Stored
    <3> QED BY <1>2, <2>2, <2>5, <3>4 DEF t
  <2> QED BY <2>4, <2>5
<1>9. CASE a \notin Intercepted /\ access = "memory"
  <2>1. t = Put(s, a, bytes)
    BY <1>4, <1>9
  <2>2. Target(a, n) = "memory"
    BY <1>9 DEF Target, access
  <2>3. /\ t.register = s.register /\ t.result = "ok"
        /\ t.byte = [x \in Address |-> IF x \in Bytes(a, n) THEN bytes[From(a, x) + 1] ELSE s.byte[x]]
    BY <1>1, <2>1, PutIs
  <2>4. \A x \in Address : x \in Bytes(a, n) <=> From(a, x) < n
    BY DEF Bytes
  <2>5. Stored(s, t, a, n, bytes, "memory")
    BY <2>3, <2>4 DEF Stored
  <2> QED BY <1>2, <2>2, <2>5 DEF t
<1> QED BY <1>3, <1>6, <1>7, <1>8, <1>9

\* A byte of a store that does not fail goes where the store goes.
LEMMA TargetOfByte ==
  ASSUME NEW a \in Address, NEW n \in 1 .. AddressSpace, Target(a, n) # "fails",
         NEW k \in 0 .. n - 1, Wrap(a + k) \in Intercepted <=> a \in Intercepted
  PROVE  Target(Wrap(a + k), 1) = Target(a, n)
<1>1. CASE a \in Intercepted
  BY <1>1 DEF Target
<1>2. CASE a \notin Intercepted
  <2>1. deviceForAccess(a, n) # "crosses" /\ deviceForAccess(a, n) \in {"memory", "crosses", "device"}
    BY <1>2, AccessIs DEF Target
  <2>2. /\ deviceForAccess(Wrap(a + k), 1) = deviceForAccess(a, n)
        /\ deviceForAccess(a, n) = "device" => DeviceAt(Wrap(a + k)) = DeviceAt(a)
    BY <2>1, AccessOfByte
  <2> QED BY <1>2, <2>1, <2>2 DEF Target
<1> QED BY <1>1, <1>2

(***************************************************************************)
(* A byte and a word.                                                      *)
(***************************************************************************)
\* Two memories with the same bytes read the same.
LEMMA LikeValue ==
  ASSUME NEW s, NEW t, Like(s, t), NEW x
  PROVE  Value(s, x) = Value(t, x)
BY DEF Like, Value, ReadableByte

\* And memories that read the same everywhere are alike.
LEMMA SameMemory ==
  ASSUME NEW s \in Memories, NEW t \in Memories,
         \A x \in Address : s.byte[x] = t.byte[x] /\ s.register[x] = t.register[x]
  PROVE  Like(s, t)
<1>1. /\ s.byte \in [Address -> Content] /\ t.byte \in [Address -> Content]
      /\ s.register \in [Address -> Byte] /\ t.register \in [Address -> Byte]
  BY MemoriesAre
<1>2. s.byte = t.byte
  BY <1>1
<1>3. s.register = t.register
  BY <1>1
<1> QED BY <1>2, <1>3 DEF Like

OneByte(b) == [i \in 1 .. 1 |-> b]

\* The store of a byte.
LEMMA StoreByte ==
  ASSUME NEW s \in Memories, NEW y \in Address, NEW b \in Byte
  PROVE  LET t == storeBytes(s, y, OneByte(b))
             where == Target(y, 1)
         IN  /\ t \in Memories
             /\ where = "fails" => t.result # "ok" /\ Like(t, s)
             /\ where # "fails" =>
                  /\ t.result = "ok"
                  /\ \A x \in Address :
                       /\ t.byte[x] = IF where = "memory" /\ x = y THEN b ELSE s.byte[x]
                       /\ t.register[x] = IF where = "device" /\ x = y THEN b ELSE s.register[x]
<1> DEFINE t == storeBytes(s, y, OneByte(b))
           where == Target(y, 1)
<1>1. 1 \in 1 .. AddressSpace /\ OneByte(b) \in [1 .. 1 -> Byte]
  BY SpaceIs DEF OneByte
<1>2. /\ t \in Memories
      /\ IF where = "fails" THEN t.result # "ok" /\ Like(t, s)
         ELSE Stored(s, t, y, 1, OneByte(b), where)
  BY <1>1, StoreIs
<1>3. ASSUME NEW x \in Address
      PROVE  (From(y, x) < 1 <=> x = y) /\ (x = y => OneByte(b)[From(y, x) + 1] = b)
  <2>1. From(y, x) \in Nat /\ Wrap(y + From(y, x)) = x
    <3>1. From(y, x) \in Address /\ Wrap(y + From(y, x)) = x
      BY FromIs
    <3> QED BY <3>1, SpaceIs
  <2>2. From(y, y) = 0
    <3>1. 0 \in Address /\ y + 0 = y /\ y \in Int
      BY SpaceIs
    <3>2. From(y, Wrap(y + 0)) = 0 /\ Wrap(y) = y
      BY <3>1, FromIs, WrapIs
    <3> QED BY <3>1, <3>2
  <2>3. From(y, x) < 1 => x = y
    <3>1. ASSUME From(y, x) < 1 PROVE x = y
      <4>1. From(y, x) = 0 /\ y + 0 = y /\ y \in Int
        BY <2>1, <3>1, SpaceIs
      <4>2. Wrap(y) = y
        BY <4>1, WrapIs
      <4> QED BY <2>1, <4>1, <4>2
    <3> QED BY <3>1
  <2>4. x = y => OneByte(b)[From(y, x) + 1] = b
    BY <2>2 DEF OneByte
  <2> QED BY <2>2, <2>3, <2>4
<1> HIDE DEF t, where
<1>4. CASE where = "fails"
  BY <1>2, <1>4 DEF t, where
<1>5. CASE where # "fails"
  <2>1. Stored(s, t, y, 1, OneByte(b), where)
    BY <1>2, <1>5
  <2>2. t.result = "ok"
    BY <2>1 DEF Stored
  <2>3. \A x \in Address :
          /\ t.byte[x] = IF where = "memory" /\ x = y THEN b ELSE s.byte[x]
          /\ t.register[x] = IF where = "device" /\ x = y THEN b ELSE s.register[x]
    BY <1>3, <2>1 DEF Stored
  <2> QED BY <1>2, <1>5, <2>2, <2>3 DEF t, where
<1> QED BY <1>4, <1>5

\* The copy of a byte.
LEMMA CopyByteIs ==
  ASSUME NEW s \in Memories, NEW filter, NEW c, c.from \in Address, c.to \in Address
  PROVE  LET b == Value(s, c.from)
             t == CopyByte(s, filter, c)
         IN  /\ t \in Memories
             /\ s.result # "ok" => t = s
             /\ s.result = "ok" /\ b = Unwritten => t.result # "ok" /\ Like(t, s)
             /\ s.result = "ok" /\ b # Unwritten /\ ~ShouldCopy(filter, b) => t = s
             /\ b # Unwritten => b \in Byte
             /\ s.result = "ok" /\ b # Unwritten /\ ShouldCopy(filter, b) =>
                  t = storeBytes(s, c.to, OneByte(b))
<1> DEFINE b == Value(s, c.from)
           t == CopyByte(s, filter, c)
           read == readBytes(s, c.from, 1)
<1>1. read = IF b = Unwritten THEN [result |-> "READ_UNUSED_MEM"]
             ELSE [result |-> "ok", bytes |-> OneByte(b)]
  BY ReadByte DEF OneByte
<1>2. b \in Content
  BY ReadByte
<1>3. t = CASE s.result # "ok" -> s
            [] s.result = "ok" /\ read.result # "ok" -> [s EXCEPT !.result = read.result]
            [] OTHER -> IF ShouldCopy(filter, read.bytes[1]) THEN storeBytes(s, c.to, read.bytes)
                        ELSE s
  BY DEF CopyByte
<1>4. OneByte(b)[1] = b
  BY DEF OneByte
<1> HIDE DEF b, read, t
<1>5. CASE s.result # "ok"
  BY <1>2, <1>3, <1>5 DEF b, t, Content
<1>6. CASE s.result = "ok" /\ b = Unwritten
  <2>1. read.result = "READ_UNUSED_MEM"
    BY <1>1, <1>6
  <2>2. t = [s EXCEPT !.result = "READ_UNUSED_MEM"]
    BY <1>3, <1>6, <2>1
  <2>3. t \in Memories /\ t.result = "READ_UNUSED_MEM" /\ Like(t, s)
    BY <2>2 DEF Memories, Results, Like
  <2> QED BY <1>6, <2>3 DEF b, t
<1>7. CASE s.result = "ok" /\ b # Unwritten
  <2>1. read.result = "ok" /\ read.bytes = OneByte(b) /\ b \in Byte
    BY <1>1, <1>2, <1>7 DEF Content
  <2>2. t = IF ShouldCopy(filter, b) THEN storeBytes(s, c.to, OneByte(b)) ELSE s
    BY <1>3, <1>4, <1>7, <2>1
  <2>3. storeBytes(s, c.to, OneByte(b)) \in Memories
    BY <2>1, StoreByte
  <2> QED BY <1>7, <2>1, <2>2, <2>3 DEF b, t
<1> QED BY <1>5, <1>6, <1>7

\* A byte is copied alike in memories with the same bytes.
LEMMA CopyByteLike ==
  ASSUME NEW s \in Memories, NEW u \in Memories, Like(s, u), s.result = "ok", u.result = "ok",
         NEW filter, NEW c, c.from \in Address, c.to \in Address
  PROVE  LET p == CopyByte(s, filter, c)
             q == CopyByte(u, filter, c)
         IN  Like(p, q) /\ (p.result = "ok" <=> q.result = "ok")
<1> DEFINE p == CopyByte(s, filter, c)
           q == CopyByte(u, filter, c)
           b == Value(s, c.from)
<1>1. Value(u, c.from) = b
  BY LikeValue
<1>2. /\ p \in Memories
      /\ b = Unwritten => p.result # "ok" /\ Like(p, s)
      /\ b # Unwritten => b \in Byte
      /\ b # Unwritten /\ ~ShouldCopy(filter, b) => p = s
      /\ b # Unwritten /\ ShouldCopy(filter, b) => p = storeBytes(s, c.to, OneByte(b))
  BY CopyByteIs
<1>3. /\ q \in Memories
      /\ b = Unwritten => q.result # "ok" /\ Like(q, u)
      /\ b # Unwritten /\ ~ShouldCopy(filter, b) => q = u
      /\ b # Unwritten /\ ShouldCopy(filter, b) => q = storeBytes(u, c.to, OneByte(b))
  BY <1>1, CopyByteIs
<1> HIDE DEF p, q, b
<1>4. CASE b = Unwritten
  BY <1>2, <1>3, <1>4 DEF Like, p, q
<1>5. CASE b # Unwritten /\ ~ShouldCopy(filter, b)
  BY <1>2, <1>3, <1>5 DEF p, q
<1>6. CASE b # Unwritten /\ ShouldCopy(filter, b)
  <2> DEFINE where == Target(c.to, 1)
  <2>0. b \in Byte
    BY <1>2, <1>6
  <2>1. /\ where = "fails" => p.result # "ok" /\ Like(p, s)
        /\ where # "fails" =>
             /\ p.result = "ok"
             /\ \A x \in Address :
                  /\ p.byte[x] = IF where = "memory" /\ x = c.to THEN b ELSE s.byte[x]
                  /\ p.register[x] = IF where = "device" /\ x = c.to THEN b ELSE s.register[x]
    BY <1>2, <1>6, <2>0, StoreByte
  <2>2. /\ where = "fails" => q.result # "ok" /\ Like(q, u)
        /\ where # "fails" =>
             /\ q.result = "ok"
             /\ \A x \in Address :
                  /\ q.byte[x] = IF where = "memory" /\ x = c.to THEN b ELSE u.byte[x]
                  /\ q.register[x] = IF where = "device" /\ x = c.to THEN b ELSE u.register[x]
    BY <1>3, <1>6, <2>0, StoreByte
  <2> HIDE DEF where
  <2>3. CASE where = "fails"
    BY <2>1, <2>2, <2>3 DEF Like, p, q
  <2>4. CASE where # "fails"
    <3>1. \A x \in Address : p.byte[x] = q.byte[x] /\ p.register[x] = q.register[x]
      BY <2>1, <2>2, <2>4 DEF Like
    <3>2. Like(p, q)
      BY <1>2, <1>3, <3>1, SameMemory
    <3> QED BY <2>1, <2>2, <2>4, <3>2 DEF p, q
  <2> QED BY <2>3, <2>4
<1> QED BY <1>4, <1>5, <1>6

\* The bytes of a chunk, ...
ByteOf(c, i) == Chunk(c.from + i, c.to + i, 1)

\* ... copied one by one.
Bytewise(g, u, filter, c, w) ==
  /\ g \in [0 .. w -> Memories] /\ g[0] = u
  /\ \A i \in 1 .. w : g[i] = CopyByte(g[i - 1], filter, ByteOf(c, i - 1))

\* None is read from where an earlier one was stored, ...
Apart(c, w) == \A i \in 0 .. w - 1, j \in 0 .. w - 1 : j < i => Wrap(c.from + i) # Wrap(c.to + j)

\* ... and all of them or none go to the interceptor.
Whole(c, w) == \A i \in 0 .. w - 1 : Wrap(c.to + i) \in Intercepted <=> c.to \in Intercepted

\* Then what is stored at once is what is stored byte by byte, ...
LEMMA ChunkCopied ==
  ASSUME NEW s \in Memories, NEW u \in Memories, Like(s, u), u.result = "ok",
         NEW c, c.from \in Address, c.to \in Address, NEW w \in 1 .. AddressSpace,
         NEW filter, NEW g, Bytewise(g, u, filter, c, w), Apart(c, w), Whole(c, w),
         NEW bytes \in [1 .. w -> Byte],
         \A k \in 0 .. w - 1 : bytes[k + 1] = Value(s, Wrap(c.from + k)),
         \A i \in 1 .. w : ShouldCopy(filter, bytes[i]),
         Target(c.to, w) # "fails"
  PROVE  g[w].result = "ok" /\ Like(storeBytes(s, c.to, bytes), g[w])
<1> DEFINE where == Target(c.to, w)
           T == {i \in 0 .. w : Stored(u, g[i], c.to, i, bytes, where)}
<1>1. /\ g \in [0 .. w -> Memories] /\ g[0] = u
      /\ \A i \in 1 .. w : g[i] = CopyByte(g[i - 1], filter, ByteOf(c, i - 1))
  BY DEF Bytewise
<1>2. w \in Nat /\ w >= 1 /\ w <= AddressSpace /\ c.from \in Int /\ c.to \in Int
  BY SpaceIs
<1>3. \A x \in Address : From(c.to, x) \in Nat /\ Wrap(c.to + From(c.to, x)) = x
  <2>1. \A x \in Address : From(c.to, x) \in Address /\ Wrap(c.to + From(c.to, x)) = x
    BY FromIs
  <2>2. Address \subseteq Nat
    BY SpaceIs
  <2> QED BY <2>1, <2>2
<1> HIDE DEF where
<1>4. 0 \in T
  <2>1. \A x \in Address : ~(From(c.to, x) < 0)
    BY <1>3
  <2>2. Stored(u, g[0], c.to, 0, bytes, where)
    BY <1>1, <2>1 DEF Stored
  <2> QED BY <1>2, <2>2
<1>5. ASSUME NEW i \in 1 .. w, i - 1 \in T PROVE i \in T
  <2> DEFINE j == i - 1
             x0 == Wrap(c.from + j)
             y0 == Wrap(c.to + j)
             h == g[j]
             b == bytes[i]
  <2>1. /\ j \in 0 .. w - 1 /\ j \in 0 .. w /\ i = j + 1 /\ i \in 0 .. w
        /\ c.from + j \in Int /\ c.to + j \in Int /\ j \in Address
    BY <1>2, SpaceIs
  <2>2. x0 \in Address /\ y0 \in Address
    BY <2>1, WrapIs
  <2>3. h \in Memories /\ g[i] = CopyByte(h, filter, ByteOf(c, j)) /\ Stored(u, h, c.to, j, bytes, where)
    BY <1>1, <1>5, <2>1
  <2>4. ByteOf(c, j).from = x0 /\ ByteOf(c, j).to = y0
    BY DEF ByteOf, Chunk
  <2>5. b \in Byte /\ ShouldCopy(filter, b) /\ b = Value(s, x0)
    BY <2>1
  <2>6. From(c.to, y0) = j
    BY <2>1, FromIs
  <2> HIDE DEF j, x0, y0, h, b
  <2>7. ~(From(c.to, x0) < j)
    <3>1. SUFFICES ASSUME From(c.to, x0) < j PROVE FALSE
      OBVIOUS
    <3>2. From(c.to, x0) \in 0 .. w - 1 /\ Wrap(c.to + From(c.to, x0)) = x0
      BY <1>2, <1>3, <2>1, <2>2, <3>1
    <3>3. Wrap(c.from + j) # Wrap(c.to + From(c.to, x0))
      BY <2>1, <3>1, <3>2 DEF Apart
    <3> QED BY <3>2, <3>3 DEF x0
  <2>8. Value(h, x0) = b
    <3>1. h.byte[x0] = u.byte[x0] /\ h.register[x0] = u.register[x0]
      BY <2>2, <2>3, <2>7 DEF Stored
    <3>2. Value(h, x0) = Value(u, x0)
      BY <3>1 DEF Value, ReadableByte
    <3>3. Value(u, x0) = Value(s, x0)
      BY LikeValue
    <3> QED BY <2>5, <3>2, <3>3
  <2>9. b # Unwritten
    BY <2>5, SpaceIs
  <2>10. g[i] = storeBytes(h, y0, OneByte(b))
    <3> DEFINE k == ByteOf(c, j)
    <3>1. k.from = x0 /\ k.to = y0
      BY <2>4
    <3> HIDE DEF k
    <3>2. h.result = "ok"
      BY <2>3 DEF Stored
    <3>3. CopyByte(h, filter, k) = storeBytes(h, k.to, OneByte(Value(h, k.from)))
      BY <2>2, <2>3, <2>5, <2>8, <2>9, <3>1, <3>2, CopyByteIs
    <3> QED BY <2>3, <2>8, <3>1, <3>3 DEF k
  <2>11. Target(y0, 1) = where
    BY <2>1, TargetOfByte DEF Whole, y0, where
  <2>12. /\ g[i].result = "ok"
         /\ \A x \in Address :
              /\ g[i].byte[x] = IF where = "memory" /\ x = y0 THEN b ELSE h.byte[x]
              /\ g[i].register[x] = IF where = "device" /\ x = y0 THEN b ELSE h.register[x]
    BY <2>2, <2>3, <2>5, <2>10, <2>11, StoreByte DEF where
  <2>13. ASSUME NEW x \in Address
         PROVE  /\ From(c.to, x) < i <=> (From(c.to, x) < j \/ x = y0)
                /\ x = y0 => bytes[From(c.to, x) + 1] = b /\ ~(From(c.to, x) < j)
    <3>1. From(c.to, x) = j => x = y0
      BY <1>3 DEF y0
    <3>2. From(c.to, x) \in Nat
      BY <1>3
    <3>3. j + 1 = i /\ j \in Nat
      BY <2>1
    <3> QED BY <2>6, <3>1, <3>2, <3>3 DEF b
  <2>14. Stored(u, g[i], c.to, i, bytes, where)
    <3>1. ASSUME NEW x \in Address
          PROVE  LET new == bytes[From(c.to, x) + 1]
                 IN  /\ g[i].byte[x] = IF where = "memory" /\ From(c.to, x) < i THEN new
                                       ELSE u.byte[x]
                     /\ g[i].register[x] = IF where = "device" /\ From(c.to, x) < i THEN new
                                           ELSE u.register[x]
      <4>1. LET new == bytes[From(c.to, x) + 1]
            IN  /\ h.byte[x] = IF where = "memory" /\ From(c.to, x) < j THEN new ELSE u.byte[x]
                /\ h.register[x] = IF where = "device" /\ From(c.to, x) < j THEN new
                                   ELSE u.register[x]
        BY <2>3 DEF Stored
      <4>2. CASE x = y0
        BY <2>12, <2>13, <4>1, <4>2
      <4>3. CASE x # y0
        BY <2>12, <2>13, <4>1, <4>3
      <4> QED BY <4>2, <4>3
    <3> QED BY <2>12, <3>1 DEF Stored
  <2> QED BY <2>1, <2>14
<1>6. w \in T
  <2> HIDE DEF T
  <2>1. 0 .. w \subseteq T
    BY <1>2, <1>4, <1>5, UpTo
  <2> QED BY <1>2, <2>1
<1>7. Stored(u, g[w], c.to, w, bytes, where) /\ g[w] \in Memories
  BY <1>1, <1>2, <1>6
<1>8. /\ storeBytes(s, c.to, bytes) \in Memories
      /\ Stored(s, storeBytes(s, c.to, bytes), c.to, w, bytes, where)
  BY StoreIs DEF where
<1>9. Like(storeBytes(s, c.to, bytes), g[w])
  <2> DEFINE t == storeBytes(s, c.to, bytes)
  <2> HIDE DEF t
  <2>1. t \in Memories /\ Stored(s, t, c.to, w, bytes, where)
    BY <1>8 DEF t
  <2>2. \A x \in Address : t.byte[x] = g[w].byte[x] /\ t.register[x] = g[w].register[x]
    BY <1>7, <2>1 DEF Stored, Like
  <2>3. Like(t, g[w])
    BY <1>7, <2>1, <2>2, SameMemory
  <2> QED BY <2>3 DEF t
<1> QED BY <1>7, <1>9 DEF Stored

\* ... and when none of the bytes is to be copied nothing is.
LEMMA ChunkSkipped ==
  ASSUME NEW u \in Memories, u.result = "ok",
         NEW c, c.from \in Address, c.to \in Address, NEW w \in 1 .. AddressSpace,
         NEW filter, NEW g, Bytewise(g, u, filter, c, w),
         NEW bytes \in [1 .. w -> Byte],
         \A k \in 0 .. w - 1 : bytes[k + 1] = Value(u, Wrap(c.from + k)),
         \A i \in 1 .. w : ~ShouldCopy(filter, bytes[i])
  PROVE  g[w] = u
<1> DEFINE T == {i \in 0 .. w : g[i] = u}
<1>1. /\ g \in [0 .. w -> Memories] /\ g[0] = u
      /\ \A i \in 1 .. w : g[i] = CopyByte(g[i - 1], filter, ByteOf(c, i - 1))
  BY DEF Bytewise
<1>2. w \in Nat /\ w >= 1 /\ c.from \in Int /\ c.to \in Int
  BY SpaceIs
<1>3. 0 \in T
  BY <1>1, <1>2
<1>4. ASSUME NEW i \in 1 .. w, i - 1 \in T PROVE i \in T
  <2> DEFINE j == i - 1
             k == ByteOf(c, j)
  <2>1. j \in 0 .. w - 1 /\ j + 1 = i /\ c.from + j \in Int /\ c.to + j \in Int
    BY <1>2
  <2>2. k.from = Wrap(c.from + j) /\ k.to = Wrap(c.to + j)
    BY DEF ByteOf, Chunk
  <2>3. k.from \in Address /\ k.to \in Address
    BY <2>1, <2>2, WrapIs
  <2>4. Value(u, k.from) = bytes[i] /\ bytes[i] \in Byte
    BY <2>1, <2>2
  <2>5. g[i] = CopyByte(u, filter, k)
    BY <1>1, <1>4
  <2> HIDE DEF j, k
  <2>6. g[i] = u
    BY <2>3, <2>4, <2>5, CopyByteIs, SpaceIs
  <2> QED BY <2>6
<1>5. w \in T
  <2> HIDE DEF T
  <2>1. 0 .. w \subseteq T
    BY <1>2, <1>3, <1>4, UpTo
  <2> QED BY <1>2, <2>1
<1> QED BY <1>5

-----------------------------------------------------------------------------
(***************************************************************************)
(* The loop over the n bytes B of a move, and the move after k of them.    *)
(***************************************************************************)
LoopOf(f, s, filter, B, n) ==
  /\ f \in [0 .. n -> Memories] /\ f[0] = s
  /\ \A i \in 1 .. n : /\ B[i].from \in Address /\ B[i].to \in Address
                       /\ f[i] = CopyByte(f[i - 1], filter, B[i])

At(t, k, f, n) ==
  /\ t \in Memories
  /\ t.result = "ok" => Like(t, f[k]) /\ f[k].result = "ok"
  /\ t.result # "ok" => \E j \in 0 .. n : Like(t, f[j])

\* One that has failed is where it was.
LEMMA AtFailed ==
  ASSUME NEW t, NEW k, NEW f, NEW n, At(t, k, f, n), t.result # "ok", NEW m
  PROVE  At(t, m, f, n)
BY DEF At

\* One byte.
LEMMA AtByte ==
  ASSUME NEW n \in Nat, NEW f, NEW s, NEW filter, NEW B, LoopOf(f, s, filter, B, n),
         NEW k \in 1 .. n, NEW t, At(t, k - 1, f, n)
  PROVE  At(CopyByte(t, filter, B[k]), k, f, n)
<1> DEFINE c == B[k]
           p == CopyByte(t, filter, c)
<1>1. /\ c.from \in Address /\ c.to \in Address /\ f[k] = CopyByte(f[k - 1], filter, c)
      /\ f[k - 1] \in Memories /\ k \in 0 .. n /\ t \in Memories
  BY DEF LoopOf, At
<1> HIDE DEF c
<1>2. CASE t.result # "ok"
  <2>1. p = t
    BY <1>1, <1>2, CopyByteIs
  <2> QED BY <1>2, <2>1, AtFailed DEF c
<1>3. CASE t.result = "ok"
  <2>1. Like(t, f[k - 1]) /\ f[k - 1].result = "ok"
    BY <1>3 DEF At
  <2>2. Like(p, f[k]) /\ (p.result = "ok" <=> f[k].result = "ok") /\ p \in Memories
    BY <1>1, <1>3, <2>1, CopyByteLike, CopyByteIs
  <2>3. At(p, k, f, n)
    <3> HIDE DEF p
    <3> QED BY <1>1, <2>2 DEF At
  <2> QED BY <2>3 DEF c
<1> QED BY <1>2, <1>3

\* Some bytes.
LEMMA AtBytes ==
  ASSUME NEW n \in Nat, NEW f, NEW s, NEW filter, NEW B, LoopOf(f, s, filter, B, n),
         NEW k \in Nat, NEW N \in Nat, k + N <= n, NEW q, DOMAIN q = 1 .. N,
         \A i \in 1 .. N : q[i] = B[k + i],
         NEW t, At(t, k, f, n)
  PROVE  At(CopyBytes(t, filter, q), k + N, f, n)
<1>1. \A i \in 1 .. N : k + i \in 1 .. n /\ (k + i) - 1 = k + (i - 1)
  OBVIOUS
<1>2. \A i \in 1 .. N : q[i].from \in Address /\ q[i].to \in Address
  BY <1>1 DEF LoopOf
<1>3. \A u \in Memories, i \in 1 .. N : CopyByte(u, filter, q[i]) \in Memories
  BY <1>2, CopyByteIs
<1>4. t \in Memories
  BY DEF At
<1>5. PICK g : ByteCourse(g, t, filter, q, N, Memories)
  <2>1. ByteKeeps(filter, q, N, Memories)
    BY <1>3 DEF ByteKeeps
  <2> QED BY <1>4, <2>1, ByteSteps
<1> DEFINE T == {i \in 0 .. N : At(g[i], k + i, f, n)}
<1>6. g[0] = t /\ CopyBytes(t, filter, q) = g[N] /\ \A i \in 1 .. N : g[i] = CopyByte(g[i - 1], filter, q[i])
  BY <1>5 DEF ByteCourse
<1>7. 0 \in T
  <2>1. k + 0 = k
    OBVIOUS
  <2> QED BY <1>6, <2>1
<1>8. ASSUME NEW i \in 1 .. N, i - 1 \in T PROVE i \in T
  <2>1. At(g[i - 1], (k + i) - 1, f, n) /\ k + i \in 1 .. n
    BY <1>1, <1>8
  <2>2. g[i] = CopyByte(g[i - 1], filter, B[k + i])
    BY <1>6
  <2>3. At(g[i], k + i, f, n)
    BY <2>1, <2>2, AtByte
  <2> QED BY <2>3
<1>9. N \in T
  <2> HIDE DEF T
  <2>1. 0 .. N \subseteq T
    BY <1>7, <1>8, UpTo
  <2> QED BY <2>1
<1> QED BY <1>6, <1>9

\* A chunk stands for the bytes from the k-th.
Covers(B, c, k) ==
  /\ c.from \in Address /\ c.to \in Address /\ c.width \in 1 .. AddressSpace
  /\ \A i \in 0 .. c.width - 1 : B[k + i + 1] = ByteOf(c, i)
  /\ Apart(c, c.width) /\ Whole(c, c.width)

\* The part of the loop that copies the bytes of a chunk.
LEMMA BytewiseLoop ==
  ASSUME NEW n \in Nat, NEW f, NEW s, NEW filter, NEW B, LoopOf(f, s, filter, B, n),
         NEW k \in Nat, NEW c, Covers(B, c, k), k + c.width <= n
  PROVE  Bytewise([i \in 0 .. c.width |-> f[k + i]], f[k], filter, c, c.width)
<1> DEFINE w == c.width
           g == [i \in 0 .. w |-> f[k + i]]
<1>1. w \in Nat /\ w >= 1
  BY SpaceIs DEF Covers
<1>2. \A i \in 0 .. w - 1 : B[k + i + 1] = ByteOf(c, i)
  BY DEF Covers
<1>3. k + w <= n
  OBVIOUS
<1> HIDE DEF w
<1>4. \A i \in 0 .. w : k + i \in 0 .. n
  BY <1>1, <1>3
<1>5. g \in [0 .. w -> Memories]
  BY <1>4 DEF LoopOf
<1>6. g[0] = f[k]
  BY <1>1
<1>7. ASSUME NEW i \in 1 .. w PROVE g[i] = CopyByte(g[i - 1], filter, ByteOf(c, i - 1))
  <2>1. /\ k + i \in 1 .. n /\ (k + i) - 1 = k + (i - 1) /\ i - 1 \in 0 .. w - 1 /\ i - 1 \in 0 .. w
        /\ k + (i - 1) + 1 = k + i /\ i \in 0 .. w
    BY <1>1, <1>3
  <2>2. f[k + i] = CopyByte(f[k + (i - 1)], filter, B[k + i])
    BY <2>1 DEF LoopOf
  <2>3. B[k + i] = ByteOf(c, i - 1)
    BY <1>2, <2>1
  <2> QED BY <2>1, <2>2, <2>3
<1>8. Bytewise(g, f[k], filter, c, w)
  <2> HIDE DEF g
  <2> QED BY <1>5, <1>6, <1>7 DEF Bytewise
<1> QED BY <1>8 DEF w

\* A store of bytes all of which are to be copied.
LEMMA AtStore ==
  ASSUME NEW n \in Nat, NEW f, NEW s, NEW filter, NEW B, LoopOf(f, s, filter, B, n),
         NEW k \in Nat, NEW c, Covers(B, c, k), k + c.width <= n,
         NEW t, At(t, k, f, n), t.result = "ok",
         NEW bytes \in [1 .. c.width -> Byte],
         \A i \in 0 .. c.width - 1 : bytes[i + 1] = Value(t, Wrap(c.from + i)),
         \A i \in 1 .. c.width : ShouldCopy(filter, bytes[i])
  PROVE  At(storeBytes(t, c.to, bytes), k + c.width, f, n)
<1> DEFINE w == c.width
           p == storeBytes(t, c.to, bytes)
           g == [i \in 0 .. w |-> f[k + i]]
<1>1. /\ t \in Memories /\ Like(t, f[k]) /\ f[k].result = "ok"
  BY DEF At
<1>2. /\ c.from \in Address /\ c.to \in Address /\ w \in 1 .. AddressSpace
      /\ Apart(c, w) /\ Whole(c, w)
  BY DEF Covers
<1>3. Bytewise(g, f[k], filter, c, w)
  BY BytewiseLoop
<1>4. w \in Nat /\ k + w \in 0 .. n /\ k \in 0 .. n /\ w \in 0 .. w /\ k + w <= n
  BY <1>2, SpaceIs
<1>5. f[k] \in Memories /\ g[w] = f[k + w]
  BY <1>4 DEF LoopOf
<1>6. p \in Memories /\ (Target(c.to, w) = "fails" => p.result # "ok" /\ Like(p, t))
      /\ (Target(c.to, w) # "fails" => p.result = "ok")
  BY <1>1, <1>2, StoreIs DEF Stored
<1>7. CASE Target(c.to, w) = "fails"
  <2>1. p.result # "ok" /\ Like(p, f[k])
    BY <1>1, <1>6, <1>7 DEF Like
  <2>2. At(p, k + w, f, n)
    <3> HIDE DEF p, w
    <3> QED BY <1>4, <1>6, <2>1 DEF At
  <2> QED BY <2>2
<1>8. CASE Target(c.to, w) # "fails"
  <2>1. g[w].result = "ok" /\ Like(p, g[w])
    <3> HIDE DEF g, w, p
    <3>1. /\ bytes \in [1 .. w -> Byte] /\ \A i \in 1 .. w : ShouldCopy(filter, bytes[i])
          /\ \A i \in 0 .. w - 1 : bytes[i + 1] = Value(t, Wrap(c.from + i))
      BY DEF w
    <3> QED BY <1>1, <1>2, <1>3, <1>5, <1>8, <3>1, ChunkCopied DEF p
  <2>2. At(p, k + w, f, n)
    <3> HIDE DEF p, w, g
    <3> QED BY <1>5, <1>6, <1>8, <2>1 DEF At
  <2> QED BY <2>2
<1> QED BY <1>7, <1>8

\* A chunk of a plain move.
LEMMA CopyChunkTyped ==
  ASSUME NEW t \in Memories, NEW c, c.from \in Address, c.to \in Address,
         c.width \in 1 .. AddressSpace
  PROVE  CopyChunk(t, c) \in Memories
<1> DEFINE read == readBytes(t, c.from, c.width)
<1>1. read.result \in Results /\ (read.result = "ok" => read.bytes \in [1 .. c.width -> Byte])
  BY ReadIs
<1>2. read.result = "ok" => storeBytes(t, c.to, read.bytes) \in Memories
  BY <1>1, StoreIs
<1>3. [t EXCEPT !.result = read.result] \in Memories
  BY <1>1, MemoriesAre
<1> HIDE DEF read
<1> QED BY <1>2, <1>3 DEF CopyChunk, read

\* A chunk of a plain move, from the byte it starts at to the one after it.
LEMMA AtChunk ==
  ASSUME NEW n \in Nat, NEW f, NEW s, NEW B, LoopOf(f, s, "All", B, n),
         NEW k \in Nat, NEW c, Covers(B, c, k), k + c.width <= n, NEW t, At(t, k, f, n)
  PROVE  At(CopyChunk(t, c), k + c.width, f, n)
<1> DEFINE w == c.width
           read == readBytes(t, c.from, w)
           p == CopyChunk(t, c)
<1>1. /\ c.from \in Address /\ c.to \in Address /\ w \in 1 .. AddressSpace /\ t \in Memories
      /\ k \in 0 .. n
  BY SpaceIs DEF Covers, At
<1>2. p = CASE t.result # "ok" -> t
            [] t.result = "ok" /\ read.result # "ok" -> [t EXCEPT !.result = read.result]
            [] OTHER -> storeBytes(t, c.to, read.bytes)
  BY DEF CopyChunk
<1>3. /\ read.result \in Results
      /\ read.result = "ok" => /\ read.bytes \in [1 .. w -> Byte]
                               /\ \A i \in 0 .. w - 1 : read.bytes[i + 1] = Value(t, Wrap(c.from + i))
  BY <1>1, ReadIs
<1> HIDE DEF read, p
<1>4. CASE t.result # "ok"
  BY <1>2, <1>4, AtFailed DEF p
<1>5. CASE t.result = "ok" /\ read.result # "ok"
  <2>1. p = [t EXCEPT !.result = read.result]
    BY <1>2, <1>5
  <2>2. p \in Memories /\ p.result # "ok" /\ Like(p, t)
    BY <1>1, <1>3, <1>5, <2>1 DEF Memories, Like
  <2>3. Like(t, f[k])
    BY <1>5 DEF At
  <2> QED BY <1>1, <2>2, <2>3 DEF At, Like, p
<1>6. CASE t.result = "ok" /\ read.result = "ok"
  <2>1. p = storeBytes(t, c.to, read.bytes)
    BY <1>2, <1>6
  <2>2. \A i \in 1 .. w : ShouldCopy("All", read.bytes[i])
    BY DEF ShouldCopy
  <2>3. At(storeBytes(t, c.to, read.bytes), k + w, f, n)
    BY <1>3, <1>6, <2>2, AtStore
  <2> QED BY <2>1, <2>3 DEF p
<1> QED BY <1>4, <1>5, <1>6

\* A word of a row.
LEMMA CopyWordIs ==
  ASSUME NEW t \in Memories, NEW filter, NEW c, c.from \in Address, c.to \in Address
  PROVE  LET read == readBytes(t, c.from, BytesPerWord)
             p == CopyWord(t, filter, c)
             all == \A i \in 1 .. BytesPerWord : ShouldCopy(filter, read.bytes[i])
             none == \A i \in 1 .. BytesPerWord : ~ShouldCopy(filter, read.bytes[i])
         IN  /\ t.result # "ok" => p = t
             /\ t.result = "ok" /\ read.result # "ok" => p = [t EXCEPT !.result = read.result]
             /\ t.result = "ok" /\ read.result = "ok" =>
                  p = IF all THEN storeBytes(t, c.to, read.bytes)
                      ELSE IF none THEN t ELSE CopyBytes(t, filter, BytesOf(c))
<1> DEFINE read == readBytes(t, c.from, BytesPerWord)
           p == CopyWord(t, filter, c)
<1>1. BytesPerWord \in 1 .. AddressSpace
  BY SpaceIs
<1>2. read.result = "ok" => DOMAIN read.bytes = 1 .. BytesPerWord
  BY <1>1, ReadIs
<1>3. p = CASE t.result # "ok" -> t
            [] t.result = "ok" /\ read.result # "ok" -> [t EXCEPT !.result = read.result]
            [] OTHER ->
                 IF \A i \in DOMAIN read.bytes : ShouldCopy(filter, read.bytes[i])
                 THEN storeBytes(t, c.to, read.bytes)
                 ELSE IF \A i \in DOMAIN read.bytes : ~ShouldCopy(filter, read.bytes[i]) THEN t
                 ELSE CopyBytes(t, filter, BytesOf(c))
  BY Zenon DEF CopyWord
<1> HIDE DEF read, p
<1>4. t.result # "ok" => p = t
  BY <1>3
<1>5. t.result = "ok" /\ read.result # "ok" => p = [t EXCEPT !.result = read.result]
  BY <1>3
<1>6. t.result = "ok" /\ read.result = "ok" =>
        p = IF \A i \in 1 .. BytesPerWord : ShouldCopy(filter, read.bytes[i])
            THEN storeBytes(t, c.to, read.bytes)
            ELSE IF \A i \in 1 .. BytesPerWord : ~ShouldCopy(filter, read.bytes[i]) THEN t
            ELSE CopyBytes(t, filter, BytesOf(c))
  BY <1>2, <1>3
<1> QED BY <1>4, <1>5, <1>6 DEF read, p

\* The same of a word of a row: stored whole, skipped, or copied byte by byte.
LEMMA AtWord ==
  ASSUME NEW n \in Nat, NEW f, NEW s, NEW filter, NEW B, LoopOf(f, s, filter, B, n),
         NEW k \in Nat, NEW c, Covers(B, c, k), c.width = BytesPerWord, k + BytesPerWord <= n,
         NEW t, At(t, k, f, n)
  PROVE  At(CopyWord(t, filter, c), k + BytesPerWord, f, n)
<1> DEFINE w == BytesPerWord
           read == readBytes(t, c.from, w)
           p == CopyWord(t, filter, c)
           all == \A i \in 1 .. w : ShouldCopy(filter, read.bytes[i])
           none == \A i \in 1 .. w : ~ShouldCopy(filter, read.bytes[i])
<1>1. /\ c.from \in Address /\ c.to \in Address /\ w \in 1 .. AddressSpace /\ t \in Memories
      /\ k \in 0 .. n /\ w \in Nat /\ k + w \in 0 .. n
  BY SpaceIs DEF Covers, At
<1>2. /\ t.result # "ok" => p = t
      /\ t.result = "ok" /\ read.result # "ok" => p = [t EXCEPT !.result = read.result]
      /\ t.result = "ok" /\ read.result = "ok" =>
           p = IF all THEN storeBytes(t, c.to, read.bytes)
               ELSE IF none THEN t ELSE CopyBytes(t, filter, BytesOf(c))
  BY <1>1, CopyWordIs
<1>3. /\ read.result \in Results
      /\ read.result = "ok" => /\ read.bytes \in [1 .. w -> Byte]
                               /\ \A i \in 0 .. w - 1 : read.bytes[i + 1] = Value(t, Wrap(c.from + i))
  BY <1>1, ReadIs
<1> HIDE DEF read, p, all, none
<1>4. CASE t.result # "ok"
  BY <1>2, <1>4, AtFailed DEF p
<1>5. CASE t.result = "ok" /\ read.result # "ok"
  <2>1. p = [t EXCEPT !.result = read.result]
    BY <1>2, <1>5
  <2>2. p \in Memories /\ p.result # "ok" /\ Like(p, t)
    BY <1>1, <1>3, <1>5, <2>1 DEF Memories, Like
  <2>3. Like(t, f[k])
    BY <1>5 DEF At
  <2> QED BY <1>1, <2>2, <2>3 DEF At, Like, p
<1>6. CASE t.result = "ok" /\ read.result = "ok" /\ all
  <2>1. p = storeBytes(t, c.to, read.bytes)
    BY <1>2, <1>6
  <2>2. \A i \in 1 .. w : ShouldCopy(filter, read.bytes[i])
    BY <1>6 DEF all
  <2>3. At(storeBytes(t, c.to, read.bytes), k + w, f, n)
    <3> DEFINE bytes == read.bytes
    <3>1. /\ bytes \in [1 .. c.width -> Byte] /\ \A i \in 1 .. c.width : ShouldCopy(filter, bytes[i])
          /\ \A i \in 0 .. c.width - 1 : bytes[i + 1] = Value(t, Wrap(c.from + i))
      BY <1>3, <1>6, <2>2
    <3> HIDE DEF bytes
    <3>2. At(storeBytes(t, c.to, bytes), k + c.width, f, n)
      BY <1>6, <3>1, AtStore
    <3> QED BY <3>2 DEF bytes
  <2> QED BY <2>1, <2>3 DEF p
<1>7. CASE t.result = "ok" /\ read.result = "ok" /\ ~all /\ none
  <2>1. p = t
    BY <1>2, <1>7
  <2>2. Like(t, f[k]) /\ f[k].result = "ok" /\ f[k] \in Memories
    BY <1>1, <1>7 DEF At, LoopOf
  <2> DEFINE g == [i \in 0 .. w |-> f[k + i]]
             bytes == read.bytes
  <2>3. Bytewise(g, f[k], filter, c, w)
    BY BytewiseLoop
  <2>4. \A i \in 0 .. w - 1 : bytes[i + 1] = Value(f[k], Wrap(c.from + i))
    BY <1>3, <1>7, <2>2, LikeValue
  <2>5. bytes \in [1 .. w -> Byte] /\ \A i \in 1 .. w : ~ShouldCopy(filter, bytes[i])
    BY <1>3, <1>7 DEF none
  <2>6. g[w] = f[k + w]
    BY <1>1
  <2> HIDE DEF g, bytes, w
  <2>7. g[w] = f[k]
    BY <1>1, <2>2, <2>3, <2>4, <2>5, ChunkSkipped
  <2>8. At(t, k + w, f, n)
    BY <1>1, <1>7, <2>2, <2>6, <2>7 DEF At
  <2> QED BY <2>1, <2>8 DEF p, w
<1>8. CASE t.result = "ok" /\ read.result = "ok" /\ ~all /\ ~none
  <2> DEFINE q == BytesOf(c)
  <2>1. p = CopyBytes(t, filter, q)
    BY <1>2, <1>8
  <2>2. q = [i \in 1 .. w |-> Chunk(c.from + i - 1, c.to + i - 1, 1)]
    BY DEF BytesOf
  <2>3. ASSUME NEW i \in 1 .. w PROVE q[i] = B[k + i]
    <3>1. i - 1 \in 0 .. w - 1 /\ k + (i - 1) + 1 = k + i
      BY <1>1
    <3>2. B[k + i] = ByteOf(c, i - 1)
      BY <3>1 DEF Covers
    <3>3. c.from \in Int /\ c.to \in Int
      BY <1>1, SpaceIs
    <3>4. c.from + i - 1 = c.from + (i - 1) /\ c.to + i - 1 = c.to + (i - 1)
      BY <3>3
    <3> QED BY <2>2, <3>2, <3>4 DEF ByteOf
  <2>4. DOMAIN q = 1 .. w
    BY <2>2
  <2> HIDE DEF q
  <2>5. At(CopyBytes(t, filter, q), k + w, f, n)
    BY <1>1, <2>3, <2>4, AtBytes
  <2> QED BY <2>1, <2>5 DEF p
<1> QED BY <1>4, <1>5, <1>6, <1>7, <1>8

\* Chunks that follow each other.
Follow(q, N, o, B, k) ==
  /\ DOMAIN q = 1 .. N /\ o \in [0 .. N -> Nat] /\ o[0] = 0
  /\ \A i \in 1 .. N : o[i] = o[i - 1] + q[i].width /\ Covers(B, q[i], k + o[i - 1])

\* A sequence of chunks.
LEMMA AtChunks ==
  ASSUME NEW n \in Nat, NEW f, NEW s, NEW B, LoopOf(f, s, "All", B, n),
         NEW k \in Nat, NEW N \in Nat, NEW q, NEW o, Follow(q, N, o, B, k),
         \A i \in 0 .. N : k + o[i] <= n, NEW t, At(t, k, f, n)
  PROVE  At(CopyChunks(t, q), k + o[N], f, n)
<1>0. /\ DOMAIN q = 1 .. N /\ o \in [0 .. N -> Nat] /\ o[0] = 0
      /\ \A i \in 1 .. N : o[i] = o[i - 1] + q[i].width /\ Covers(B, q[i], k + o[i - 1])
  BY DEF Follow
<1>1. \A u \in Memories, i \in 1 .. N : CopyChunk(u, q[i]) \in Memories
  BY <1>0, CopyChunkTyped DEF Covers
<1>2. PICK g : ChunkCourse(g, t, q, N, Memories)
  <2>1. ChunkKeeps(q, N, Memories) /\ t \in Memories
    BY <1>0, <1>1 DEF ChunkKeeps, At
  <2> QED BY <2>1, ChunkSteps
<1>3. g[0] = t /\ CopyChunks(t, q) = g[N] /\ \A i \in 1 .. N : g[i] = CopyChunk(g[i - 1], q[i])
  BY <1>2 DEF ChunkCourse
<1> DEFINE T == {i \in 0 .. N : At(g[i], k + o[i], f, n)}
<1>4. 0 \in T
  <2>1. k + o[0] = k
    BY <1>0
  <2> QED BY <1>3, <2>1
<1>5. ASSUME NEW i \in 1 .. N, i - 1 \in T PROVE i \in T
  <2> DEFINE c == q[i]
             m == k + o[i - 1]
  <2>1. i \in 0 .. N /\ i - 1 \in 0 .. N
    OBVIOUS
  <2>2. /\ At(g[i - 1], m, f, n) /\ Covers(B, c, m) /\ g[i] = CopyChunk(g[i - 1], c)
        /\ o[i] = o[i - 1] + c.width
    BY <1>0, <1>3, <1>5
  <2>3. o[i - 1] \in Nat /\ k + o[i] <= n
    BY <1>0, <2>1
  <2>4. c.width \in Nat
    BY <2>2, SpaceIs DEF Covers
  <2> HIDE DEF c
  <2>5. m \in Nat /\ m + c.width = k + o[i]
    BY <2>2, <2>3, <2>4
  <2> HIDE DEF m
  <2>6. At(CopyChunk(g[i - 1], c), m + c.width, f, n)
    BY <2>2, <2>3, <2>5, AtChunk
  <2> QED BY <2>1, <2>2, <2>5, <2>6
<1>6. N \in T
  <2> HIDE DEF T
  <2>1. 0 .. N \subseteq T
    BY <1>4, <1>5, UpTo
  <2> QED BY <2>1
<1> QED BY <1>3, <1>6

\* Words that follow each other.
LEMMA CopyWordTyped ==
  ASSUME NEW t \in Memories, NEW filter, NEW c, c.from \in Address, c.to \in Address,
         c.width \in Nat
  PROVE  CopyWord(t, filter, c) \in Memories
<1> DEFINE read == readBytes(t, c.from, BytesPerWord)
           q == BytesOf(c)
<1>1. BytesPerWord \in 1 .. AddressSpace /\ BytesPerWord \in Nat /\ c.from \in Int /\ c.to \in Int
  BY SpaceIs
<1>2. read.result \in Results /\ (read.result = "ok" => read.bytes \in [1 .. BytesPerWord -> Byte])
  BY <1>1, ReadIs
<1>3. read.result = "ok" => storeBytes(t, c.to, read.bytes) \in Memories
  BY <1>1, <1>2, StoreIs
<1>4. [t EXCEPT !.result = read.result] \in Memories
  BY <1>2, MemoriesAre
<1>5. CopyBytes(t, filter, q) \in Memories
  <2> DEFINE N == c.width
  <2>1. q = [i \in 1 .. N |-> Chunk(c.from + i - 1, c.to + i - 1, 1)]
    BY DEF BytesOf
  <2>2. \A i \in 1 .. N : c.from + i - 1 \in Int /\ c.to + i - 1 \in Int
    BY <1>1
  <2>3. \A i \in 1 .. N : q[i].from \in Address /\ q[i].to \in Address
    BY <2>1, <2>2, WrapIs DEF Chunk
  <2>4. DOMAIN q = 1 .. N
    BY <2>1
  <2>0. N \in Nat
    OBVIOUS
  <2> HIDE DEF q, N
  <2>5. ByteKeeps(filter, q, N, Memories)
    BY <2>3, <2>4, CopyByteIs DEF ByteKeeps
  <2>6. PICK g : ByteCourse(g, t, filter, q, N, Memories)
    BY <2>0, <2>5, ByteSteps
  <2>7. N \in 0 .. N
    BY <2>0
  <2> QED BY <2>6, <2>7 DEF ByteCourse
<1> DEFINE p == CopyWord(t, filter, c)
           all == \A i \in 1 .. BytesPerWord : ShouldCopy(filter, read.bytes[i])
           none == \A i \in 1 .. BytesPerWord : ~ShouldCopy(filter, read.bytes[i])
<1>6. /\ t.result # "ok" => p = t
      /\ t.result = "ok" /\ read.result # "ok" => p = [t EXCEPT !.result = read.result]
      /\ t.result = "ok" /\ read.result = "ok" =>
           p = IF all THEN storeBytes(t, c.to, read.bytes)
               ELSE IF none THEN t ELSE CopyBytes(t, filter, q)
  BY CopyWordIs
<1> HIDE DEF read, q, p, all, none
<1> QED BY <1>3, <1>4, <1>5, <1>6 DEF p

\* A sequence of words.
LEMMA AtWords ==
  ASSUME NEW n \in Nat, NEW f, NEW s, NEW filter, NEW B, LoopOf(f, s, filter, B, n),
         NEW k \in Nat, NEW N \in Nat, NEW q, NEW o, Follow(q, N, o, B, k),
         \A i \in 1 .. N : q[i].width = BytesPerWord,
         \A i \in 0 .. N : k + o[i] <= n, NEW t, At(t, k, f, n)
  PROVE  At(CopyWords(t, filter, q), k + o[N], f, n)
<1>0. /\ DOMAIN q = 1 .. N /\ o \in [0 .. N -> Nat] /\ o[0] = 0
      /\ \A i \in 1 .. N : o[i] = o[i - 1] + q[i].width /\ Covers(B, q[i], k + o[i - 1])
  BY DEF Follow
<1>1. \A u \in Memories, i \in 1 .. N : CopyWord(u, filter, q[i]) \in Memories
  <2>1. \A i \in 1 .. N : q[i].from \in Address /\ q[i].to \in Address /\ q[i].width \in Nat
    BY <1>0, SpaceIs DEF Covers
  <2> QED BY <2>1, CopyWordTyped
<1>2. PICK g : WordCourse(g, t, filter, q, N, Memories)
  <2>1. WordKeeps(filter, q, N, Memories) /\ t \in Memories
    BY <1>0, <1>1 DEF WordKeeps, At
  <2> QED BY <2>1, WordSteps
<1>3. /\ g[0] = t /\ CopyWords(t, filter, q) = g[N]
      /\ \A i \in 1 .. N : g[i] = CopyWord(g[i - 1], filter, q[i])
  BY <1>2 DEF WordCourse
<1> DEFINE T == {i \in 0 .. N : At(g[i], k + o[i], f, n)}
<1>4. 0 \in T
  <2>1. k + o[0] = k
    BY <1>0
  <2> QED BY <1>3, <2>1
<1>5. ASSUME NEW i \in 1 .. N, i - 1 \in T PROVE i \in T
  <2> DEFINE c == q[i]
             m == k + o[i - 1]
  <2>1. i \in 0 .. N /\ i - 1 \in 0 .. N
    OBVIOUS
  <2>2. /\ At(g[i - 1], m, f, n) /\ Covers(B, c, m) /\ g[i] = CopyWord(g[i - 1], filter, c)
        /\ c.width = BytesPerWord /\ o[i] = o[i - 1] + BytesPerWord
    BY <1>0, <1>3, <1>5
  <2>3. o[i - 1] \in Nat /\ k + o[i] <= n
    BY <1>0, <2>1
  <2> HIDE DEF c
  <2>4. m \in Nat /\ m + BytesPerWord = k + o[i]
    BY <2>2, <2>3, SpaceIs
  <2> HIDE DEF m
  <2>5. At(CopyWord(g[i - 1], filter, c), m + BytesPerWord, f, n)
    BY <2>2, <2>3, <2>4, AtWord
  <2> QED BY <2>1, <2>2, <2>4, <2>5
<1>6. N \in T
  <2> HIDE DEF T
  <2>1. 0 .. N \subseteq T
    BY <1>4, <1>5, UpTo
  <2> QED BY <2>1
<1> QED BY <1>3, <1>6

-----------------------------------------------------------------------------
(***************************************************************************)
(* Words at aligned addresses.                                             *)
(***************************************************************************)
LEMMA AlignedSum ==
  ASSUME NEW a \in Int, NEW b \in Int, Aligned(a)
  PROVE  Aligned(a + b) <=> Aligned(b)
<1>1. ((a % BytesPerWord) + b) % BytesPerWord = (a + b) % BytesPerWord
  BY SpaceIs, RemainderOfSum
<1>2. a % BytesPerWord = 0
  BY DEF Aligned
<1>3. 0 + b = b
  OBVIOUS
<1> QED BY <1>1, <1>2, <1>3 DEF Aligned

\* A whole number of words is aligned.
LEMMA AlignedTimes ==
  ASSUME NEW j \in Int
  PROVE  Aligned(BytesPerWord * j) /\ Aligned(j * BytesPerWord) /\ BytesPerWord * j = j * BytesPerWord
<1>1. BytesPerWord \in Nat /\ BytesPerWord > 0
  BY SpaceIs
<1>2. BytesPerWord * j \in Int /\ BytesPerWord * j = 0 + (BytesPerWord * j)
      /\ BytesPerWord * j = j * BytesPerWord
  BY <1>1, SMT
<1>3. TimesKApart(BytesPerWord * j, 0, BytesPerWord, j)
  BY <1>2 DEF TimesKApart
<1>4. (BytesPerWord * j) % BytesPerWord = 0 % BytesPerWord
  BY <1>1, <1>3, SameRemainder
<1>5. 0 % BytesPerWord = 0
  BY <1>1, SMT
<1> QED BY <1>2, <1>4, <1>5 DEF Aligned

\* Words fill the address space, so wrapping around keeps the alignment.
LEMMA AlignedWrap ==
  ASSUME NEW a \in Int
  PROVE  Aligned(Wrap(a)) <=> Aligned(a)
<1> DEFINE W == BytesPerWord
           q == a \div AddressSpace
           m == AddressSpace \div W
<1>1. AddressSpace \in Nat /\ AddressSpace > 0 /\ W \in Nat /\ W > 0
  BY SpaceIs
<1>2. q \in Int /\ a = (AddressSpace * q) + Wrap(a) /\ Wrap(a) \in Int
  <2>1. (a % AddressSpace) \in 0 .. AddressSpace - 1
    BY <1>1, IntRemainder
  <2>2. q \in Int /\ a = (AddressSpace * q) + (a % AddressSpace)
    BY <1>1, IntRemainder
  <2> QED BY <2>1, <2>2 DEF Wrap
<1>3. m \in Nat /\ AddressSpace = W * m
  <2>1. m \in Nat /\ AddressSpace = (W * m) + (AddressSpace % W)
    BY <1>1, QuotientAndRemainder
  <2>2. AddressSpace % W = 0
    BY MemoryAssumption
  <2> HIDE DEF m, W
  <2>3. W * m \in Int
    BY <1>1, <2>1, SMT
  <2> QED BY <2>1, <2>2, <2>3
<1> HIDE DEF q, m, W
<1>4. AddressSpace * q = W * (m * q) /\ m * q \in Int
  BY <1>1, <1>2, <1>3, SMT
<1>5. Aligned(AddressSpace * q) /\ AddressSpace * q \in Int
  <2> DEFINE z == m * q
  <2>1. z \in Int /\ AddressSpace * q = W * z
    BY <1>4
  <2> HIDE DEF z
  <2>2. Aligned(W * z) /\ BytesPerWord * z = z * BytesPerWord
    BY <2>1, AlignedTimes DEF W
  <2>3. W * z \in Int
    BY <1>1, <2>1, SMT
  <2> QED BY <2>1, <2>2, <2>3
<1>6. Aligned((AddressSpace * q) + Wrap(a)) <=> Aligned(Wrap(a))
  BY <1>2, <1>5, AlignedSum
<1> QED BY <1>2, <1>6

\* A word at an aligned address does not wrap around.
LEMMA AlignedWord ==
  ASSUME NEW a \in Address, Aligned(a), NEW i \in 0 .. BytesPerWord - 1
  PROVE  a + i \in Address /\ Wrap(a + i) = a + i /\ (a + i) % BytesPerWord = i
<1> DEFINE W == BytesPerWord
           p == a \div W
           m == AddressSpace \div W
<1>1. /\ AddressSpace \in Nat /\ AddressSpace > 0 /\ W \in Nat /\ W > 0 /\ a \in Nat
      /\ a < AddressSpace
  BY SpaceIs
<1>2. m \in Nat /\ AddressSpace = W * m /\ p \in Nat /\ a = W * p
  <2>1. /\ m \in Nat /\ AddressSpace = (W * m) + (AddressSpace % W)
        /\ p \in Nat /\ a = (W * p) + (a % W)
    BY <1>1, QuotientAndRemainder
  <2>2. AddressSpace % W = 0 /\ a % W = 0
    BY MemoryAssumption DEF Aligned
  <2> HIDE DEF m, p, W
  <2>3. W * m \in Int /\ W * p \in Int
    BY <1>1, <2>1, SMT
  <2> QED BY <2>1, <2>2, <2>3
<1>3. (a + i) % W = i
  <2>1. a % W = 0 /\ i \in Nat /\ i < W - (a % W)
    BY <1>1 DEF Aligned
  <2>2. (a + i) % W = (a % W) + i
    BY <1>1, <2>1, RemainderGrows
  <2> QED BY <2>1, <2>2
<1> HIDE DEF m, p
<1>4. a + W <= AddressSpace
  <2>1. (W * p) + W <= W * m
    <3> HIDE DEF W
    <3> QED BY <1>1, <1>2, MultiplesApart
  <2> QED BY <1>2, <2>1
<1>5. a + i \in Address
  BY <1>1, <1>4, SpaceIs
<1>6. Wrap(a + i) = a + i
  BY <1>5, WrapIs, SpaceIs
<1> QED BY <1>3, <1>5, <1>6

\* A word whose addresses are both aligned may be copied whole.
LEMMA AlignedChunk ==
  ASSUME NEW c, c.from \in Address, c.to \in Address, Aligned(c.from), Aligned(c.to)
  PROVE  Apart(c, BytesPerWord) /\ Whole(c, BytesPerWord)
<1>1. BytesPerWord \in Nat /\ BytesPerWord > 0
  BY SpaceIs
<1>2. ASSUME NEW i \in 0 .. BytesPerWord - 1, NEW j \in 0 .. BytesPerWord - 1, j < i
      PROVE  Wrap(c.from + i) # Wrap(c.to + j)
  <2>1. Wrap(c.from + i) % BytesPerWord = i /\ Wrap(c.to + j) % BytesPerWord = j
    BY AlignedWord
  <2> QED BY <1>2, <2>1
<1>3. ASSUME NEW i \in 0 .. BytesPerWord - 1
      PROVE  Wrap(c.to + i) \in Intercepted <=> c.to \in Intercepted
  <2> DEFINE a == c.to + i
  <2>1. a \in Address /\ Wrap(a) = a /\ a % BytesPerWord = i
    BY AlignedWord
  <2>2. a - i = c.to
    BY SpaceIs
  <2> HIDE DEF a
  <2>3. a \in Intercepted <=> a - (a % BytesPerWord) \in Intercepted
    BY <2>1, MovesAssumption
  <2> QED BY <2>1, <2>2, <2>3 DEF a
<1> QED BY <1>2, <1>3 DEF Apart, Whole

(***************************************************************************)
(* Ranges of the bytes of a move.                                          *)
(***************************************************************************)
RangeAt(B, k, source, destination, w) ==
  \A i \in 0 .. w - 1 : B[k + i + 1] = Chunk(source + i, destination + i, 1)

\* A chunk of a range.
LEMMA ChunkOfRange ==
  ASSUME NEW source \in Int, NEW destination \in Int, NEW k \in Nat, NEW w \in Nat, NEW B,
         RangeAt(B, k, source, destination, w), NEW o \in Nat, NEW m \in 1 .. AddressSpace,
         o + m <= w,
         NEW c, c = Chunk(source + o, destination + o, m), Apart(c, m), Whole(c, m)
  PROVE  Covers(B, c, k + o) /\ c.width = m
<1>1. c.from = Wrap(source + o) /\ c.to = Wrap(destination + o) /\ c.width = m
  BY DEF Chunk
<1>2. c.from \in Address /\ c.to \in Address
  BY <1>1, WrapIs
<1>3. ASSUME NEW i \in 0 .. m - 1 PROVE B[(k + o) + i + 1] = ByteOf(c, i)
  <2>1. m \in Nat /\ o + i \in 0 .. w - 1 /\ (k + o) + i + 1 = k + (o + i) + 1
        /\ source + (o + i) = (source + o) + i /\ destination + (o + i) = (destination + o) + i
    BY SpaceIs
  <2>2. B[k + (o + i) + 1] = Chunk(source + (o + i), destination + (o + i), 1)
    BY <2>1 DEF RangeAt
  <2>3. source + o \in Int /\ destination + o \in Int /\ i \in Int
    OBVIOUS
  <2>4. /\ Wrap(Wrap(source + o) + i) = Wrap((source + o) + i)
        /\ Wrap(Wrap(destination + o) + i) = Wrap((destination + o) + i)
    BY <2>3, WrapOfSum
  <2>5. ByteOf(c, i) = Chunk((source + o) + i, (destination + o) + i, 1)
    BY <1>1, <2>4 DEF ByteOf, Chunk
  <2> QED BY <2>1, <2>2, <2>5
<1> QED BY <1>1, <1>2, <1>3 DEF Covers

\* One byte is never in its own way.
LEMMA OneByteChunk ==
  ASSUME NEW c, c.to \in Address
  PROVE  Apart(c, 1) /\ Whole(c, 1)
<1>1. \A i \in 0 .. 1 - 1 : i = 0
  OBVIOUS
<1>2. c.to + 0 = c.to /\ Wrap(c.to) = c.to
  BY WrapIs, SpaceIs
<1>3. \A i \in 0 .. 1 - 1, j \in 0 .. 1 - 1 : ~(j < i)
  BY <1>1
<1> QED BY <1>1, <1>2, <1>3 DEF Apart, Whole

(***************************************************************************)
(* storeByteRange.                                                         *)
(***************************************************************************)
LEMMA RangeChunkIs ==
  ASSUME NEW source \in Int, NEW destination \in Int, NEW k \in Nat, NEW w \in Nat, NEW B,
         RangeAt(B, k, source, destination, w), NEW o \in 0 .. w, o # w
  PROVE  LET c == RangeChunk(source, destination, w, o)
         IN  /\ Covers(B, c, k + o) /\ c.width \in Nat /\ c.width >= 1 /\ o + c.width <= w
<1> DEFINE c == RangeChunk(source, destination, w, o)
           word == /\ w - o >= BytesPerWord
                   /\ Aligned(Wrap(source + o)) /\ Aligned(Wrap(destination + o))
           m == IF word THEN BytesPerWord ELSE 1
<1>1. c = Chunk(source + o, destination + o, m)
  BY DEF RangeChunk
<1>2. c.from = Wrap(source + o) /\ c.to = Wrap(destination + o) /\ c.width = m
  BY <1>1 DEF Chunk
<1>3. c.from \in Address /\ c.to \in Address /\ o \in Nat
  BY <1>2, WrapIs
<1> HIDE DEF c
<1>4. Apart(c, m) /\ Whole(c, m) /\ m \in 1 .. AddressSpace /\ o + m <= w
  <2>1. CASE word
    <3>1. m = BytesPerWord /\ w - o >= BytesPerWord
      BY <2>1
    <3>2. Aligned(c.from) /\ Aligned(c.to)
      BY <1>2, <2>1
    <3> HIDE DEF m, word
    <3>3. Apart(c, m) /\ Whole(c, m)
      BY <1>3, <3>1, <3>2, AlignedChunk
    <3> QED BY <3>1, <3>3, SpaceIs
  <2>2. CASE ~word
    <3>1. m = 1
      BY <2>2
    <3> HIDE DEF m, word
    <3>2. Apart(c, m) /\ Whole(c, m)
      BY <1>3, <3>1, OneByteChunk
    <3> QED BY <3>1, <3>2, SpaceIs
  <2> QED BY <2>1, <2>2
<1> HIDE DEF m
<1>5. Covers(B, c, k + o) /\ c.width = m
  BY <1>1, <1>3, <1>4, ChunkOfRange
<1>6. m \in Nat /\ m >= 1
  BY <1>4, SpaceIs
<1> QED BY <1>4, <1>5, <1>6 DEF c

\* The loop of storeByteRange, which ends with all the bytes behind it.
LEMMA AtRange ==
  ASSUME NEW n \in Nat, NEW f, NEW s, NEW B, LoopOf(f, s, "All", B, n),
         NEW source \in Int, NEW destination \in Int, NEW k \in Nat, NEW w \in Nat, k + w <= n,
         RangeAt(B, k, source, destination, w), NEW t, At(t, k, f, n)
  PROVE  At(storeByteRange(t, source, destination, w), k + w, f, n)
<1> DEFINE base == [memory |-> t, offset |-> 0]
           V == [memory : Memories, offset : 0 .. w]
           Turn(last) == LET c == RangeChunk(source, destination, w, last.offset)
                         IN  IF last.offset = w THEN last
                             ELSE [memory |-> CopyChunk(last.memory, c),
                                   offset |-> last.offset + c.width]
           Is(h) == h = [i \in 0 .. w |-> IF i = 0 THEN base ELSE Turn(h[i - 1])]
           it == CHOOSE h : Is(h)
           G == [i \in 1 .. w |-> [last \in V |-> Turn(last)]]
<1>1. storeByteRange(t, source, destination, w) = it[w].memory
  BY Zenon DEF storeByteRange
<1>2. base \in V
  BY DEF At
<1>3. ASSUME NEW last \in V PROVE Turn(last) \in V
  <2> DEFINE c == RangeChunk(source, destination, w, last.offset)
  <2>1. last.offset \in 0 .. w /\ last.memory \in Memories
    OBVIOUS
  <2>2. CASE last.offset = w
    BY <2>2
  <2>3. CASE last.offset # w
    <3>1. /\ Covers(B, c, k + last.offset) /\ c.width \in Nat /\ last.offset + c.width <= w
      BY <2>1, <2>3, RangeChunkIs
    <3>2. Turn(last) = [memory |-> CopyChunk(last.memory, c), offset |-> last.offset + c.width]
      BY <2>3
    <3> HIDE DEF c, Turn
    <3>3. CopyChunk(last.memory, c) \in Memories
      BY <2>1, <3>1, CopyChunkTyped DEF Covers
    <3>4. last.offset + c.width \in 0 .. w
      BY <2>1, <3>1
    <3> QED BY <3>2, <3>3, <3>4
  <2> QED BY <2>2, <2>3
<1> HIDE DEF base, V, Turn
<1>4. G \in [1 .. w -> [V -> V]]
  BY <1>3
<1>5. \A i \in 1 .. w, last \in V : G[i][last] = Turn(last)
  OBVIOUS
<1> HIDE DEF G
<1>6. \E h : Is(h)
  <2> HIDE DEF it
  <2>1. PICK h \in [0 .. w -> V] : StepsFrom(h, base, G, w)
    <3> HIDE DEF Is
    <3> QED BY <1>2, <1>4, StepByStep
  <2>2. \A i \in 0 .. w : h[i] = IF i = 0 THEN base ELSE Turn(h[i - 1])
    <3>1. \A i \in 0 .. w : i # 0 => i \in 1 .. w /\ i - 1 \in 0 .. w
      OBVIOUS
    <3>2. \A i \in 0 .. w : i # 0 => h[i - 1] \in V
      BY <3>1
    <3> QED BY <1>5, <2>1, <3>1, <3>2 DEF StepsFrom
  <2>3. h = [i \in 0 .. w |-> h[i]]
    OBVIOUS
  <2>4. Is(h)
    BY <2>2, <2>3
  <2> HIDE DEF Is
  <2> QED BY <2>4
<1>7. Is(it)
  <2> HIDE DEF Is
  <2> QED BY <1>6
<1> HIDE DEF it
<1>8. \A i \in 0 .. w : it[i] = IF i = 0 THEN base ELSE Turn(it[i - 1])
  BY <1>7
<1> HIDE DEF Is
<1> DEFINE Holding(i) == /\ it[i].offset \in i .. w
                         /\ At(it[i].memory, k + it[i].offset, f, n)
           T == {i \in 0 .. w : Holding(i)}
<1>9. 0 \in T
  <2>1. it[0] = base
    BY <1>8
  <2>2. k + 0 = k /\ base.offset = 0 /\ base.memory = t
    BY DEF base
  <2> QED BY <2>1, <2>2
<1>10. ASSUME NEW i \in 1 .. w, i - 1 \in T PROVE i \in T
  <2> DEFINE last == it[i - 1]
             o == last.offset
             c == RangeChunk(source, destination, w, o)
  <2>1. it[i] = Turn(last) /\ i \in 0 .. w
    BY <1>8
  <2>2. o \in (i - 1) .. w /\ At(last.memory, k + o, f, n)
    BY <1>10
  <2>3. Turn(last) = IF o = w THEN last
                     ELSE [memory |-> CopyChunk(last.memory, c), offset |-> o + c.width]
    BY DEF Turn
  <2> HIDE DEF last, o, c
  <2>4. CASE o = w
    <3>1. it[i].offset = o /\ it[i].memory = last.memory
      BY <2>1, <2>3, <2>4 DEF o
    <3>2. o \in i .. w
      BY <2>4
    <3> QED BY <2>1, <2>2, <3>1, <3>2
  <2>5. CASE o # w
    <3>1. it[i].offset = o + c.width /\ it[i].memory = CopyChunk(last.memory, c)
      BY <2>1, <2>3, <2>5
    <3>2. o \in 0 .. w /\ o \in Nat
      BY <2>2
    <3>3. Covers(B, c, k + o) /\ c.width \in Nat /\ c.width >= 1 /\ o + c.width <= w
      BY <2>5, <3>2, RangeChunkIs DEF c
    <3>4. o + c.width \in i .. w /\ (k + o) + c.width = k + (o + c.width)
          /\ (k + o) + c.width <= n /\ k + o \in Nat
      BY <2>2, <3>2, <3>3
    <3>5. At(CopyChunk(last.memory, c), (k + o) + c.width, f, n)
      BY <2>2, <3>3, <3>4, AtChunk
    <3> QED BY <2>1, <3>1, <3>4, <3>5
  <2> QED BY <2>4, <2>5
<1>11. w \in T
  <2> HIDE DEF T
  <2>1. 0 .. w \subseteq T
    BY <1>9, <1>10, UpTo
  <2> QED BY <2>1
<1>12. it[w].offset = w /\ At(it[w].memory, k + w, f, n)
  <2>1. Holding(w)
    BY <1>11
  <2> QED BY <2>1
<1> QED BY <1>1, <1>12

(***************************************************************************)
(* A row by words.                                                         *)
(***************************************************************************)
LEMMA PrefixIs ==
  ASSUME NEW a \in Address
  PROVE  Prefix(a) \in Nat /\ Aligned(a + Prefix(a))
<1> DEFINE M == MoveAlign
           W == BytesPerWord
           r == a % M
           x == (W + M) - r
           p == x % M
<1>1. M \in Nat /\ M > 0 /\ W \in Nat /\ W > 0 /\ a \in Int
  BY MemoryAssumption, SpaceIs
<1>2. r \in 0 .. M - 1 /\ a % M = r
  BY <1>1, IntRemainder
<1>3. x \in Int /\ Prefix(a) = p
  BY <1>1, <1>2 DEF Prefix
<1>4. p \in 0 .. M - 1 /\ (x \div M) \in Int /\ x = (M * (x \div M)) + p
  <2> HIDE DEF x, M
  <2> QED BY <1>1, <1>3, IntRemainder
<1>5. (a \div M) \in Int /\ a = (M * (a \div M)) + r
  BY <1>1, IntRemainder
<1> DEFINE u == a \div M
           v == x \div M
           z == (u + 1) - v
<1>6. x = (W + M) - r
  OBVIOUS
<1> HIDE DEF r, p, x
<1>7. a + p = W + (M * z) /\ z \in Int
  <2>1. M * z = ((M * u) + M) - (M * v)
    <3>1. u \in Int /\ v \in Int
      BY <1>4, <1>5
    <3> HIDE DEF u, v
    <3> QED BY <1>1, <3>1, SMT
  <2>2. u \in Int /\ v \in Int
    BY <1>4, <1>5
  <2>3. M * u \in Int /\ M * v \in Int
    <3> HIDE DEF u, v
    <3> QED BY <1>1, <2>2
  <2> DEFINE mu == M * u
             mv == M * v
             mz == M * z
  <2>4. a = mu + r /\ x = mv + p /\ mz = (mu + M) - mv /\ mu \in Int /\ mv \in Int
    BY <1>4, <1>5, <2>1, <2>3
  <2>5. z \in Int
    BY <2>2
  <2> HIDE DEF mu, mv, mz, M, W, z, u, v
  <2>6. a + p = W + mz
    BY <1>1, <1>2, <1>4, <1>6, <2>4
  <2> QED BY <2>5, <2>6 DEF mz
<1>8. PICK m \in Nat : M = W * m
  <2>1. /\ (M \div W) \in Nat /\ M = (W * (M \div W)) + (M % W)
    BY <1>1, QuotientAndRemainder
  <2>2. M % W = 0
    BY MemoryAssumption
  <2> DEFINE m == M \div W
  <2> HIDE DEF m
  <2>3. m \in Nat /\ M = (W * m) + 0
    BY <2>1, <2>2 DEF m
  <2>4. W * m \in Int
    BY <1>1, <2>3, SMT
  <2> HIDE DEF M, W
  <2> QED BY <2>3, <2>4
<1>9. Aligned(a + p)
  <2> HIDE DEF z, M
  <2> DEFINE y == 1 + (m * z)
  <2>1. W + (M * z) = W * y /\ y \in Int
    <3> HIDE DEF W
    <3> QED BY <1>1, <1>7, <1>8, SMT
  <2> HIDE DEF y
  <2>2. Aligned(W * y)
    BY <2>1, AlignedTimes
  <2> QED BY <1>7, <2>1, <2>2
<1>10. p \in Nat
  BY <1>4, <1>1
<1> QED BY <1>3, <1>9, <1>10

\* Bytes of a range, from the first-th.
BytesAt(source, destination, first, last) ==
  [i \in 1 .. last - first |-> Chunk(source + first + i - 1, destination + first + i - 1, 1)]

\* The bytes of a range between two offsets.
LEMMA AtRun ==
  ASSUME NEW n \in Nat, NEW f, NEW s, NEW filter, NEW B, LoopOf(f, s, filter, B, n),
         NEW source \in Int, NEW destination \in Int, NEW k \in Nat, NEW w \in Nat, k + w <= n,
         RangeAt(B, k, source, destination, w),
         NEW first \in Nat, NEW last \in first .. w, NEW t, At(t, k + first, f, n)
  PROVE  At(CopyBytes(t, filter, BytesAt(source, destination, first, last)), k + last, f, n)
<1> DEFINE N == last - first
           q == BytesAt(source, destination, first, last)
<1>1. /\ last \in Nat /\ N \in Nat /\ DOMAIN q = 1 .. N /\ k + first \in Nat
      /\ (k + first) + N = k + last /\ (k + first) + N <= n
  BY DEF BytesAt
<1>2. ASSUME NEW i \in 1 .. N PROVE q[i] = B[(k + first) + i]
  <2> DEFINE j == first + i - 1
  <2>1. /\ j \in 0 .. w - 1 /\ k + j + 1 = (k + first) + i
        /\ source + j = source + first + i - 1 /\ destination + j = destination + first + i - 1
    OBVIOUS
  <2>3. q[i] = Chunk(source + first + i - 1, destination + first + i - 1, 1)
    BY DEF BytesAt
  <2>2. B[k + j + 1] = Chunk(source + j, destination + j, 1)
    <3> HIDE DEF j
    <3> QED BY <2>1 DEF RangeAt
  <2> HIDE DEF q
  <2> QED BY <2>1, <2>2, <2>3
<1> HIDE DEF N, q
<1>3. At(CopyBytes(t, filter, q), (k + first) + N, f, n)
  BY <1>1, <1>2, AtBytes
<1> QED BY <1>1, <1>3 DEF q

\* Words of a range that start where they are aligned.
WordsAt(source, destination, first, words) ==
  [i \in 1 .. words |-> LET o == first + (i - 1) * BytesPerWord
                        IN  Chunk(source + o, destination + o, BytesPerWord)]

WordsFit(source, destination, first, words, w) ==
  /\ first + words * BytesPerWord <= w
  /\ words > 0 => Aligned(source + first) /\ Aligned(destination + first)

\* Words of a range from an offset at which both addresses are aligned.
LEMMA AtWordRun ==
  ASSUME NEW n \in Nat, NEW f, NEW s, NEW filter, NEW B, LoopOf(f, s, filter, B, n),
         NEW source \in Int, NEW destination \in Int, NEW k \in Nat, NEW w \in Nat, k + w <= n,
         RangeAt(B, k, source, destination, w),
         NEW first \in Nat, NEW words \in Nat, WordsFit(source, destination, first, words, w),
         NEW t, At(t, k + first, f, n)
  PROVE  At(CopyWords(t, filter, WordsAt(source, destination, first, words)),
            k + (first + words * BytesPerWord), f, n)
<1> DEFINE W == BytesPerWord
           o == [i \in 0 .. words |-> i * W]
           m == k + first
           q == WordsAt(source, destination, first, words)
<1>1. /\ W \in Nat /\ W > 0 /\ W \in 1 .. AddressSpace /\ m \in Nat /\ DOMAIN q = 1 .. words
      /\ words \in 0 .. words
  BY SpaceIs DEF WordsAt
<1> DEFINE Times(i) == i * W
<1>2. \A i \in 0 .. words : Times(i) \in Nat /\ Times(i) <= Times(words)
  <2> HIDE DEF W
  <2>1. ASSUME NEW i \in 0 .. words PROVE i * W \in Nat /\ i * W <= words * W
    BY <1>1, <2>1, SMT
  <2> QED BY <2>1
<1>3. \A i \in 1 .. words : Times(i) = Times(i - 1) + W /\ i - 1 \in 0 .. words /\ i \in 0 .. words
  <2> HIDE DEF W
  <2>1. ASSUME NEW i \in 1 .. words PROVE i * W = ((i - 1) * W) + W
    BY <1>1, <2>1, SMT
  <2> QED BY <2>1
<1>4. Times(0) = 0
  BY <1>1
<1>5. o = [i \in 0 .. words |-> Times(i)] /\ first + Times(words) <= w
  BY DEF WordsFit
<1>6. \A i \in 0 .. words : Aligned(Times(i))
  BY AlignedTimes
<1>7. \A i \in 1 .. words : q[i] = Chunk(source + (first + Times(i - 1)),
                                        destination + (first + Times(i - 1)), W)
  BY DEF WordsAt
<1> HIDE DEF Times, W, o, m, q
<1>8. o \in [0 .. words -> Nat] /\ o[0] = 0
  BY <1>2, <1>4, <1>5
<1>9. ASSUME NEW i \in 1 .. words
      PROVE  o[i] = o[i - 1] + q[i].width /\ Covers(B, q[i], m + o[i - 1]) /\ q[i].width = W
  <2> DEFINE x == first + Times(i - 1)
             c == q[i]
  <2>1. /\ Times(i - 1) \in Nat /\ Times(i) = Times(i - 1) + W /\ Times(i) <= Times(words)
        /\ i - 1 \in 0 .. words
    BY <1>2, <1>3
  <2>0. Times(words) \in Nat
    BY <1>1, <1>2
  <2>2. x \in Nat /\ x + W <= w /\ source + x \in Int /\ destination + x \in Int
    <3>1. first + Times(words) <= w
      BY <1>5
    <3> DEFINE a == Times(i - 1)
               b == Times(words)
               e == Times(i)
    <3>2. a \in Nat /\ e = a + W /\ e <= b /\ b \in Nat /\ first + b <= w /\ W \in Nat
      BY <1>1, <2>0, <2>1, <3>1
    <3> HIDE DEF a, b, e
    <3>3. first + a \in Nat /\ (first + a) + W <= w
      BY <3>2
    <3>4. x = first + a
      BY DEF a
    <3> QED BY <3>3, <3>4
  <2>3. c = Chunk(source + x, destination + x, W)
    BY <1>7
  <2>4. c.from = Wrap(source + x) /\ c.to = Wrap(destination + x) /\ c.width = W
    BY <2>3 DEF Chunk
  <2>5. c.from \in Address /\ c.to \in Address
    BY <2>2, <2>4, WrapIs
  <2>6. Aligned(source + x) /\ Aligned(destination + x)
    <3>1. Aligned(Times(i - 1)) /\ Aligned(source + first) /\ Aligned(destination + first)
      BY <1>6, <2>1 DEF WordsFit
    <3>2. source + x = (source + first) + Times(i - 1)
          /\ destination + x = (destination + first) + Times(i - 1)
          /\ source + first \in Int /\ destination + first \in Int /\ Times(i - 1) \in Int
      BY <2>1
    <3> DEFINE a == source + first
               b == destination + first
               e == Times(i - 1)
    <3>3. a \in Int /\ b \in Int /\ e \in Int /\ Aligned(a) /\ Aligned(b) /\ Aligned(e)
      BY <3>1, <3>2
    <3>4. source + x = a + e /\ destination + x = b + e
      BY <3>2
    <3> HIDE DEF a, b, e, x
    <3>5. Aligned(a + e) /\ Aligned(b + e)
      BY <3>3, AlignedSum
    <3> QED BY <3>4, <3>5
  <2>7. Aligned(c.from) /\ Aligned(c.to)
    BY <2>2, <2>4, <2>6, AlignedWrap
  <2> HIDE DEF c, x
  <2>8. Apart(c, W) /\ Whole(c, W)
    BY <2>5, <2>7, AlignedChunk DEF W
  <2>9. Covers(B, c, k + x) /\ c.width = W
    <3>1. W \in 1 .. AddressSpace
      BY <1>1
    <3>2. x \in Nat /\ x + W <= w
      BY <2>2
    <3> QED BY <2>3, <2>8, <3>1, <3>2, ChunkOfRange
  <2>10. m + o[i - 1] = k + x /\ o[i] = o[i - 1] + W
    BY <1>5, <2>1 DEF m, x
  <2> QED BY <2>9, <2>10 DEF c
<1>10. Follow(q, words, o, B, m)
  BY <1>1, <1>8, <1>9 DEF Follow
<1>11. \A i \in 0 .. words : m + o[i] <= n
  <2>1. \A i \in 0 .. words : Times(i) \in Nat /\ first + Times(i) <= w
    BY <1>1, <1>2, <1>5
  <2> QED BY <1>5, <2>1 DEF m
<1>12. At(t, m, f, n) /\ \A i \in 1 .. words : q[i].width = BytesPerWord
  BY <1>9 DEF m, W
<1>13. At(CopyWords(t, filter, q), m + o[words], f, n)
  BY <1>1, <1>10, <1>11, <1>12, AtWords
<1>14. m + o[words] = k + (first + words * BytesPerWord)
  <2>1. o[words] = words * BytesPerWord /\ Times(words) \in Nat
    BY <1>1, <1>2, <1>5 DEF Times, W
  <2>2. o[words] \in Nat
    BY <1>1, <1>8
  <2> DEFINE y == words * BytesPerWord
  <2> HIDE DEF y
  <2>3. o[words] = y
    BY <2>1 DEF y
  <2>4. m + o[words] = k + (first + y)
    BY <2>2, <2>3 DEF m
  <2> QED BY <2>4 DEF y
<1> QED BY <1>13, <1>14 DEF q

\* A row: bytes up to where words are aligned, words, and the bytes left.
LEMMA AtRow ==
  ASSUME NEW n \in Nat, NEW f, NEW s, NEW filter, NEW B, LoopOf(f, s, filter, B, n),
         NEW source \in Address, NEW destination \in Address, NEW k \in Nat, NEW width \in Nat,
         k + width <= n, RangeAt(B, k, source, destination, width), NEW t, At(t, k, f, n)
  PROVE  At(FilterRow(t, filter, source, destination, width), k + width, f, n)
<1> DEFINE alike == Prefix(source) = Prefix(destination)
           prefix == IF width < Prefix(source) THEN width ELSE Prefix(source)
           words == IF alike THEN (width - prefix) \div BytesPerWord ELSE 0
           body == IF alike THEN prefix ELSE 0
           tail == body + words * BytesPerWord
           ByteRun(first, last) == [i \in 1 .. last - first |->
                                      Chunk(source + first + i - 1, destination + first + i - 1, 1)]
           WordRun == [i \in 1 .. words |-> LET o == body + (i - 1) * BytesPerWord
                                            IN  Chunk(source + o, destination + o, BytesPerWord)]
           head == CopyBytes(t, filter, ByteRun(0, body))
           middle == CopyWords(head, filter, WordRun)
<1>1. FilterRow(t, filter, source, destination, width) =
        CopyBytes(middle, filter, ByteRun(tail, width))
  BY Zenon DEF FilterRow
<1>2. source \in Int /\ destination \in Int /\ BytesPerWord \in Nat /\ BytesPerWord > 0
  BY SpaceIs
<1>3. /\ Prefix(source) \in Nat /\ Aligned(source + Prefix(source))
      /\ Prefix(destination) \in Nat /\ Aligned(destination + Prefix(destination))
  BY PrefixIs
<1>4. prefix \in Nat /\ prefix <= width /\ body \in Nat /\ body <= prefix /\ width - prefix \in Nat
  BY <1>3
<1>5. /\ words \in Nat /\ tail \in body .. width /\ tail = body + words * BytesPerWord
      /\ WordsFit(source, destination, body, words, width)
  <2>1. CASE alike
    <3> DEFINE d == width - prefix
               y == words * BytesPerWord
    <3>1. words = d \div BytesPerWord /\ body = prefix /\ d \in Nat
      BY <1>4, <2>1
    <3>2. tail = body + y
      OBVIOUS
    <3> HIDE DEF words, body, alike, tail
    <3>3. words \in Nat /\ (d % BytesPerWord) \in Nat
          /\ d = (BytesPerWord * words) + (d % BytesPerWord)
      <4> HIDE DEF d
      <4> QED BY <1>2, <3>1, QuotientAndRemainder
    <3>4. y = BytesPerWord * words /\ y \in Nat
      BY <1>2, <3>3, SMT
    <3> HIDE DEF y
    <3>5. y <= d
      <4> HIDE DEF d
      <4> QED BY <3>1, <3>3, <3>4
    <3>6. body + y <= width
      <4> HIDE DEF prefix
      <4> QED BY <1>4, <3>1, <3>4, <3>5
    <3>7. words > 0 => prefix = Prefix(source)
      <4>1. CASE width < Prefix(source)
        <5>1. prefix = width
          BY <4>1
        <5>2. d = 0
          <6> HIDE DEF prefix
          <6> QED BY <1>4, <5>1
        <5>3. 0 \div BytesPerWord = 0
          BY <1>2, SMT
        <5>4. words = 0
          <6> HIDE DEF d
          <6> QED BY <3>1, <5>2, <5>3
        <5> QED BY <5>4
      <4>2. CASE ~(width < Prefix(source))
        BY <4>2
      <4> QED BY <4>1, <4>2
    <3> HIDE DEF prefix, d
    <3>8. words > 0 => Aligned(source + body) /\ Aligned(destination + body)
      BY <1>3, <2>1, <3>1, <3>7 DEF alike
    <3>9. tail \in body .. width
      BY <1>4, <3>1, <3>2, <3>4, <3>6
    <3> QED BY <3>2, <3>3, <3>6, <3>8, <3>9 DEF WordsFit, y
  <2>2. CASE ~alike
    <3>1. words = 0 /\ body = 0
      BY <2>2
    <3> HIDE DEF words, body, alike, prefix
    <3>2. words * BytesPerWord = 0
      BY <1>2, <3>1
    <3>3. tail = 0 /\ tail \in body .. width
      BY <3>1, <3>2
    <3> HIDE DEF tail
    <3> QED BY <3>1, <3>2, <3>3 DEF WordsFit
  <2> QED BY <2>1, <2>2
<1>6. WordRun = WordsAt(source, destination, body, words)
  BY Zenon DEF WordsAt
<1> HIDE DEF alike, prefix, words
<1>7. k + 0 = k /\ 0 \in Nat /\ body \in 0 .. width
  BY <1>4, <1>5
<1>8. At(head, k + body, f, n)
  <2> DEFINE q == ByteRun(0, body)
  <2>1. q = BytesAt(source, destination, 0, body)
    BY Zenon DEF BytesAt
  <2>2. At(t, k + 0, f, n)
    BY <1>7
  <2> HIDE DEF body, tail, q, ByteRun
  <2>3. At(CopyBytes(t, filter, q), k + body, f, n)
    BY <1>2, <1>7, <2>1, <2>2, AtRun
  <2> QED BY <2>3 DEF q
<1> HIDE DEF head
<1>9. At(middle, k + tail, f, n)
  <2> DEFINE size == body + words * BytesPerWord
  <2>0. tail = size
    BY <1>5
  <2> HIDE DEF body, tail, WordRun
  <2>1. At(CopyWords(head, filter, WordsAt(source, destination, body, words)), k + size, f, n)
    BY <1>2, <1>4, <1>5, <1>8, AtWordRun
  <2> QED BY <1>6, <2>0, <2>1
<1>10. At(CopyBytes(middle, filter, ByteRun(tail, width)), k + width, f, n)
  <2> DEFINE q == ByteRun(tail, width)
  <2> HIDE DEF tail, middle
  <2>1. q = BytesAt(source, destination, tail, width)
    BY Zenon DEF BytesAt
  <2>2. tail \in Nat /\ width \in tail .. width
    BY <1>4, <1>5
  <2> HIDE DEF q, body, ByteRun
  <2>3. At(CopyBytes(middle, filter, q), k + width, f, n)
    BY <1>2, <1>9, <2>1, <2>2, AtRun
  <2> QED BY <2>3 DEF q
<1> QED BY <1>1, <1>10

(***************************************************************************)
(* copyDeviceBytes.                                                        *)
(***************************************************************************)
\* The registers an interceptor takes are taken by whole words of the move.
TakenWhole(destination, w) ==
  \A i \in 0 .. w - 1 :
    destination + i \in Intercepted <=> destination + i - (i % BytesPerWord) \in Intercepted

\* Ranges that do not wrap around and have no byte in common.
KeepApart(source, destination, w) ==
  \A i, j \in 0 .. w - 1 :
    source + i \in Address /\ destination + j \in Address /\ source + i # destination + j

\* A range that is valid keeps apart from the other and does not wrap around.
LEMMA ValidIs ==
  ASSUME NEW source \in Address, NEW destination \in Address, NEW w \in Nat
  PROVE  /\ validateDeviceMoveRange(source, destination, w) \in Results
         /\ validateDeviceMoveRange(source, destination, w) = "ok" =>
              KeepApart(source, destination, w)
<1> DEFINE closed == \E i \in 0 .. w - 1 : {source + i, destination + i} \intersect Peripherals # {}
           meet == source < destination + w /\ destination < source + w
           inside == source + w <= AddressSpace /\ destination + w <= AddressSpace
<1>1. /\ source \in Nat /\ destination \in Nat /\ AddressSpace \in Nat
  BY SpaceIs
<1>2. validateDeviceMoveRange(source, destination, w) =
        IF w = 0 THEN "ok" ELSE IF ~inside THEN "INVALID_DEVICE_MOVE_RANGE"
        ELSE IF closed THEN "DEVICE_MOVE_PERIPHERAL_UNSUPPORTED"
        ELSE IF meet THEN "INVALID_DEVICE_MOVE_RANGE" ELSE "ok"
  <2>1. (source + w > AddressSpace \/ destination + w > AddressSpace) <=> ~inside
    BY <1>1
  <2>2. validateDeviceMoveRange(source, destination, w) =
          CASE w = 0 -> "ok"
            [] w # 0 /\ (source + w > AddressSpace \/ destination + w > AddressSpace) ->
                 "INVALID_DEVICE_MOVE_RANGE"
            [] w # 0 /\ source + w <= AddressSpace /\ destination + w <= AddressSpace ->
                 IF closed THEN "DEVICE_MOVE_PERIPHERAL_UNSUPPORTED"
                 ELSE IF meet THEN "INVALID_DEVICE_MOVE_RANGE" ELSE "ok"
    BY Zenon DEF validateDeviceMoveRange
  <2> DEFINE outside == source + w > AddressSpace \/ destination + w > AddressSpace
  <2>3. outside <=> ~inside
    BY <2>1
  <2>4. validateDeviceMoveRange(source, destination, w) =
          CASE w = 0 -> "ok"
            [] w # 0 /\ outside -> "INVALID_DEVICE_MOVE_RANGE"
            [] w # 0 /\ inside ->
                 IF closed THEN "DEVICE_MOVE_PERIPHERAL_UNSUPPORTED"
                 ELSE IF meet THEN "INVALID_DEVICE_MOVE_RANGE" ELSE "ok"
    BY <2>2
  <2> HIDE DEF closed, meet, inside, outside
  <2> QED BY <2>3, <2>4
<1>3. w # 0 /\ inside /\ ~meet => KeepApart(source, destination, w)
  <2>1. ASSUME w # 0, inside, ~meet, NEW i \in 0 .. w - 1, NEW j \in 0 .. w - 1
        PROVE  /\ source + i \in 0 .. AddressSpace - 1 /\ destination + j \in 0 .. AddressSpace - 1
               /\ source + i # destination + j
    BY <1>1, <2>1
  <2> QED BY <2>1, SpaceIs DEF KeepApart
<1>4. w = 0 => KeepApart(source, destination, w)
  BY DEF KeepApart
<1> HIDE DEF closed, meet, inside
<1> QED BY <1>2, <1>3, <1>4 DEF Results

\* A part of a word, at most, of such ranges.
LEMMA DeviceChunk ==
  ASSUME NEW source \in Address, NEW destination \in Address, NEW w \in Nat,
         KeepApart(source, destination, w), TakenWhole(destination, w),
         NEW o \in Nat, Aligned(o), NEW m \in 1 .. BytesPerWord, o + m <= w,
         NEW c, c = Chunk(source + o, destination + o, m)
  PROVE  Apart(c, m) /\ Whole(c, m)
<1>1. /\ source \in Nat /\ destination \in Nat /\ m \in Nat /\ m <= BytesPerWord
      /\ BytesPerWord \in Nat /\ BytesPerWord > 0
  BY SpaceIs
<1>2. /\ c.from = Wrap(source + o) /\ c.to = Wrap(destination + o)
  BY DEF Chunk
<1>3. ASSUME NEW i \in 0 .. m - 1
      PROVE  /\ o + i \in 0 .. w - 1 /\ Wrap(c.from + i) = source + (o + i)
             /\ Wrap(c.to + i) = destination + (o + i)
  <2>1. o + i \in 0 .. w - 1 /\ o \in 0 .. w - 1 /\ i \in Int
    BY <1>1
  <2>2. /\ source + (o + i) \in Address /\ destination + (o + i) \in Address
        /\ source + o \in Address /\ destination + o \in Address
    BY <2>1 DEF KeepApart
  <2>3. c.from = source + o /\ c.to = destination + o
    BY <1>2, <2>2, WrapIs, SpaceIs
  <2>4. (source + o) + i = source + (o + i) /\ (destination + o) + i = destination + (o + i)
    BY <1>1, <2>1
  <2>5. Wrap(source + (o + i)) = source + (o + i) /\ Wrap(destination + (o + i)) = destination + (o + i)
    BY <2>2, WrapIs, SpaceIs
  <2> QED BY <2>1, <2>3, <2>4, <2>5
<1>4. Apart(c, m)
  <2>1. ASSUME NEW i \in 0 .. m - 1, NEW j \in 0 .. m - 1
        PROVE  Wrap(c.from + i) # Wrap(c.to + j)
    <3>1. /\ o + i \in 0 .. w - 1 /\ o + j \in 0 .. w - 1
          /\ Wrap(c.from + i) = source + (o + i) /\ Wrap(c.to + j) = destination + (o + j)
      BY <1>3
    <3>2. source + (o + i) # destination + (o + j)
      BY <3>1 DEF KeepApart
    <3> QED BY <3>1, <3>2
  <2> QED BY <2>1 DEF Apart
<1>5. Whole(c, m)
  <2>1. c.to = destination + o
    <3>1. o \in 0 .. w - 1
      BY <1>1
    <3>2. destination + o \in Address
      BY <3>1 DEF KeepApart
    <3> QED BY <1>2, <3>2, WrapIs, SpaceIs
  <2>2. ASSUME NEW i \in 0 .. m - 1 PROVE Wrap(c.to + i) \in Intercepted <=> c.to \in Intercepted
    <3> DEFINE x == o + i
    <3>1. x \in 0 .. w - 1 /\ Wrap(c.to + i) = destination + x
      BY <1>3
    <3>2. x % BytesPerWord = i
      <4>1. o % BytesPerWord = 0 /\ i \in Nat /\ i < BytesPerWord - (o % BytesPerWord)
        BY <1>1 DEF Aligned
      <4>2. (o + i) % BytesPerWord = (o % BytesPerWord) + i
        BY <1>1, <4>1, RemainderGrows
      <4> QED BY <4>1, <4>2
    <3>3. destination + x - i = destination + o
      BY <1>1
    <3> HIDE DEF x
    <3>4. destination + x \in Intercepted <=> destination + x - (x % BytesPerWord) \in Intercepted
      BY <3>1 DEF TakenWhole
    <3> QED BY <2>1, <3>1, <3>2, <3>3, <3>4
  <2> QED BY <2>2 DEF Whole
<1> QED BY <1>4, <1>5

\* The words of copyDeviceBytes and the bytes left.
LEMMA AtDevice ==
  ASSUME NEW n \in Nat, NEW f, NEW s, NEW B, LoopOf(f, s, "All", B, n),
         NEW source \in Address, NEW destination \in Address, NEW k \in Nat, NEW w \in Nat,
         k + w <= n, RangeAt(B, k, source, destination, w), TakenWhole(destination, w),
         NEW t, At(t, k, f, n)
  PROVE  At(copyDeviceBytes(t, source, destination, w), k + w, f, n)
<1> DEFINE W == BytesPerWord
           valid == validateDeviceMoveRange(source, destination, w)
           words == w \div W
           rest == w % W
           all == w + W - 1
           N == all \div W
           Offset(i) == i * W
           q == [i \in 1 .. N |-> Chunk(source + Offset(i - 1), destination + Offset(i - 1),
                                        IF i <= words THEN W ELSE w - Offset(words))]
           p == copyDeviceBytes(t, source, destination, w)
<1>1. p = IF valid = "ok" THEN CopyChunks(t, q) ELSE [t EXCEPT !.result = valid]
  <2>1. q = [i \in 1 .. (w + BytesPerWord - 1) \div BytesPerWord |->
               Chunk(source + Offset(i - 1), destination + Offset(i - 1),
                     IF i <= words THEN BytesPerWord ELSE w - Offset(words))]
    BY Zenon
  <2> QED BY Zenon DEF copyDeviceBytes
<1>2. W \in Nat /\ W > 0 /\ W <= AddressSpace /\ AddressSpace \in Nat /\ source \in Int /\ destination \in Int
  BY SpaceIs
<1>3. valid \in Results /\ (valid = "ok" => KeepApart(source, destination, w))
  BY ValidIs
<1>4. t \in Memories
  BY DEF At
<1> HIDE DEF p, valid
<1>5. CASE valid # "ok"
  <2>1. p = [t EXCEPT !.result = valid]
    BY <1>1, <1>5
  <2>2. p \in Memories /\ p.result = valid /\ Like(p, t)
    BY <1>3, <1>4, <2>1, MemoriesAre DEF Memories, Like
  <2>3. \E j \in 0 .. n : Like(t, f[j])
    <3>1. k \in 0 .. n
      OBVIOUS
    <3> QED BY <3>1 DEF At
  <2>4. At(p, k + w, f, n)
    BY <1>5, <2>2, <2>3 DEF At, Like
  <2> QED BY <2>4 DEF p
<1>6. CASE valid = "ok"
  <2>1. words \in Nat /\ rest \in Nat /\ rest < W /\ w = (W * words) + rest
    <3> HIDE DEF W
    <3> QED BY <1>2, QuotientAndRemainder
  <2> DEFINE size == W * words
  <2>2. size \in Nat /\ Offset(words) = size /\ w = size + rest
    <3> HIDE DEF W, words, rest
    <3> QED BY <1>2, <2>1, SMT
  <2>3. N = IF rest = 0 THEN words ELSE words + 1
    <3> HIDE DEF W, words, rest, size
    <3>1. CASE rest = 0
      <4>1. all = size + (W - 1) /\ all \in Nat /\ W - 1 \in Nat /\ W - 1 < W
        BY <1>2, <2>2, <3>1
      <4> HIDE DEF all
      <4>2. all \div W = words
        BY <1>2, <2>1, <4>1, QuotientIs DEF size
      <4> QED BY <3>1, <4>2
    <3>2. CASE rest # 0
      <4> DEFINE left == rest - 1
      <4>1. left \in Nat /\ left < W
        BY <1>2, <2>1, <3>2
      <4>2. all = (size + W) + left /\ all \in Nat
        BY <1>2, <2>1, <2>2, <3>2
      <4> HIDE DEF all, left
      <4>3. size + W = W * (words + 1) /\ words + 1 \in Nat
        BY <1>2, <2>1, SMT DEF size
      <4>4. all = (W * (words + 1)) + left
        BY <4>2, <4>3
      <4>5. all \div W = words + 1
        BY <1>2, <4>1, <4>2, <4>3, <4>4, QuotientIs
      <4> QED BY <3>2, <4>5
    <3> QED BY <3>1, <3>2
  <2>4. /\ Offset(0) = 0
        /\ \A i \in 0 .. words : Offset(i) \in Nat /\ Offset(i) <= size /\ Aligned(Offset(i))
        /\ \A i \in 1 .. words : Offset(i) = Offset(i - 1) + W
    <3>1. \A i \in Nat : Aligned(Offset(i))
      BY AlignedTimes
    <3> HIDE DEF W, words
    <3>2. ASSUME NEW i \in 0 .. words PROVE i * W \in Nat /\ i * W <= W * words
      BY <1>2, <2>1, <3>2, SMT
    <3>3. ASSUME NEW i \in 1 .. words PROVE i * W = ((i - 1) * W) + W
      BY <1>2, <2>1, <3>3, SMT
    <3>4. 0 * W = 0
      BY <1>2
    <3>5. \A i \in 0 .. words : i \in Nat
      BY <2>1
    <3>6. Offset(0) = 0
      BY <3>4
    <3>7. \A i \in 0 .. words : Offset(i) \in Nat /\ Offset(i) <= size
      BY <3>2
    <3>8. \A i \in 1 .. words : Offset(i) = Offset(i - 1) + W
      BY <3>3
    <3> HIDE DEF Offset
    <3> QED BY <3>1, <3>5, <3>6, <3>7, <3>8
  <2> HIDE DEF W, words, rest, size, N, all, Offset
  <2> DEFINE o == [i \in 0 .. N |-> IF i <= words THEN Offset(i) ELSE w]
             Width(i) == IF i <= words THEN W ELSE w - Offset(words)
  <2>5. N \in Nat /\ N \in 0 .. N /\ 0 \in 0 .. N
    BY <2>1, <2>3
  <2>6. ASSUME NEW i \in 1 .. N
        PROVE  /\ i - 1 \in 0 .. words /\ i - 1 \in 0 .. N /\ i \in 0 .. N
               /\ q[i] = Chunk(source + Offset(i - 1), destination + Offset(i - 1), Width(i))
    <3>1. i - 1 \in 0 .. words /\ i - 1 \in 0 .. N /\ i \in 0 .. N
      BY <2>1, <2>3
    <3> QED BY <3>1
  <2>7. DOMAIN q = 1 .. N
    OBVIOUS
  <2>8. ASSUME NEW i \in 1 .. N
        PROVE  o[i - 1] = Offset(i - 1) /\ o[i] = Offset(i - 1) + Width(i) /\ Width(i) \in 1 .. W
               /\ o[i] <= w
    <3>1. o[i - 1] = Offset(i - 1)
      <4>1. i - 1 <= words
        BY <2>1, <2>6
      <4> QED BY <2>6, <4>1
    <3>2. CASE i <= words
      <4>1. i \in 1 .. words /\ i \in 0 .. words
        BY <2>1, <3>2
      <4>2. o[i] = Offset(i) /\ Width(i) = W
        BY <2>6, <3>2
      <4>3. Offset(i) = Offset(i - 1) + W /\ Offset(i) <= size /\ Offset(i) \in Nat
        BY <2>4, <4>1
      <4> HIDE DEF o, Width
      <4> QED BY <1>2, <2>1, <2>2, <3>1, <4>2, <4>3
    <3>3. CASE ~(i <= words)
      <4>1. i - 1 = words /\ rest # 0
        BY <2>1, <2>3, <3>3
      <4>2. o[i] = w /\ Width(i) = w - Offset(words)
        BY <2>6, <3>3
      <4> HIDE DEF o, Width
      <4>3. w - Offset(words) = rest /\ rest \in 1 .. W /\ Offset(i - 1) = size
        BY <1>2, <2>1, <2>2, <4>1
      <4> QED BY <2>1, <2>2, <3>1, <4>2, <4>3
    <3> QED BY <3>2, <3>3
  <2>9. \A i \in 0 .. N : o[i] \in Nat /\ o[i] <= w
    <3>1. ASSUME NEW i \in 0 .. N PROVE o[i] \in Nat /\ o[i] <= w
      <4>1. CASE i <= words
        <5>1. o[i] = Offset(i) /\ i \in 0 .. words
          BY <2>1, <4>1
        <5>2. Offset(i) \in Nat /\ Offset(i) <= size
          BY <2>4, <5>1
        <5> HIDE DEF o
        <5> QED BY <2>1, <2>2, <5>1, <5>2
      <4>2. CASE ~(i <= words)
        BY <4>2
      <4> QED BY <4>1, <4>2
    <3> QED BY <3>1
  <2>10. o \in [0 .. N -> Nat] /\ o[0] = 0
    <3>1. o \in [0 .. N -> Nat]
      <4>1. o = [i \in 0 .. N |-> o[i]]
        OBVIOUS
      <4> HIDE DEF o
      <4> QED BY <2>9, <4>1
    <3>2. o[0] = Offset(0)
      BY <2>1, <2>5
    <3> QED BY <2>4, <3>1, <3>2
  <2>11. o[N] = w
    <3>1. CASE rest = 0
      <4>1. N = words
        BY <2>3, <3>1
      <4>2. o[N] = Offset(words)
        BY <2>1, <2>5, <4>1
      <4> QED BY <2>2, <3>1, <4>2
    <3>2. CASE rest # 0
      <4>1. N = words + 1
        BY <2>3, <3>2
      <4> QED BY <2>1, <2>5, <4>1
    <3> QED BY <3>1, <3>2
  <2>12. ASSUME NEW i \in 1 .. N
         PROVE  o[i] = o[i - 1] + q[i].width /\ Covers(B, q[i], k + o[i - 1])
    <3> DEFINE x == Offset(i - 1)
               m == Width(i)
               c == q[i]
    <3>1. o[i - 1] = x /\ o[i] = x + m /\ m \in 1 .. W /\ o[i] <= w
      BY <2>8
    <3>2. x \in Nat /\ Aligned(x)
      BY <2>4, <2>6
    <3>3. c = Chunk(source + x, destination + x, m)
      BY <2>6
    <3> HIDE DEF x, m, c, o, q
    <3>4. x + m <= w /\ m \in 1 .. AddressSpace /\ m \in 1 .. BytesPerWord
      BY <1>2, <3>1 DEF W
    <3>5. KeepApart(source, destination, w)
      BY <1>3, <1>6
    <3>6. Apart(c, m) /\ Whole(c, m)
      BY <3>2, <3>3, <3>4, <3>5, DeviceChunk
    <3>7. Covers(B, c, k + x) /\ c.width = m
      BY <1>2, <3>2, <3>3, <3>4, <3>6, ChunkOfRange
    <3> QED BY <3>1, <3>7 DEF c
  <2> HIDE DEF o, q
  <2>13. Follow(q, N, o, B, k)
    BY <2>7, <2>10, <2>12 DEF Follow
  <2>14. \A i \in 0 .. N : k + o[i] <= n
    BY <2>9
  <2>15. At(CopyChunks(t, q), k + o[N], f, n)
    BY <2>5, <2>13, <2>14, AtChunks
  <2> QED BY <1>1, <1>6, <2>11, <2>15 DEF p
<1> QED BY <1>5, <1>6

(***************************************************************************)
(* The loop over the bytes, and rows.                                      *)
(***************************************************************************)
LEMMA LoopExists ==
  ASSUME NEW n \in Nat, NEW B, DOMAIN B = 1 .. n, NEW filter, NEW s \in Memories,
         \A i \in 1 .. n : B[i].from \in Address /\ B[i].to \in Address
  PROVE  /\ \E f : LoopOf(f, s, filter, B, n)
         /\ \A f : LoopOf(f, s, filter, B, n) => At(s, 0, f, n)
<1>1. \A t \in Memories, i \in 1 .. n : CopyByte(t, filter, B[i]) \in Memories
  BY CopyByteIs
<1>2. ByteKeeps(filter, B, n, Memories)
  BY <1>1 DEF ByteKeeps
<1>3. PICK f : ByteCourse(f, s, filter, B, n, Memories)
  BY <1>2, ByteSteps
<1>4. LoopOf(f, s, filter, B, n)
  BY <1>3 DEF ByteCourse, LoopOf
<1>5. ASSUME NEW g, LoopOf(g, s, filter, B, n) PROVE At(s, 0, g, n)
  <2>1. g[0] = s /\ 0 \in 0 .. n
    BY <1>5 DEF LoopOf
  <2> QED BY <2>1 DEF At, Like
<1> QED BY <1>4, <1>5

\* A row leaves a memory.
LEMMA RowTyped ==
  ASSUME NEW t \in Memories, NEW source \in Address, NEW destination \in Address, NEW w \in Nat,
         NEW filter
  PROVE  /\ storeByteRange(t, source, destination, w) \in Memories
         /\ FilterRow(t, filter, source, destination, w) \in Memories
<1> DEFINE B == [i \in 1 .. w |-> Chunk(source + i - 1, destination + i - 1, 1)]
<1>1. source \in Int /\ destination \in Int
  BY SpaceIs
<1>2. ASSUME NEW i \in 1 .. w PROVE B[i].from \in Address /\ B[i].to \in Address
  <2>1. source + i - 1 \in Int /\ destination + i - 1 \in Int
    BY <1>1
  <2>2. B[i].from = Wrap(source + i - 1) /\ B[i].to = Wrap(destination + i - 1)
    BY DEF Chunk
  <2> HIDE DEF B
  <2> QED BY <2>1, <2>2, WrapIs
<1>3. RangeAt(B, 0, source, destination, w)
  <2>1. ASSUME NEW i \in 0 .. w - 1 PROVE B[0 + i + 1] = Chunk(source + i, destination + i, 1)
    <3>1. 0 + i + 1 = i + 1 /\ i + 1 \in 1 .. w /\ source + (i + 1) - 1 = source + i
          /\ destination + (i + 1) - 1 = destination + i
      BY <1>1
    <3>2. B[i + 1] = Chunk(source + (i + 1) - 1, destination + (i + 1) - 1, 1)
      BY <3>1
    <3> HIDE DEF B
    <3> QED BY <3>1, <3>2
  <2> HIDE DEF B
  <2> QED BY <2>1 DEF RangeAt
<1>4. DOMAIN B = 1 .. w /\ 0 + w = w
  OBVIOUS
<1> HIDE DEF B
<1>5. \A F : \E f : LoopOf(f, t, F, B, w) /\ At(t, 0, f, w)
  BY <1>2, <1>4, LoopExists
<1>6. storeByteRange(t, source, destination, w) \in Memories
  <2>1. PICK f : LoopOf(f, t, "All", B, w) /\ At(t, 0, f, w)
    BY <1>5
  <2>2. At(storeByteRange(t, source, destination, w), 0 + w, f, w)
    BY <1>1, <1>3, <1>4, <2>1, AtRange
  <2> QED BY <2>2 DEF At
<1>7. FilterRow(t, filter, source, destination, w) \in Memories
  <2>1. PICK f : LoopOf(f, t, filter, B, w) /\ At(t, 0, f, w)
    BY <1>5
  <2>2. At(FilterRow(t, filter, source, destination, w), 0 + w, f, w)
    BY <1>3, <1>4, <2>1, AtRow
  <2> QED BY <2>2 DEF At
<1> QED BY <1>6, <1>7

\* What a move moves, byte by byte.
LEMMA MovedBytesAre ==
  ASSUME NEW v, v.source \in Address, v.destination \in Address, v.width \in Nat, v.rows \in Nat,
         v.sourceStride \in Nat, v.destinationStride \in Nat
  PROVE  LET n == v.rows * v.width
             B == MovedBytes(v)
         IN  /\ n \in Nat /\ DOMAIN B = 1 .. n /\ Len(B) = n
             /\ \A i \in 1 .. n : B[i].from \in Address /\ B[i].to \in Address
             /\ \E S : B \in Seq(S)
<1> DEFINE n == v.rows * v.width
           B == MovedBytes(v)
           R(i) == (i - 1) \div v.width + 1
           C(i) == ((i - 1) % v.width) + 1
           X(i) == v.source + (R(i) - 1) * v.sourceStride + C(i) - 1
           Y(i) == v.destination + (R(i) - 1) * v.destinationStride + C(i) - 1
<1>1. n \in Nat
  BY SMT
<1>2. B = [i \in 1 .. n |-> Chunk(X(i), Y(i), 1)]
  BY Zenon DEF MovedBytes
<1>3. v.source \in Int /\ v.destination \in Int
  BY SpaceIs
<1>4. ASSUME NEW i \in 1 .. n PROVE X(i) \in Int /\ Y(i) \in Int
  <2>1. v.width > 0
    <3>1. CASE v.width = 0
      <4>1. n = 0
        BY <3>1
      <4> HIDE DEF n
      <4> QED BY <4>1
    <3> QED BY <3>1
  <2> HIDE DEF n
  <2>2. i - 1 \in Nat
    BY <1>1
  <2> DEFINE e == i - 1
  <2> HIDE DEF e
  <2>3. (e \div v.width) \in Nat /\ (e % v.width) \in Nat
    BY <2>1, <2>2, QuotientAndRemainder DEF e
  <2>4. R(i) - 1 = e \div v.width /\ C(i) \in Nat
    BY <2>3 DEF e
  <2> HIDE DEF R, C
  <2>5. (R(i) - 1) * v.sourceStride \in Int /\ (R(i) - 1) * v.destinationStride \in Int
    BY <2>3, <2>4, SMT
  <2> DEFINE a == (R(i) - 1) * v.sourceStride
             b == (R(i) - 1) * v.destinationStride
  <2> HIDE DEF a, b
  <2>6. a \in Int /\ b \in Int
    BY <2>5 DEF a, b
  <2>7. X(i) = v.source + a + C(i) - 1 /\ Y(i) = v.destination + b + C(i) - 1
    BY DEF a, b
  <2> HIDE DEF X, Y
  <2> QED BY <1>3, <2>4, <2>6, <2>7
<1> HIDE DEF n, B, X, Y
<1>5. \A i \in 1 .. n : B[i].from \in Address /\ B[i].to \in Address
  BY <1>2, <1>4, WrapIs DEF Chunk
<1>6. DOMAIN B = 1 .. n
  BY <1>2
<1> DEFINE S == {B[i] : i \in 1 .. n}
<1>7. B \in [1 .. n -> S]
  BY <1>2
<1> HIDE DEF S
<1>8. B \in Seq(S) /\ Len(B) = n
  BY <1>1, <1>7, LenOfFunction
<1> QED BY <1>1, <1>5, <1>6, <1>8 DEF n, B

\* A row of them.
RowSource(v, r) == Wrap(v.source + (r - 1) * v.sourceStride)
RowDestination(v, r) == Wrap(v.destination + (r - 1) * v.destinationStride)

\* The bytes of a row follow each other.
LEMMA RowRange ==
  ASSUME NEW v, v.source \in Address, v.destination \in Address, v.width \in Nat, v.rows \in Nat,
         v.sourceStride \in Nat, v.destinationStride \in Nat, NEW r \in 1 .. v.rows
  PROVE  LET k == (r - 1) * v.width
         IN  /\ k \in Nat /\ k + v.width = r * v.width /\ r * v.width <= v.rows * v.width
             /\ RowSource(v, r) \in Address /\ RowDestination(v, r) \in Address
             /\ RangeAt(MovedBytes(v), k, RowSource(v, r), RowDestination(v, r), v.width)
<1> DEFINE w == v.width
           k == (r - 1) * w
           n == v.rows * w
           B == MovedBytes(v)
           a == v.source + (r - 1) * v.sourceStride
           b == v.destination + (r - 1) * v.destinationStride
<1>1. w \in Nat /\ r - 1 \in Nat /\ v.rows \in Nat /\ r <= v.rows /\ r \in Nat
  OBVIOUS
<1>2. k \in Nat /\ k + w = r * w /\ r * w <= n /\ n \in Nat
  <2> DEFINE rows == v.rows
  <2>1. rows \in Nat /\ r <= rows
    OBVIOUS
  <2> HIDE DEF rows, w
  <2> QED BY <1>1, <2>1, SMT DEF rows
<1>3. a \in Int /\ b \in Int
  <2> DEFINE x == (r - 1) * v.sourceStride
             y == (r - 1) * v.destinationStride
  <2>1. x \in Int /\ y \in Int
    BY SMT
  <2>2. v.source \in Int /\ v.destination \in Int
    BY SpaceIs
  <2> HIDE DEF x, y
  <2>3. v.source + x \in Int /\ v.destination + y \in Int
    BY <2>1, <2>2
  <2> QED BY <2>3 DEF x, y
<1>4. RowSource(v, r) = Wrap(a) /\ RowDestination(v, r) = Wrap(b)
  BY DEF RowSource, RowDestination
<1>5. Wrap(a) \in Address /\ Wrap(b) \in Address
  BY <1>3, WrapIs
<1>6. ASSUME NEW i \in 0 .. w - 1
      PROVE  B[k + i + 1] = Chunk(Wrap(a) + i, Wrap(b) + i, 1)
  <2> DEFINE e == k + i
             R == ((e + 1) - 1) \div w + 1
             C == (((e + 1) - 1) % w) + 1
  <2>1. e \in Nat /\ e + 1 \in 1 .. n /\ (e + 1) - 1 = e /\ w > 0 /\ i \in Nat /\ i < w /\ i \in Int
        /\ e + 1 = k + i + 1
    <3> HIDE DEF k, w, n
    <3> DEFINE z == r * w
    <3>1. k + w = z /\ z <= n
      BY <1>2
    <3>2. z \in Int
      BY <1>1, SMT
    <3> HIDE DEF z
    <3> QED BY <1>1, <1>2, <3>1, <3>2
  <2>2. e \div w = r - 1 /\ e % w = i
    <3>1. e = (w * (r - 1)) + i
      <4>1. k = w * (r - 1)
        <5> HIDE DEF w
        <5> QED BY <1>1, SMT
      <4> QED BY <4>1
    <3> HIDE DEF e, k, w
    <3> QED BY <1>1, <2>1, <3>1, QuotientIs, RemainderIs
  <2>3. B[e + 1] = Chunk(v.source + (R - 1) * v.sourceStride + C - 1,
                         v.destination + (R - 1) * v.destinationStride + C - 1, 1)
    <3> DEFINE Piece(j) ==
                 Chunk(v.source + (((j - 1) \div w + 1) - 1) * v.sourceStride + (((j - 1) % w) + 1) - 1,
                       v.destination + (((j - 1) \div w + 1) - 1) * v.destinationStride
                         + (((j - 1) % w) + 1) - 1, 1)
    <3>1. B = [j \in 1 .. n |-> Piece(j)]
      BY Zenon DEF MovedBytes
    <3> HIDE DEF B, n, Piece
    <3>2. B[e + 1] = Piece(e + 1)
      <4>1. e + 1 \in 1 .. n
        BY <2>1
      <4> HIDE DEF e
      <4> QED BY <3>1, <4>1
    <3> HIDE DEF e, w, B
    <3> QED BY <3>2 DEF Piece
  <2>4. R = (r - 1) + 1 /\ C = i + 1
    BY <2>1, <2>2
  <2>5. R - 1 = r - 1 /\ C - 1 = i
    <3> HIDE DEF R, C
    <3> QED BY <1>1, <2>1, <2>4
  <2> DEFINE x == (r - 1) * v.sourceStride
             y == (r - 1) * v.destinationStride
  <2>6. B[e + 1] = Chunk(v.source + x + C - 1, v.destination + y + C - 1, 1)
    BY <2>3, <2>5
  <2>7. x \in Int /\ y \in Int /\ v.source \in Int /\ v.destination \in Int
    BY SpaceIs, SMT
  <2> HIDE DEF x, y, C, R, e, B
  <2>8. v.source + x + C - 1 = (v.source + x) + i /\ v.destination + y + C - 1 = (v.destination + y) + i
    BY <2>1, <2>5, <2>7
  <2>9. a = v.source + x /\ b = v.destination + y
    BY DEF x, y
  <2> HIDE DEF a, b
  <2>10. B[e + 1] = Chunk(a + i, b + i, 1)
    BY <2>6, <2>8, <2>9
  <2>11. Wrap(Wrap(a) + i) = Wrap(a + i) /\ Wrap(Wrap(b) + i) = Wrap(b + i)
    BY <1>3, <2>1, WrapOfSum
  <2>12. Chunk(a + i, b + i, 1) = Chunk(Wrap(a) + i, Wrap(b) + i, 1)
    BY <2>11 DEF Chunk
  <2> QED BY <2>1, <2>10, <2>12
<1> HIDE DEF a, b, B, k, n
<1>7. RangeAt(B, k, Wrap(a), Wrap(b), w)
  BY <1>6 DEF RangeAt
<1> QED BY <1>2, <1>4, <1>5, <1>7 DEF B, k, n

\* A move by rows.
LEMMA AtRows ==
  ASSUME NEW v, v.source \in Address, v.destination \in Address, v.width \in Nat, v.rows \in Nat,
         v.sourceStride \in Nat, v.destinationStride \in Nat,
         NEW s \in Memories, NEW filter, NEW f,
         LoopOf(f, s, filter, MovedBytes(v), v.rows * v.width)
  PROVE  At(copy2d(s, filter, v), v.rows * v.width, f, v.rows * v.width)
<1> DEFINE w == v.width
           N == v.rows
           n == N * w
           B == MovedBytes(v)
           q == [r \in 1 .. v.rows |-> r]
           Times(r) == r * w
<1>1. N \in Nat /\ w \in Nat /\ N \in 0 .. N
  OBVIOUS
<1>2. n \in Nat /\ DOMAIN B = 1 .. n /\ \A i \in 1 .. n : B[i].from \in Address /\ B[i].to \in Address
  BY MovedBytesAre
<1>3. At(s, 0, f, n)
  <2> HIDE DEF n, B
  <2>1. LoopOf(f, s, filter, B, n)
    BY DEF n, B
  <2> QED BY <1>2, <2>1, LoopExists
<1>4. \A r \in 1 .. N : /\ Times(r - 1) \in Nat /\ Times(r - 1) + w = Times(r) /\ Times(r) <= n
                       /\ RowSource(v, r) \in Address /\ RowDestination(v, r) \in Address
                       /\ RangeAt(B, Times(r - 1), RowSource(v, r), RowDestination(v, r), w)
  BY RowRange
<1>5. Times(0) = 0 /\ Times(N) = n
  BY <1>1
<1>6. \A t, r : CopyRow(t, filter, v, r) =
                  IF t.result # "ok" THEN t
                  ELSE IF filter = "All"
                  THEN storeByteRange(t, RowSource(v, r), RowDestination(v, r), w)
                  ELSE FilterRow(t, filter, RowSource(v, r), RowDestination(v, r), w)
  BY Zenon DEF CopyRow, RowSource, RowDestination
<1>7. LoopOf(f, s, filter, B, n)
  OBVIOUS
<1> HIDE DEF n, B, Times, w
<1>8. \A t \in Memories, r \in 1 .. N : CopyRow(t, filter, v, r) \in Memories
  BY <1>1, <1>4, <1>6, RowTyped
<1>9. PICK g : RowCourse(g, s, filter, v, q, N, Memories)
  <2>1. RowKeeps(filter, v, q, N, Memories)
    BY <1>8 DEF RowKeeps
  <2> HIDE DEF q
  <2> QED BY <1>1, <2>1, RowSteps
<1>10. /\ g[0] = s /\ copy2d(s, filter, v) = g[N]
       /\ \A r \in 1 .. N : g[r] = CopyRow(g[r - 1], filter, v, r)
  BY <1>9 DEF RowCourse
<1> HIDE DEF q
<1> DEFINE T == {r \in 0 .. N : At(g[r], Times(r), f, n)}
<1>11. 0 \in T
  BY <1>1, <1>3, <1>5, <1>10
<1>12. ASSUME NEW r \in 1 .. N, r - 1 \in T PROVE r \in T
  <2> DEFINE t == g[r - 1]
             k == Times(r - 1)
             source == RowSource(v, r)
             destination == RowDestination(v, r)
  <2>1. /\ k \in Nat /\ k + w = Times(r) /\ Times(r) <= n /\ k + w <= n
        /\ source \in Address /\ destination \in Address
        /\ RangeAt(B, k, source, destination, w)
    BY <1>4
  <2>2. At(t, k, f, n) /\ g[r] = CopyRow(t, filter, v, r)
    BY <1>10, <1>12
  <2>3. CopyRow(t, filter, v, r) = IF t.result # "ok" THEN t
                                   ELSE IF filter = "All" THEN storeByteRange(t, source, destination, w)
                                   ELSE FilterRow(t, filter, source, destination, w)
    BY <1>6
  <2>4. source \in Int /\ destination \in Int
    BY <2>1, SpaceIs
  <2> HIDE DEF t, k, source, destination
  <2>5. At(g[r], k + w, f, n)
    <3>1. CASE t.result # "ok"
      <4>1. g[r] = t
        BY <2>2, <2>3, <3>1
      <4> QED BY <2>2, <3>1, <4>1, AtFailed
    <3>2. CASE t.result = "ok" /\ filter = "All"
      <4>1. g[r] = storeByteRange(t, source, destination, w)
        BY <2>2, <2>3, <3>2
      <4>2. At(storeByteRange(t, source, destination, w), k + w, f, n)
        <5>1. LoopOf(f, s, "All", B, n)
          BY <1>7, <3>2
        <5> QED BY <1>1, <1>2, <2>1, <2>2, <2>4, <5>1, AtRange
      <4> QED BY <4>1, <4>2
    <3>3. CASE t.result = "ok" /\ filter # "All"
      <4>1. g[r] = FilterRow(t, filter, source, destination, w)
        BY <2>2, <2>3, <3>3
      <4>2. At(FilterRow(t, filter, source, destination, w), k + w, f, n)
        BY <1>1, <1>2, <1>7, <2>1, <2>2, AtRow
      <4> QED BY <4>1, <4>2
    <3> QED BY <3>1, <3>2, <3>3
  <2>6. r \in 0 .. N
    BY <1>1
  <2> QED BY <2>1, <2>5, <2>6
<1>13. N \in T
  <2> HIDE DEF T
  <2>1. 0 .. N \subseteq T
    BY <1>1, <1>11, <1>12, UpTo
  <2> QED BY <1>1, <2>1
<1>14. At(copy2d(s, filter, v), n, f, n)
  BY <1>5, <1>10, <1>13
<1> QED BY <1>14 DEF n, w

\* The loop of the property is the loop.
LEMMA ByteLoopIs ==
  ASSUME NEW B, NEW S, B \in Seq(S), NEW n \in Nat, Len(B) = n, NEW s \in Memories, NEW filter,
         NEW f, LoopOf(f, s, filter, B, n), NEW k \in 0 .. n
  PROVE  CopyBytes(s, filter, SubSeq(B, 1, k)) = f[k]
<1> DEFINE q == SubSeq(B, 1, k)
<1>1. k \in Nat /\ 1 \in 1 .. Len(B) + 1 /\ k \in 1 - 1 .. Len(B)
  OBVIOUS
<1>2. q \in Seq(S) /\ Len(q) = IF 1 <= k THEN k - 1 + 1 ELSE 0
  BY <1>1, SubSeqProperties
<1>3. \A i \in 1 .. k : q[i] = B[i]
  <2>1. \A i \in 1 .. k - 1 + 1 : q[i] = B[1 + i - 1]
    BY <1>1, SubSeqProperties
  <2>2. k - 1 + 1 = k /\ \A i \in 1 .. k : 1 + i - 1 = i
    BY <1>1
  <2> QED BY <2>1, <2>2
<1>4. DOMAIN q = 1 .. k
  <2>1. Len(q) = k
    BY <1>1, <1>2
  <2> QED BY <1>2, <2>1, LenProperties
<1> HIDE DEF q
<1>5. \A i \in 1 .. k : i \in 1 .. n /\ q[i].from \in Address /\ q[i].to \in Address
                       /\ f[i] = CopyByte(f[i - 1], filter, q[i])
  BY <1>1, <1>3 DEF LoopOf
<1>6. ByteKeeps(filter, q, k, Memories)
  <2>1. \A t \in Memories, i \in 1 .. k : CopyByte(t, filter, q[i]) \in Memories
    BY <1>5, CopyByteIs
  <2> QED BY <1>4, <2>1 DEF ByteKeeps
<1>7. PICK g : ByteCourse(g, s, filter, q, k, Memories)
  BY <1>1, <1>6, ByteSteps
<1>8. /\ g[0] = s /\ f[0] = s /\ CopyBytes(s, filter, q) = g[k]
      /\ \A i \in 1 .. k : g[i] = CopyByte(g[i - 1], filter, q[i])
  BY <1>7 DEF ByteCourse, LoopOf
<1> DEFINE T == {i \in 0 .. k : g[i] = f[i]}
<1>9. 0 \in T
  BY <1>1, <1>8
<1>10. ASSUME NEW i \in 1 .. k, i - 1 \in T PROVE i \in T
  <2>1. g[i - 1] = f[i - 1] /\ i \in 0 .. k
    BY <1>1, <1>10
  <2> QED BY <1>5, <1>8, <2>1
<1>11. k \in T
  <2> HIDE DEF T
  <2>1. 0 .. k \subseteq T
    BY <1>1, <1>9, <1>10, UpTo
  <2> QED BY <1>1, <2>1
<1> QED BY <1>8, <1>11 DEF q

\* A move executed.
Filter(v) == IF v.op \in {"move", "devmove"} THEN "All" ELSE v.op

\* What an instruction leaves is what the loop over its bytes leaves.
LEMMA ExecuteIs ==
  ASSUME NEW v \in Moves, NEW s \in Memories
  PROVE  LET n == v.rows * v.width
             B == MovedBytes(v)
         IN  /\ n \in Nat /\ Len(B) = n
             /\ \E f : /\ LoopOf(f, s, Filter(v), B, n) /\ At(Execute(s, v), n, f, n)
                       /\ \A k \in 0 .. n : ByteLoop(s, v, k) = f[k]
<1> DEFINE n == v.rows * v.width
           B == MovedBytes(v)
           p == Execute(s, v)
<1>1. /\ v.source \in Address /\ v.destination \in Address /\ v.width \in Nat /\ v.rows \in Nat
      /\ v.sourceStride \in Nat /\ v.destinationStride \in Nat
      /\ v.op \in {"move", "devmove", "All", "Nonzero", "Zero"}
      /\ v.op \in {"move", "devmove"} => v.rows = 1
  BY MovesAssumption
<1>2. v.op = "devmove" => TakenWhole(v.destination, v.width)
  BY MovesAssumption DEF TakenWhole
<1>3. /\ n \in Nat /\ DOMAIN B = 1 .. n /\ Len(B) = n
      /\ \A i \in 1 .. n : B[i].from \in Address /\ B[i].to \in Address
      /\ \E S : B \in Seq(S)
  BY <1>1, MovedBytesAre
<1>4. PICK f : LoopOf(f, s, Filter(v), B, n) /\ At(s, 0, f, n)
  <2> HIDE DEF n, B
  <2> QED BY <1>3, LoopExists
<1>5. \A k \in 0 .. n : ByteLoop(s, v, k) = f[k]
  <2>1. \A k : ByteLoop(s, v, k) = CopyBytes(s, Filter(v), SubSeq(B, 1, k))
    BY Zenon DEF ByteLoop, Filter
  <2>2. PICK S : B \in Seq(S)
    BY <1>3
  <2> HIDE DEF n, B
  <2> QED BY <1>3, <1>4, <2>1, <2>2, ByteLoopIs
<1>6. v.op \in {"move", "devmove"} =>
        /\ n = v.width /\ 0 + v.width = n /\ RangeAt(B, 0, v.source, v.destination, v.width)
  <2>1. SUFFICES ASSUME v.op \in {"move", "devmove"}
                 PROVE  n = v.width /\ RangeAt(B, 0, v.source, v.destination, v.width)
    BY <1>1
  <2>2. v.rows = 1 /\ 1 \in 1 .. v.rows /\ n = v.width
    <3>1. v.rows = 1
      BY <1>1, <2>1
    <3>2. 1 * v.width = v.width
      BY <1>1
    <3> QED BY <3>1, <3>2
  <2>3. RangeAt(B, (1 - 1) * v.width, RowSource(v, 1), RowDestination(v, 1), v.width)
    BY <1>1, <2>2, RowRange
  <2>4. (1 - 1) * v.width = 0 /\ (1 - 1) * v.sourceStride = 0 /\ (1 - 1) * v.destinationStride = 0
    BY <1>1
  <2>5. v.source + 0 = v.source /\ v.destination + 0 = v.destination
    BY <1>1, SpaceIs
  <2>6. RowSource(v, 1) = v.source /\ RowDestination(v, 1) = v.destination
    BY <1>1, <2>4, <2>5, WrapIs, SpaceIs DEF RowSource, RowDestination
  <2> QED BY <2>2, <2>3, <2>4, <2>6
<1>7. p = CASE v.op = "move" -> storeByteRange(s, v.source, v.destination, v.width)
            [] v.op = "devmove" -> copyDeviceBytes(s, v.source, v.destination, v.width)
            [] OTHER -> copy2d(s, v.op, v)
  BY Zenon DEF Execute
<1>8. v.source \in Int /\ v.destination \in Int /\ 0 \in Nat
  BY <1>1, SpaceIs
<1>9. At(p, n, f, n)
  <2> HIDE DEF p, n, B
  <2>1. CASE v.op = "move"
    <3>1. p = storeByteRange(s, v.source, v.destination, v.width) /\ Filter(v) = "All"
      BY <1>7, <2>1 DEF Filter
    <3>2. n = v.width /\ 0 + v.width = n /\ RangeAt(B, 0, v.source, v.destination, v.width)
      BY <1>6, <2>1
    <3>3. LoopOf(f, s, "All", B, n) /\ At(s, 0, f, n) /\ 0 + v.width <= n
      BY <1>3, <1>4, <3>1, <3>2
    <3>4. At(storeByteRange(s, v.source, v.destination, v.width), 0 + v.width, f, n)
      BY <1>1, <1>3, <1>8, <3>2, <3>3, AtRange
    <3> QED BY <3>1, <3>2, <3>4
  <2>2. CASE v.op = "devmove"
    <3>1. p = copyDeviceBytes(s, v.source, v.destination, v.width) /\ Filter(v) = "All"
      BY <1>7, <2>2 DEF Filter
    <3>2. n = v.width /\ 0 + v.width = n /\ RangeAt(B, 0, v.source, v.destination, v.width)
      BY <1>6, <2>2
    <3>3. LoopOf(f, s, "All", B, n) /\ At(s, 0, f, n) /\ 0 + v.width <= n
      BY <1>3, <1>4, <3>1, <3>2
    <3>4. At(copyDeviceBytes(s, v.source, v.destination, v.width), 0 + v.width, f, n)
      BY <1>1, <1>2, <1>3, <1>8, <2>2, <3>2, <3>3, AtDevice
    <3> QED BY <3>1, <3>2, <3>4
  <2>3. CASE v.op \notin {"move", "devmove"}
    <3>1. p = copy2d(s, v.op, v) /\ Filter(v) = v.op
      BY <1>7, <2>3 DEF Filter
    <3>2. LoopOf(f, s, v.op, MovedBytes(v), v.rows * v.width)
      BY <1>4, <3>1 DEF B, n
    <3>3. At(copy2d(s, v.op, v), v.rows * v.width, f, v.rows * v.width)
      BY <1>1, <3>2, AtRows
    <3> QED BY <3>1, <3>3 DEF n
  <2> QED BY <2>1, <2>2, <2>3
<1>10. /\ LoopOf(f, s, Filter(v), B, n) /\ At(p, n, f, n)
       /\ \A k \in 0 .. n : ByteLoop(s, v, k) = f[k]
  BY <1>4, <1>5, <1>9
<1>11. n \in Nat /\ Len(B) = n
  BY <1>3
<1> HIDE DEF n, B, p
<1>12. \E g : /\ LoopOf(g, s, Filter(v), B, n) /\ At(p, n, g, n)
              /\ \A k \in 0 .. n : ByteLoop(s, v, k) = g[k]
  BY <1>10
<1> QED BY <1>11, <1>12 DEF n, B, p

\* What a process that moves keeps: until the move its memory is one, and after
\* it what the loop over the bytes makes of the memory before.
MovedInv ==
  /\ SavedInv
  /\ "image" \in DOMAIN moved => memory \in Memories
  /\ MovesByteByByte

\* The property after a move.
LEMMA MoveByBytes ==
  ASSUME memory \in Memories, NEW v \in Moves, Move(v)
  PROVE  MovesByteByByte'
<1> DEFINE B == MovedBytes(v)
           n == Len(B)
           p == Execute(memory, v)
<1>1. memory' = p /\ moved' = [move |-> v, before |-> memory]
  BY DEF Move
<1>2. moved'.move = v /\ moved'.before = memory
  BY <1>1
<1>3. /\ n \in Nat
      /\ \E f : /\ LoopOf(f, memory, Filter(v), B, n) /\ At(p, n, f, n)
                /\ \A k \in 0 .. n : ByteLoop(memory, v, k) = f[k]
  BY ExecuteIs
<1> HIDE DEF n, B, p
<1>4. PICK f : At(p, n, f, n) /\ \A k \in 0 .. n : ByteLoop(memory, v, k) = f[k]
  BY <1>3
<1> DEFINE Same(k) == LET t == ByteLoop(memory, v, k)
                      IN  t.byte = p.byte /\ t.register = p.register
                            /\ (p.result = "ok" => t.result = "ok")
<1>5. IF p.result = "ok" THEN Same(n) ELSE \E k \in 0 .. n : Same(k)
  <2>1. n \in 0 .. n
    BY <1>3
  <2>2. CASE p.result = "ok"
    BY <1>4, <2>1, <2>2 DEF At, Like
  <2>3. CASE p.result # "ok"
    BY <1>4, <2>3 DEF At, Like
  <2> QED BY <2>2, <2>3
<1> QED BY <1>1, <1>2, <1>5 DEF MovesByteByByte, n, B

\* At the start nothing has been moved.
LEMMA MovedInit == MemoryInit => MovedInv
<1>1. MemoryInit => moved = None
  BY DEF MemoryInit
<1>2. DOMAIN None = {"none"}
  BY DEF None
<1> QED BY <1>1, <1>2, SavedInit DEF MovedInv, MovesByteByByte

\* Every step keeps it; after a move memory stays as it is.
LEMMA MovesKeep == MovedInv /\ [MoveNext \/ SaveNext]_memoryVars => MovedInv'
<1>1. SUFFICES ASSUME MovedInv, [MoveNext \/ SaveNext]_memoryVars PROVE MovedInv'
  OBVIOUS
<1>2. DOMAIN None = {"none"}
  BY DEF None
<1>3. SavedInv'
  <2>1. SavedInv /\ UNCHANGED memoryVars => SavedInv'
    BY DEF SavedInv, memoryVars
  <2> QED BY <1>1, <2>1, MovesNotSaved, SavesKeep DEF MovedInv
<1>4. CASE UNCHANGED memoryVars
  <2>1. memory' = memory /\ moved' = moved
    BY <1>4 DEF memoryVars
  <2>2. MovesByteByByte'
    BY <1>1, <2>1 DEF MovedInv, MovesByteByByte
  <2> QED BY <1>1, <1>3, <2>1, <2>2 DEF MovedInv
<1>5. ASSUME NEW i \in Images, FillMemory(i) PROVE MovedInv'
  <2>1. moved = None /\ memory' = [memory EXCEPT !.byte = i] /\ moved' = [image |-> TRUE]
    BY <1>5 DEF FillMemory
  <2>2. memory \in Memories /\ i \in [Address -> Content]
    BY <1>1, <2>1, ContentsAssumption DEF MovedInv, SavedInv, Content
  <2>3. memory' \in Memories
    BY <2>1, <2>2 DEF Memories
  <2>4. DOMAIN moved' = {"image"}
    BY <2>1
  <2>5. MovesByteByByte'
    BY <2>4 DEF MovesByteByByte
  <2> QED BY <1>3, <2>3, <2>5 DEF MovedInv
<1>6. ASSUME NEW v \in Moves, Move(v) PROVE MovedInv'
  <2>1. "image" \in DOMAIN moved /\ moved' = [move |-> v, before |-> memory]
    BY <1>6 DEF Move
  <2>2. memory \in Memories
    BY <1>1, <2>1 DEF MovedInv
  <2>3. MovesByteByByte'
    BY <1>6, <2>2, MoveByBytes
  <2>4. DOMAIN moved' = {"move", "before"}
    BY <2>1
  <2> QED BY <1>3, <2>3, <2>4 DEF MovedInv
<1>7. CASE SaveNext
  <2>1. moved = None /\ moved' = moved
    <3>1. moved # None => disk = None
      BY <1>1 DEF MovedInv, SavedInv
    <3> QED BY <1>7, <3>1 DEF SaveNext, Store, LoadFirmware, Save, Restart, Load
  <2>2. DOMAIN moved' = {"none"}
    BY <1>2, <2>1
  <2> QED BY <1>3, <2>2 DEF MovedInv, MovesByteByByte
<1> QED BY <1>1, <1>4, <1>5, <1>6, <1>7 DEF MoveNext

(***************************************************************************)
(* Every block move of every memory: by words, by words of any alignment   *)
(* through the device path, or by rows with a filter, over devices,        *)
(* intercepted ranges and bytes never written, it does what the loop over  *)
(* its bytes does, or a part of it when it fails.                          *)
(***************************************************************************)
THEOREM MovesByteByByteCorrect == MemorySpec => []MovesByteByByte
<1>1. MovedInv => MovesByteByByte
  BY DEF MovedInv
<1> QED BY <1>1, MovedInit, MovesKeep, PTL DEF MemorySpec
==============================================================================
