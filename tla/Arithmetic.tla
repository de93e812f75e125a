----------------------------- MODULE Arithmetic ------------------------------
(***************************************************************************)
(* The instructions that compute: the evaluation stack of three registers, *)
(* the workspace, integer, multiple length, fixed point and single length  *)
(* floating point arithmetic, bits, checks and the error flags.  A program *)
(* is a sequence of instructions with their operands, and runs on words of *)
(* W bits: halves, quarters and the fields of a float scale with the word. *)
(*                                                                         *)
(* The names are those of src/core/cpu/instructions.cpp.  A word is a      *)
(* number of 0 .. Base - 1, as uint32_t is in the code.                    *)
(***************************************************************************)
EXTENDS Integers, Sequences, FiniteSets, FiniteSetsExt, Bitwise

CONSTANTS
  W,            \* bits in a word, a multiple of 4
  E,            \* bits in the exponent of a float
  Undefined,    \* undefinedWord
  Calculations  \* programs: records of a name, the code and the registers to start from

Base == 2^W
Word == 0 .. Base - 1
Sign == Base \div 2                   \* WordSignBit, MostNeg
F    == W - 1 - E                     \* bits in the fraction of a float
Inf  == (2^E - 1) * 2^F

ASSUME ArithmeticAssumption ==
  /\ W \in Nat /\ W > 0 /\ W % 4 = 0
  /\ E \in 1 .. W - 2
  /\ Undefined \in Word

VARIABLES
  program,  \* the program that runs
  initial,  \* the registers and memory it started with
  r         \* the registers, the memory and the flags

calcVars == <<program, initial, r>>

------------------------------------------------------------------------------
(* Words and the stack *)

Unsigned(n) == n % Base                               \* static_cast<uint32_t>
Signed(x)   == IF x >= Sign THEN x - Base ELSE x      \* static_cast<int32_t>
Integer     == -Sign .. Sign - 1

\* The low n bits of x, as a signed number.
SignedField(x, n) == ((x + 2^(n - 1)) % 2^n) - 2^(n - 1)

Pop(s)     == [s EXCEPT !.a = s.b, !.b = s.c, !.c = Undefined]
Push(s, v) == [s EXCEPT !.a = v, !.b = s.a, !.c = s.b]

Unary(s, v)   == Push(Pop(s), v)
Binary(s, v)  == Push(Pop(Pop(s)), v)
\* Three words give a word in Areg and one in Breg.
Double(s, low, high) == Push(Push(Pop(Pop(Pop(s))), high), low)
\* The same for a number of two words.
DoubleOf(s, n) == Double(s, Unsigned(n), Unsigned(n \div Base))

Bool(p) == IF p THEN 1 ELSE 0

\* An arithmetic error traps, or sets the error flag and may halt.
signalArithmeticError(s, cause) ==
  IF cause \in s.mask THEN [s EXCEPT !.trap = cause]
  ELSE [s EXCEPT !.error = TRUE, !.halted = s.haltOnError]

Overflow(s) == signalArithmeticError(s, "INTEGER_OVF")
Check(s, bad) == IF bad THEN signalArithmeticError(s, "INTEGER_ERR") ELSE s
\* n is stored in one word, and is an error where it does not fit.
Checked(s, n) == IF n \in Integer THEN s ELSE Overflow(s)

Areg(s) == Signed(s.a)
Breg(s) == Signed(s.b)

------------------------------------------------------------------------------
(* Memory and control.  Memory is the words of mem, at addresses that count  *)
(* bytes; iptr counts instructions and is past the one that executes.        *)

LoadWord(s, address)      == s.mem[address \div 4]
StoreWord(s, address, v) == [s EXCEPT !.mem[address \div 4] = v]
Local(s, n)               == Unsigned(s.wptr + 4 * n)              \* addrWptrWord

ldl_(s, n)   == Push(s, LoadWord(s, Local(s, n)))
stl_(s, n)   == StoreWord(Pop(s), Local(s, n), s.a)
ldlp_(s, n)  == Push(s, Local(s, n))
ldnl_(s, n)  == Unary(s, LoadWord(s, Unsigned(s.a + 4 * n)))
stnl_(s, n)  == StoreWord(Pop(Pop(s)), Unsigned(s.a + 4 * n), s.b)
ldnlp_(s, n) == Unary(s, Unsigned(s.a + 4 * n))
ajw_(s, n)   == [s EXCEPT !.wptr = Local(s, n)]           \* allocWptr
gajw_(s)     == [s EXCEPT !.a = s.wptr, !.wptr = s.a]
gcall_(s)    == [s EXCEPT !.a = s.iptr, !.iptr = s.a]
cj_(s, n)    == IF s.a # 0 THEN Pop(s) ELSE [s EXCEPT !.iptr = Unsigned(@ + n)]

\* call saves the three registers below iptr; ret drops them.
call_(s, n) ==
  LET t == ajw_(s, -4)
      saved == <<s.iptr, s.a, s.b, s.c>>
  IN  [t EXCEPT !.mem = [i \in DOMAIN t.mem |->
                           IF i - t.wptr \div 4 \in 0 .. 3
                           THEN saved[i - t.wptr \div 4 + 1] ELSE t.mem[i]],
                !.a = s.iptr, !.b = Undefined, !.c = Undefined,
                !.iptr = Unsigned(@ + n)]
ret_(s) == ajw_([s EXCEPT !.iptr = LoadWord(s, s.wptr)], 4)

\* The end of a replicated loop: a control block of an index and a count.
lend_(s) ==
  LET offset == s.a  index == s.b  count == Unsigned(s.b + 4)
      t == StoreWord(Pop(Pop(Pop(s))), count, Unsigned(LoadWord(s, count) - 1))
  IN  IF Signed(LoadWord(s, count)) > 1
      THEN [StoreWord(t, index, Unsigned(LoadWord(s, index) + 1)) EXCEPT !.iptr = Unsigned(@ - offset)]
      ELSE t

------------------------------------------------------------------------------
(* Single length *)

ldc_(s, n)   == Push(s, n)
rev_(s)      == [s EXCEPT !.a = s.b, !.b = s.a]
dup_(s)      == Push(s, s.a)
pop_(s)      == Pop(s)
mint_(s)     == Push(s, Sign)
adc_(s, n)   == LET v == Areg(s) + Signed(n) IN Checked(Unary(s, Unsigned(v)), v)
add_(s)      == LET v == Breg(s) + Areg(s) IN Checked(Binary(s, Unsigned(v)), v)
sub_(s)      == LET v == Breg(s) - Areg(s) IN Checked(Binary(s, Unsigned(v)), v)
mul_(s)      == LET v == Areg(s) * Breg(s) IN Checked(Binary(s, Unsigned(v)), v)
sum_(s)      == Binary(s, Unsigned(s.a + s.b))
diff_(s)     == Binary(s, Unsigned(s.b - s.a))
prod_(s)     == Binary(s, Unsigned(s.a * s.b))
eqc_(s, n)   == Unary(s, Bool(s.a = n))
gt_(s)       == Binary(s, Bool(Breg(s) > Areg(s)))
gtu_(s)      == Binary(s, Bool(s.b > s.a))

\* Division rounds towards zero; the remainder has the sign of the dividend.
Abs(n)  == IF n < 0 THEN -n ELSE n
Quotient(n, d)  == LET q == Abs(n) \div Abs(d) IN IF (n < 0) = (d < 0) THEN q ELSE -q
Remainder(n, d) == n - d * Quotient(n, d)

div_(s) ==
  IF Areg(s) = 0 \/ (s.b = Sign /\ Areg(s) = -1)
  THEN Overflow(Binary(s, Undefined))
  ELSE Binary(s, Unsigned(Quotient(Breg(s), Areg(s))))

rem_(s) ==
  IF Areg(s) = 0 THEN Overflow(Binary(s, Undefined))
  ELSE Binary(s, Unsigned(Remainder(Breg(s), Areg(s))))

saturateWord(n) == IF n < -Sign THEN Sign ELSE IF n >= Sign THEN Sign - 1 ELSE Unsigned(n)
satadd_(s) == Binary(s, saturateWord(Breg(s) + Areg(s)))
satsub_(s) == Binary(s, saturateWord(Breg(s) - Areg(s)))
satmul_(s) == Binary(s, saturateWord(Breg(s) * Areg(s)))

\* Fixed point: the product of two fractions, rounded to the nearest even.
fmul_(s) ==
  LET product == Abs(Areg(s) * Breg(s))
      half    == Sign \div 2
      whole   == product \div Sign
      rest    == product % Sign
      rounded == IF rest > half \/ (rest = half /\ whole % 2 = 1) THEN whole + 1 ELSE whole
  IN  IF s.a = Sign /\ s.b = Sign THEN Overflow(Binary(s, Undefined))
      ELSE Binary(s, Unsigned(IF Areg(s) * Breg(s) < 0 THEN -rounded ELSE rounded))

------------------------------------------------------------------------------
(* Multiple length *)

\* N_Add twice: the carry out of x + y + carry
Carry(x, y, carry) == (x + carry) \div Base + (Unsigned(x + carry) + y) \div Base

ladd_(s) == LET v == Areg(s) + Breg(s) + (s.c % 2)
            IN  Checked(Push(Pop(Pop(Pop(s))), Unsigned(v)), v)
lsub_(s) == LET v == Breg(s) - Areg(s) - (s.c % 2)
            IN  Checked(Push(Pop(Pop(Pop(s))), Unsigned(v)), v)
lsum_(s) == Double(s, Unsigned(s.a + s.b + (s.c % 2)), Bool(Carry(s.a, s.b, s.c % 2) > 0))
ldiff_(s) ==
  LET taken == Unsigned(s.a + (s.c % 2))
  IN  Double(s, Unsigned(s.b - taken), Bool(taken > s.b \/ s.a + (s.c % 2) >= Base))

\* Mutant: the carry of the middle products keeps the weight of a word.
MiddleUnshifted(middle) == middle \div Base
MiddleCarry(middle) == 2^(W \div 2) * (middle \div Base)

\* Schoolbook multiplication of half words.
lmul_(s) ==
  LET H == 2^(W \div 2)
      al == s.a % H  ah == s.a \div H  bl == s.b % H  bh == s.b \div H
      low1 == al * bl + s.c
      middle == ah * bl + al * bh
      low2 == H * (Unsigned(middle) % H) + Unsigned(low1)
      high == ah * bh + low1 \div Base + MiddleCarry(middle)
                + low2 \div Base + Unsigned(middle) \div H
  IN  Double(s, Unsigned(low2), Unsigned(high))

slmul_(s)  == DoubleOf(s, Areg(s) * Breg(s) + s.c)
sulmul_(s) == DoubleOf(s, Areg(s) * s.b + s.c)

ldiv_(s) ==
  LET dividend == s.c * Base + s.b
  IN  IF s.c < s.a
      THEN Double(s, Unsigned(dividend \div s.a), dividend % s.a)
      ELSE Overflow([s EXCEPT !.c = Undefined])

TwoWords(s) == s.c * Base + s.b
lshl_(s) == IF s.a >= 2 * W THEN Double(s, Undefined, Undefined)
            ELSE DoubleOf(s, (TwoWords(s) * 2^s.a) % Base^2)
lshr_(s) == IF s.a >= 2 * W THEN Double(s, Undefined, Undefined)
            ELSE DoubleOf(s, TwoWords(s) \div 2^s.a)

------------------------------------------------------------------------------
(* Bits and parts of words *)

and_(s) == Binary(s, s.a & s.b)
or_(s)  == Binary(s, s.a | s.b)
xor_(s) == Binary(s, s.a ^^ s.b)
not_(s) == Unary(s, Base - 1 - s.a)
shl_(s) == Binary(s, IF s.a < W THEN Unsigned(s.b * 2^s.a) ELSE 0)
shr_(s) == Binary(s, IF s.a < W THEN s.b \div 2^s.a ELSE 0)

Bit(x, n) == (x \div 2^n) % 2
BitsOf(x) == {n \in 0 .. W - 1 : Bit(x, n) = 1}
reverseWord(x) == MapThenSumSet(LAMBDA n : 2^(W - 1 - n), BitsOf(x))
bitcnt_(s)      == Binary(s, Unsigned(s.b + Cardinality(BitsOf(s.a))))
bitrevword_(s)  == Unary(s, reverseWord(s.a))
bitrevnbits_(s) == Binary(s, IF s.a = 0 THEN 0
                             ELSE IF s.a <= W THEN reverseWord(s.b) \div 2^(W - s.a)
                             ELSE Undefined)

xbword_(s) == Unary(s, Unsigned(SignedField(s.a, W \div 4)))
xsword_(s) == Unary(s, Unsigned(SignedField(s.a, W \div 2)))
xdble_(s)  == Push(Push(Pop(s), IF Areg(s) < 0 THEN Base - 1 ELSE 0), s.a)
xword_(s) ==
  LET mask == s.a
  IN  Binary(s, IF mask \notin {2^n : n \in 0 .. W - 1} THEN Undefined
                ELSE IF mask = Sign THEN s.b
                ELSE IF s.b >= 2 * mask THEN Undefined
                ELSE IF s.b < mask THEN s.b ELSE Unsigned(s.b - 2 * mask))

\* A word has four bytes; addresses count bytes.
bcnt_(s)   == Unary(s, Unsigned(s.a * 4))
bsub_(s)   == Binary(s, Unsigned(s.a + s.b))
ssub_(s)   == Binary(s, Unsigned(s.a + s.b * 2))
wsub_(s)   == Binary(s, Unsigned(s.a + s.b * 4))
wsubdb_(s) == Binary(s, Unsigned(s.a + s.b * 8))
wcnt_(s)   == Push(Unary(s, s.a % 4), Unsigned(Signed(s.a - (s.a % 4)) \div 4))

\* Mutant: the polynomial is subtracted for the bit shifted in.
CrcIncoming(checksum, polynomial, bit) ==
  LET next == Unsigned(checksum * 2) + bit
  IN  IF bit = 1 THEN next ^^ polynomial ELSE next

CrcStep(checksum, polynomial, bit) ==
  LET next == Unsigned(checksum * 2) + bit
  IN  IF checksum >= Sign THEN next ^^ polynomial ELSE next

crcSteps(s, count) ==
  LET checksum[n \in 0 .. count] ==
        IF n = 0 THEN s.b ELSE CrcStep(checksum[n - 1], s.c, Bit(s.a, W - n))
  IN  Binary(s, checksum[count])

crcbyte_(s) == crcSteps(s, W \div 4)
crcword_(s) == crcSteps(s, W)

------------------------------------------------------------------------------
(* Checks *)

cb_(s)  == Check(s, Areg(s) \notin -2^(W \div 4 - 1) .. 2^(W \div 4 - 1) - 1)
cs_(s)  == Check(s, Areg(s) \notin -2^(W \div 2 - 1) .. 2^(W \div 2 - 1) - 1)
cbu_(s) == Check(s, s.a >= 2^(W \div 4))
csu_(s) == Check(s, s.a >= 2^(W \div 2))
csngl_(s) ==
  Check([s EXCEPT !.b = s.c, !.c = Undefined], s.b # IF Areg(s) < 0 THEN Base - 1 ELSE 0)
ccnt1_(s) == Check(Pop(s), s.b = 0 \/ s.b > s.a)
csub0_(s) == Check(Pop(s), s.b >= s.a)
cword_(s) == Check(Pop(s), Breg(s) \notin -s.a .. s.a - 1)
cir_(s)   == Check(Pop(Pop(s)), Signed(s.c) \notin Areg(s) .. Breg(s))
ciru_(s)  == Check(Pop(Pop(s)), s.c \notin s.a .. s.b)
cflerr_(s) == Check(s, (s.a % Sign) \div 2^F = 2^E - 1)

------------------------------------------------------------------------------
(* Floating point of one word: a sign, E bits of exponent, F of fraction *)

unpacksn_(s) ==
  LET fraction == s.a % 2^F
      exponent == (s.a \div 2^F) % 2^E
      infinite == exponent = 2^E - 1
      type == IF infinite THEN (IF fraction = 0 THEN 2 ELSE 3)
              ELSE IF exponent = 0 /\ fraction = 0 THEN 0 ELSE 1
  IN  [s EXCEPT !.a = IF infinite THEN Undefined
                      ELSE fraction * 2^(W - 1 - F) + Sign * Bool(exponent # 0),
                !.b = IF exponent = 0 /\ fraction # 0 THEN 1 ELSE exponent,
                !.c = Unsigned(s.b * 4 + type)]

\* The leading zeros of a number of two words
Zeros(n) == Cardinality({k \in 0 .. 2 * W - 1 : n < 2^k})
norm_(s) ==
  LET n == s.b * Base + s.a
      count == Zeros(n)
      normal == (n * 2^count) % Base^2
  IN  [s EXCEPT !.a = Unsigned(normal), !.b = normal \div Base, !.c = count]

\* Mutant: the bits shifted out of the low word are forgotten.
ForgetSticky(n, shift, low) == n \div 2^shift

\* What is shifted out of the low word still shows in it.
Denormal(n, shift, low) ==
  LET shifted == n \div 2^shift
  IN  (shifted \div Base) * Base + ((shifted % Base) | low)

postnormsn_(s) ==
  LET exponent == Signed(Unsigned(LoadWord(s, Local(s, 0)) - s.c))    \* pw::Temp
      n == Denormal(s.b * Base + s.a, 1 - exponent, s.a)
  IN  IF exponent < -F THEN [s EXCEPT !.a = 0, !.b = 0, !.c = 0]
      ELSE IF exponent <= 0
           THEN [s EXCEPT !.a = Unsigned(n), !.b = n \div Base, !.c = 0]
           ELSE [s EXCEPT !.c = IF exponent < 2^E - 1 THEN exponent ELSE 2^E - 1]

roundEvenShift(n, shift) ==
  LET quotient == n \div 2^shift
      rest == n % 2^shift
      half == 2^(shift - 1)
  IN  IF rest > half \/ (rest = half /\ quotient % 2 = 1) THEN quotient + 1 ELSE quotient

roundsn_(s) ==
  [s EXCEPT !.a = IF Signed(s.c) >= 2^E - 1 THEN Inf
                  ELSE Unsigned(s.c * 2^F + roundEvenShift((s.b % Sign) * Base + s.a, W + E)),
            !.b = Undefined, !.c = Undefined]

------------------------------------------------------------------------------
(* The error flag of the current priority, and halt on error *)

SetError(s)     == [s EXCEPT !.error = TRUE, !.halted = s.haltOnError]
seterr_(s)      == SetError(s)
testerr_(s)     == [Push(s, Bool(~s.error)) EXCEPT !.error = FALSE]
stoperr_(s)     == [s EXCEPT !.stopped = s.error]         \* suspendProcess
sethalterr_(s)  == [s EXCEPT !.haltOnError = TRUE, !.halted = s.error]
clrhalterr_(s)  == [s EXCEPT !.haltOnError = FALSE]
testhalterr_(s) == Push(s, Bool(s.haltOnError))

------------------------------------------------------------------------------
(* One instruction after another *)

WithOperand(op, s, n) ==
  CASE op = "ldc"  -> ldc_(s, n)   [] op = "adc"   -> adc_(s, n)
    [] op = "eqc"  -> eqc_(s, n)   [] op = "ldl"   -> ldl_(s, n)
    [] op = "stl"  -> stl_(s, n)   [] op = "ldlp"  -> ldlp_(s, n)
    [] op = "ldnl" -> ldnl_(s, n)  [] op = "stnl"  -> stnl_(s, n)
    [] op = "ajw"  -> ajw_(s, n)   [] op = "ldnlp" -> ldnlp_(s, n)
    [] op = "call" -> call_(s, n)  [] op = "cj"    -> cj_(s, n)

Integral(op, s) ==
  CASE op = "add"  -> add_(s)   [] op = "sub"   -> sub_(s)   [] op = "mul"    -> mul_(s)
    [] op = "sum"  -> sum_(s)   [] op = "diff"  -> diff_(s)  [] op = "prod"   -> prod_(s)
    [] op = "div"  -> div_(s)   [] op = "rem"   -> rem_(s)   [] op = "fmul"   -> fmul_(s)
    [] op = "satadd" -> satadd_(s) [] op = "satsub" -> satsub_(s) [] op = "satmul" -> satmul_(s)
    [] op = "ladd" -> ladd_(s)  [] op = "lsub"  -> lsub_(s)  [] op = "lsum"   -> lsum_(s)
    [] op = "ldiff" -> ldiff_(s) [] op = "lmul" -> lmul_(s)  [] op = "slmul"  -> slmul_(s)
    [] op = "sulmul" -> sulmul_(s) [] op = "ldiv" -> ldiv_(s) [] op = "lshl"  -> lshl_(s)
    [] op = "lshr" -> lshr_(s)  [] op = "gt"    -> gt_(s)    [] op = "gtu"    -> gtu_(s)

Logical(op, s) ==
  CASE op = "and"  -> and_(s)   [] op = "or"    -> or_(s)    [] op = "xor"    -> xor_(s)
    [] op = "not"  -> not_(s)   [] op = "shl"   -> shl_(s)   [] op = "shr"    -> shr_(s)
    [] op = "bitcnt" -> bitcnt_(s) [] op = "bitrevword" -> bitrevword_(s)
    [] op = "bitrevnbits" -> bitrevnbits_(s)  [] op = "xbword" -> xbword_(s)
    [] op = "xsword" -> xsword_(s) [] op = "xdble" -> xdble_(s) [] op = "xword" -> xword_(s)
    [] op = "bcnt" -> bcnt_(s)  [] op = "bsub"  -> bsub_(s)  [] op = "ssub"   -> ssub_(s)
    [] op = "wsub" -> wsub_(s)  [] op = "wsubdb" -> wsubdb_(s) [] op = "wcnt" -> wcnt_(s)
    [] op = "crcbyte" -> crcbyte_(s) [] op = "crcword" -> crcword_(s)

Checking(op, s) ==
  CASE op = "cb"   -> cb_(s)    [] op = "cs"    -> cs_(s)    [] op = "cbu"    -> cbu_(s)
    [] op = "csu"  -> csu_(s)   [] op = "csngl" -> csngl_(s) [] op = "ccnt1"  -> ccnt1_(s)
    [] op = "csub0" -> csub0_(s) [] op = "cword" -> cword_(s) [] op = "cir"   -> cir_(s)
    [] op = "ciru" -> ciru_(s)  [] op = "cflerr" -> cflerr_(s)
    [] op = "seterr" -> seterr_(s) [] op = "testerr" -> testerr_(s)
    [] op = "stoperr" -> stoperr_(s) [] op = "sethalterr" -> sethalterr_(s)
    [] op = "clrhalterr" -> clrhalterr_(s) [] op = "testhalterr" -> testhalterr_(s)

Other(op, s) ==
  CASE op = "rev"  -> rev_(s)   [] op = "dup"   -> dup_(s)   [] op = "pop"    -> pop_(s)
    [] op = "mint" -> mint_(s)  [] op = "gajw"  -> gajw_(s)  [] op = "gcall"  -> gcall_(s)
    [] op = "ret"  -> ret_(s)   [] op = "lend"  -> lend_(s)
    [] op = "norm" -> norm_(s)  [] op = "unpacksn" -> unpacksn_(s)
    [] op = "postnormsn" -> postnormsn_(s)  [] op = "roundsn" -> roundsn_(s)

Operands == {"ldc", "adc", "eqc", "ldl", "stl", "ldlp", "ldnl", "stnl", "ajw", "ldnlp", "call", "cj"}
Integrals == {"add", "sub", "mul", "sum", "diff", "prod", "div", "rem", "fmul", "satadd",
              "satsub", "satmul", "ladd", "lsub", "lsum", "ldiff", "lmul", "slmul", "sulmul",
              "ldiv", "lshl", "lshr", "gt", "gtu"}
Logicals == {"and", "or", "xor", "not", "shl", "shr", "bitcnt", "bitrevword", "bitrevnbits",
             "xbword", "xsword", "xdble", "xword", "bcnt", "bsub", "ssub", "wsub", "wsubdb",
             "wcnt", "crcbyte", "crcword"}
Checkers == {"cb", "cs", "cbu", "csu", "csngl", "ccnt1", "csub0", "cword", "cir", "ciru",
             "cflerr", "seterr", "testerr", "stoperr", "sethalterr", "clrhalterr", "testhalterr"}

Perform(op, s, n) ==
  IF op \in Operands THEN WithOperand(op, s, n)
  ELSE IF op \in Integrals THEN Integral(op, s)
  ELSE IF op \in Logicals THEN Logical(op, s)
  ELSE IF op \in Checkers THEN Checking(op, s)
  ELSE Other(op, s)

CalcInit ==
  \E p \in Calculations : \E s \in p.starts :
    /\ program = [name |-> p.name, code |-> p.code]
    /\ initial = s
    /\ r = s

CalcNext ==
  /\ r.iptr \in DOMAIN program.code
  /\ ~r.halted /\ ~r.stopped /\ r.trap = "none"
  /\ LET instruction == program.code[r.iptr]
     IN  r' = Perform(instruction[1], [r EXCEPT !.iptr = @ + 1], instruction[2])
  /\ UNCHANGED <<program, initial>>

CalcSpec == CalcInit /\ [][CalcNext]_calcVars
==============================================================================
