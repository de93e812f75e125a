---------------------------- MODULE MCArithmetic -----------------------------
(***************************************************************************)
(* Programs for the arithmetic, and what each of them computes.            *)
(***************************************************************************)
EXTENDS Arithmetic

\* The edges of a word of eight bits, few and many.
Few  == {0, 1, 2, 127, 128, 129, 254, 255}
Many == Few \union {3, 5, 7, 8, 15, 16, 17, 64, 85, 120}

Registers(a, b, c) ==
  [a |-> a, b |-> b, c |-> c, wptr |-> 32, iptr |-> 1, mem |-> [i \in 0 .. 15 |-> 0],
   mask |-> {}, error |-> FALSE, haltOnError |-> FALSE, halted |-> FALSE,
   stopped |-> FALSE, trap |-> "none"]
\* A workspace of four words
Workspace(w, x, y, z) ==
  [Registers(0, 0, 0) EXCEPT !.mem = [@ EXCEPT ![8] = w, ![9] = x, ![10] = y, ![11] = z]]

Op(name) == <<name, 0>>
Calculation(name, code, starts) == [name |-> name, code |-> code, starts |-> starts]

------------------------------------------------------------------------------
(* One instruction *)

Unaries  == {"not", "bitrevword", "xbword", "xsword", "xdble", "bcnt", "wcnt", "cb", "cs",
             "cbu", "csu", "cflerr", "dup", "pop", "mint", "unpacksn", "adc", "eqc", "ldnlp", "ldc"}
Binaries == {"add", "sub", "mul", "sum", "diff", "prod", "div", "rem", "fmul", "satadd", "satsub",
             "satmul", "gt", "gtu", "and", "or", "xor", "shl", "shr", "bitcnt", "bitrevnbits",
             "xword", "bsub", "ssub", "wsub", "wsubdb", "csngl", "ccnt1", "csub0", "cword", "rev",
             "norm"}
Ternaries == {"ladd", "lsub", "lsum", "ldiff", "lmul", "slmul", "sulmul", "ldiv", "lshl",
              "lshr", "cir", "ciru", "crcbyte"}

Singles ==
  {Calculation(op, << <<op, 5>> >>, {Registers(x, 0, 0) : x \in Word}) : op \in Unaries}
  \union {Calculation(op, <<Op(op)>>, {Registers(x, y, 0) : x, y \in Many}) : op \in Binaries}
  \union {Calculation(op, <<Op(op)>>, {Registers(x, y, z) : x, y, z \in Few \union {15, 16, 17}})
            : op \in Ternaries}

------------------------------------------------------------------------------
(* Several words: the numbers are at 0 and 1, and at 2 and 3, low word first *)

WordPairs == {Workspace(w, x, y, z) : w, x, y, z \in Few}
Long(low, high) ==
  << <<"ldc", 0>>, <<"ldl", 0>>, <<"ldl", 2>>, Op(low), <<"stl", 0>>,
     <<"ldl", 1>>, <<"ldl", 3>>, Op(high), <<"stl", 1>> >>
\* The number at 0 and 1 times the word at 2, in three words at 0, 1 and 2
LongMultiply ==
  << <<"ldc", 0>>, <<"ldl", 0>>, <<"ldl", 2>>, Op("lmul"), <<"stl", 0>>,
     <<"ldl", 1>>, <<"ldl", 2>>, Op("lmul"), <<"stl", 1>>, <<"stl", 2>> >>
\* The number at 0 and 1 divided by the word at 2, with the remainder at 3
LongDivide ==
  << <<"ldc", 0>>, <<"ldl", 1>>, <<"ldl", 2>>, Op("ldiv"), <<"stl", 1>>,
     <<"ldl", 0>>, <<"ldl", 2>>, Op("ldiv"), <<"stl", 0>>, <<"stl", 3>> >>

\* The checksum at 1 over the word at 0 with the polynomial at 2, by bytes.
ChecksumByte == << <<"ldl", 2>>, <<"ldl", 1>>, <<"ldl", 0>>, Op("crcbyte"), <<"stl", 1>> >>
NextByte     == << <<"ldl", 0>>, <<"ldc", W \div 4>>, Op("shl"), <<"stl", 0>> >>
ByBytes == ChecksumByte \o NextByte \o ChecksumByte \o NextByte \o
           ChecksumByte \o NextByte \o ChecksumByte

\* The indexes of the loop whose index is at 0 and count at 1, added up at 2
Loop ==
  << <<"ldl", 2>>, <<"ldl", 0>>, Op("sum"), <<"stl", 2>>,
     <<"ldlp", 0>>, <<"ldc", 7>>, Op("lend") >>
\* f(x, y) = x - y in a workspace of its own, called for (0, 1) and (1, 0)
Calls ==
  << <<"ldl", 1>>, <<"ldl", 0>>, <<"call", 7>>, <<"stl", 2>>,
     <<"ldl", 0>>, <<"ldl", 1>>, <<"call", 3>>, <<"stl", 3>>,
     <<"ldc", 0>>, <<"cj", 4>>,
     <<"ldl", 1>>, <<"ldl", 2>>, Op("diff"), Op("ret") >>
\* To another workspace and a routine, and back by way of what they return
Jumps ==
  << <<"ldc", 48>>, Op("gajw"), <<"stl", 3>>, <<"ldc", 10>>, Op("gcall"),
     <<"ldl", 3>>, Op("gajw"), <<"ldc", 0>>, <<"cj", 3>>,
     <<"stl", 2>>, <<"ldl", 2>>, Op("gcall") >>
\* Through a pointer: the word at 0 is copied to 1, and to 2
Pointers ==
  << <<"ldl", 0>>, <<"ldlp", 0>>, <<"stnl", 1>>, <<"ldlp", 0>>, <<"ldnlp", 1>>,
     <<"ldnl", 0>>, <<"ajw", -2>>, <<"stl", 4>>, <<"ajw", 2>> >>

Multiples ==
  {Calculation("add long", Long("lsum", "ladd"), WordPairs),
   Calculation("subtract long", Long("ldiff", "lsub"), WordPairs),
   Calculation("multiply long", LongMultiply, WordPairs),
   Calculation("divide long", LongDivide, WordPairs),
   Calculation("by bytes", ByBytes, {Workspace(w, x, y, 0) : w, x, y \in Few \union {85, 120}}),
   Calculation("loop", Loop, {Workspace(w, x, 0, 0) : w \in {0, 254}, x \in {0, 1, 2, 5, 255}}),
   Calculation("calls", Calls, {Workspace(w, x, 0, 0) : w, x \in Few}),
   Calculation("jumps", Jumps, {Workspace(0, 0, 0, 0)}),
   Calculation("pointers", Pointers, {Workspace(w, 0, 0, 0) : w \in Few})}

------------------------------------------------------------------------------
(* Floats *)

\* The number at 1 and 2, low word first, times 2^(exponent at 0)
Pack == << <<"ldl", 2>>, <<"ldl", 1>>, Op("norm"), Op("postnormsn"), Op("roundsn"), <<"stl", 3>> >>
\* The float at 0 taken to its parts and put together again
Repack == << <<"ldl", 0>>, Op("unpacksn"), Op("rev"), <<"stl", 0>>, <<"ldc", 0>> >> \o
          << Op("norm"), Op("postnormsn"), Op("roundsn"), <<"stl", 3>> >>

Exponents == (0 .. 9) \union {252, 253, 255}
Floats ==
  {Calculation("pack", Pack, {Workspace(e, low, high, 0) :
                            e \in Exponents, low \in Few, high \in Word}),
   Calculation("repack", Repack, {Workspace(x, 0, 0, x) : x \in Word})}

------------------------------------------------------------------------------
(* Errors: any three instructions that use the error flags, and traps *)

FlagOps == {"seterr", "testerr", "stoperr", "sethalterr", "clrhalterr", "testhalterr", "add", "cbu"}
Errors ==
  {Calculation("errors", <<Op(x), Op(y), Op(z)>>,
           {[Registers(200, 200, 3) EXCEPT !.mask = mask] :
              mask \in SUBSET {"INTEGER_OVF", "INTEGER_ERR"}}) : x, y, z \in FlagOps}

All == Singles \union Multiples \union Floats \union Errors

------------------------------------------------------------------------------
Done == r.iptr = Len(program.code) + 1
Is(name) == Done /\ program.name = name
In(names) == Done /\ program.name \in names
Erred == r.error \/ r.trap # "none"

A == Signed(initial.a)
B == Signed(initial.b)

\* The integer an instruction with a result of one word is to compute.
Intended ==
  CASE program.name = "add"  -> B + A
    [] program.name = "sub"  -> B - A
    [] program.name = "mul"  -> B * A
    [] program.name = "adc"  -> A + 5
    [] program.name = "ladd" -> B + A + (initial.c % 2)
    [] program.name = "lsub" -> B - A - (initial.c % 2)

\* q is x to the nearest multiple of d, and even between two.
Nearest(q, d, x) ==
  LET twice == 2 * Abs(q * d - x) IN twice < d \/ (twice = d /\ q % 2 = 0)

\* The product of polynomials over two elements
Carryless(p, q) ==
  FoldSet(LAMBDA k, sum : sum ^^ (p * 2^k), 0, {k \in 0 .. W : Bit(q, k) = 1})

\* A processor that halts on errors never goes on with the error flag set.
HaltsOnError == r.haltOnError /\ r.error => r.halted

(***************************************************************************)
(* A single instruction computes the integer it is meant to, or raises an  *)
(* error, which it does only where the integer does not fit.               *)
(***************************************************************************)
ExactOrError ==
  /\ HaltsOnError
  /\ In({"add", "sub", "mul", "adc", "ladd", "lsub"}) =>
       /\ Erred <=> Intended \notin Integer
       /\ (Signed(r.a) - Intended) % Base = 0
  /\ In({"div", "rem"}) => (Erred => A = 0 \/ (A = -1 /\ B = -Sign))
  /\ Is("div") /\ ~Erred =>
       /\ Abs(B) - Abs(A * Signed(r.a)) \in 0 .. Abs(A) - 1
       /\ r.a # 0 => ((Signed(r.a) < 0) <=> ((A < 0) # (B < 0)))
  /\ Is("rem") /\ ~Erred =>
       /\ (B - Signed(r.a)) % Abs(A) = 0 /\ Abs(Signed(r.a)) < Abs(A)
       /\ r.a # 0 => (Signed(r.a) < 0 <=> B < 0)
  /\ Is("fmul") => IF Erred THEN A = -Sign /\ B = -Sign ELSE Nearest(Signed(r.a), Sign, A * B)
  /\ Is("lsum")   => r.a + Base * r.b = initial.a + initial.b + (initial.c % 2)
  /\ Is("ldiff")  => r.a - Base * r.b = initial.b - initial.a - (initial.c % 2)
  /\ Is("lmul")   => r.a + Base * r.b = initial.a * initial.b + initial.c
  /\ Is("slmul")  => SignedField(r.a + Base * r.b, 2 * W) = A * B + initial.c
  /\ Is("sulmul") => SignedField(r.a + Base * r.b, 2 * W) = A * initial.b + initial.c
  /\ Is("csngl")  => (Erred <=> SignedField(initial.a + Base * initial.b, 2 * W) \notin Integer)
  /\ Is("xword") /\ initial.a \in {2^k : k \in 0 .. W - 2} /\ initial.b < 2 * initial.a =>
       r.a = Unsigned(SignedField(initial.b, 1 + CHOOSE k \in 0 .. W : 2^k = initial.a))
  /\ Is("crcbyte") =>
       \E q \in 0 .. 2^(W \div 4) - 1 :
         Carryless(Base + initial.c, q) ^^ r.a
           = (initial.b * 2^(W \div 4)) ^^ (initial.a \div 2^(W - W \div 4))

(***************************************************************************)
(* A program that carries from one word to the next computes with numbers  *)
(* of several words; loops and calls go round and come back.               *)
(***************************************************************************)
Before(n) == initial.mem[8 + n]
Now(n)  == r.mem[8 + n]
ProgramsCompute ==
  /\ In({"add long", "subtract long"}) =>
       LET x == SignedField(Before(0) + Base * Before(1), 2 * W)
           y == SignedField(Before(2) + Base * Before(3), 2 * W)
           v == IF program.name = "add long" THEN x + y ELSE x - y
           z == SignedField(Now(0) + Base * Now(1), 2 * W)
       IN  IF Erred THEN v \notin -Base * Sign .. Base * Sign - 1 ELSE z = v
  /\ Is("multiply long") =>
       Now(0) + Base * (Now(1) + Base * Now(2))
         = (Before(0) + Base * Before(1)) * Before(2)
  /\ Is("divide long") =>
       IF Erred THEN Before(2) = 0
       ELSE /\ Now(3) < Before(2)
            /\ (Now(0) + Base * Now(1)) * Before(2) + Now(3)
                 = Before(0) + Base * Before(1)
  /\ Is("by bytes") => Now(1) = crcword_(Registers(Before(0), Before(1), Before(2))).a
  /\ Is("loop") =>
       LET n == IF Signed(Before(1)) > 1 THEN Before(1) ELSE 1
       IN  Now(2) = Unsigned(n * Before(0) + (n * (n - 1)) \div 2)
  /\ Is("calls") => /\ Now(2) = Unsigned(Before(0) - Before(1))
                    /\ Now(3) = Unsigned(Before(1) - Before(0))
  /\ Is("pointers") => Now(1) = Before(0) /\ Now(2) = Before(0)
  /\ In({"loop", "calls", "jumps", "pointers"}) => r.wptr = initial.wptr

(***************************************************************************)
(* norm, postnormsn and roundsn give the float nearest to a number of two  *)
(* words, the even one between two, a denormal or an infinity included;    *)
(* and a finite float taken apart is put together again.  That is a        *)
(* property of the code's unpacksn, which inserts the leading bit that     *)
(* norm looks for and that docs/instruction-status.md:262 promises; line   *)
(* 335 there says that the bit is not inserted and that a NaN keeps its    *)
(* payload, of which the code does neither.                                *)
(***************************************************************************)
Magnitude(x) == IF x < 2^F THEN 2 * x ELSE (2^F + (x % 2^F)) * 2^(x \div 2^F)
RoundsToNearest ==
  /\ Is("pack") =>
       LET e == Signed(Before(0))
           exact == (Before(1) + Base * Before(2)) * 2^(e + 4)
           Gap(x) == Magnitude(x) * 2^(2 * W - 1 - F + 4)
           x == Now(3)
           below == Gap(x) + Gap(x - 1)  above == Gap(x) + Gap(x + 1)
       IN  /\ x <= Inf
           /\ x # 0   => 2 * exact > below \/ (2 * exact = below /\ x % 2 = 0)
           /\ x # Inf => 2 * exact < above \/ (2 * exact = above /\ x % 2 = 0)
  /\ Is("repack") /\ Before(3) % Sign < Inf => Now(3) = Before(3) % Sign
==============================================================================
