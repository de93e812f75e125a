----------------------------- MODULE MachineProofs -----------------------------
(***************************************************************************)
(* What holds of the devices and the main program: of the flash and the    *)
(* interrupt controller for any size of the chip, any bus cycles, levels   *)
(* and trigger modes; how the main program counts instructions, for any    *)
(* intervals and limits; what it writes to the log of a batch run, for a   *)
(* run of any length and chunks of any size; and of the video decoder, for *)
(* any streams and any size of its ring and its buffer.                    *)
(***************************************************************************)
EXTENDS AmdFlash, InterruptController, VideoDecoder, FreeRun, BatchLog, NumberLemmas, SequenceTheorems

-----------------------------------------------------------------------------
(* The flash *)

FlashState ==
  [array : [FlashWord -> SUBSET FlashBit], cycle : 0 .. 2, erasePrefix : BOOLEAN,
   programNext : BOOLEAN, autoselect : BOOLEAN, recent : Seq(FlashCycles)]

\* What the automaton remembers is on the bus: its unlock cycles were the last
\* ones, and a program command is a whole sequence just gone by.
FlashShape(s) ==
  LET q == s.recent
  IN  /\ s \in FlashState /\ Len(q) <= 3
      /\ s.cycle = 1 => Len(q) >= 1 /\ Unlocks(0, q[Len(q)])
      /\ s.cycle = 2 => Len(q) >= 2 /\ Unlocks(0, q[Len(q) - 1]) /\ Unlocks(1, q[Len(q)])
      /\ s.programNext =>
           s.cycle = 0 /\ Len(q) = 3 /\ Unlocking(q) /\ q[3].command = "a0"

FlashInv == FlashShape(flash)

\* The history ends with the new cycle, after the ones before it.
LEMMA LastThreeOf ==
  ASSUME NEW q \in Seq(FlashCycles), NEW c \in FlashCycles, Len(q) <= 3
  PROVE  LET r == LastThree(Append(q, c))
         IN  /\ r \in Seq(FlashCycles)
             /\ Len(r) = IF Len(q) = 3 THEN 3 ELSE Len(q) + 1
             /\ r[Len(r)] = c
             /\ Len(q) >= 1 => r[Len(r) - 1] = q[Len(q)]
             /\ Len(q) >= 2 => r[Len(r) - 2] = q[Len(q) - 1]
<1> DEFINE a == Append(q, c)
           Ends(r) == /\ r \in Seq(FlashCycles)
                      /\ Len(r) = IF Len(q) = 3 THEN 3 ELSE Len(q) + 1
                      /\ r[Len(r)] = c
                      /\ Len(q) >= 1 => r[Len(r) - 1] = q[Len(q)]
                      /\ Len(q) >= 2 => r[Len(r) - 2] = q[Len(q) - 1]
<1>1. /\ a \in Seq(FlashCycles) /\ Len(a) = Len(q) + 1 /\ a # << >>
      /\ a[Len(q) + 1] = c /\ \A i \in 1 .. Len(q) : a[i] = q[i]
  OBVIOUS
<1>2. Len(q) \in Nat
  OBVIOUS
<1> HIDE DEF a
<1>3. ASSUME Len(q) = 3 PROVE Ends(LastThree(a))
  <2> DEFINE t == Tail(a)
  <2>1. LastThree(a) = t
    BY <1>1, <1>3 DEF LastThree
  <2>2. /\ t \in Seq(FlashCycles) /\ Len(t) = Len(a) - 1
        /\ \A i \in 1 .. Len(t) : t[i] = a[i + 1]
    BY <1>1, HeadTailProperties
  <2> HIDE DEF t
  <2>3. Len(t) = 3
    BY <1>1, <1>3, <2>2
  <2>4. t[3] = a[4] /\ t[2] = a[3] /\ t[1] = a[2]
    <3>1. \A i \in 1 .. 3 : t[i] = a[i + 1]
      BY <2>2, <2>3
    <3>2. 3 \in 1 .. 3 /\ 2 \in 1 .. 3 /\ 1 \in 1 .. 3 /\ 3 + 1 = 4 /\ 2 + 1 = 3 /\ 1 + 1 = 2
      OBVIOUS
    <3> QED
      BY <3>1, <3>2, Zenon
  <2>5. t[3] = c /\ t[2] = q[3] /\ t[1] = q[2]
    BY <1>1, <1>3, <2>4
  <2>6. Len(t) - 1 = 2 /\ Len(t) - 2 = 1 /\ Len(q) - 1 = 2
    BY <1>3, <2>3
  <2> QED
    BY <1>3, <2>1, <2>2, <2>3, <2>5, <2>6, Zenon
<1>4. ASSUME Len(q) < 3 PROVE Ends(LastThree(a))
  <2>1. LastThree(a) = a
    <3>2. Len(q) + 1 <= 3 /\ Len(a) = Len(q) + 1
      BY <1>1, <1>2, <1>4
    <3>3. ~(Len(a) > 3)
      BY <1>2, <3>2
    <3> QED
      BY <3>3 DEF LastThree
  <2>2. /\ a[Len(a)] = c
        /\ Len(q) >= 1 => a[Len(a) - 1] = q[Len(q)]
        /\ Len(q) >= 2 => a[Len(a) - 2] = q[Len(q) - 1]
    <3>1. Len(a) = Len(q) + 1 /\ Len(a) - 1 = Len(q) /\ Len(a) - 2 = Len(q) - 1
      BY <1>1, <1>2
    <3>2. /\ Len(q) >= 1 => Len(q) \in 1 .. Len(q)
          /\ Len(q) >= 2 => Len(q) - 1 \in 1 .. Len(q)
      BY <1>2
    <3> QED
      BY <1>1, <3>1, <3>2, Zenon
  <2> QED
    BY <1>1, <1>2, <1>4, <2>1, <2>2
<1>5. Ends(LastThree(a))
  <2>1. \A n \in Nat : n <= 3 => n = 3 \/ n < 3
    OBVIOUS
  <2> QED
    BY <1>2, <1>3, <1>4, <2>1, Zenon
<1> QED
  BY <1>5 DEF a

\* A cycle leaves the shape of the automaton as it was.
LEMMA FlashWriteTypes ==
  ASSUME NEW s \in FlashState, NEW c \in FlashCycles
  PROVE  flashWrite(s, c) \in FlashState /\ flashWrite(s, c).recent = s.recent
<1> DEFINE Fine(u) == u \in FlashState /\ u.recent = s.recent
           t == [s EXCEPT !.cycle = 0]
           u == [t EXCEPT !.erasePrefix = FALSE]
           sector == {w \in FlashWord : SectorOf[w] = SectorOf[c.word]}
<1>1. c.word \in FlashWord /\ c.bits \subseteq FlashBit
  BY FlashAssumption
<1>2. Fine(s)
  OBVIOUS
<1>3. ASSUME NEW v, Fine(v)
      PROVE  /\ \A n \in 0 .. 2 : Fine([v EXCEPT !.cycle = n])
             /\ \A b \in BOOLEAN : Fine([v EXCEPT !.erasePrefix = b])
             /\ \A b \in BOOLEAN : Fine([v EXCEPT !.programNext = b])
             /\ \A b \in BOOLEAN : Fine([v EXCEPT !.autoselect = b])
             /\ \A f \in [FlashWord -> SUBSET FlashBit] : Fine([v EXCEPT !.array = f])
  BY <1>3 DEF FlashState
<1>4. ASSUME NEW v, Fine(v), NEW words, NEW value \in [FlashWord -> SUBSET FlashBit]
      PROVE  Fine(StoreWords(v, words, value))
  <2> DEFINE f == [w \in FlashWord |-> IF w \in words THEN value[w] ELSE v.array[w]]
  <2>1. f \in [FlashWord -> SUBSET FlashBit]
    BY <1>4 DEF FlashState
  <2>2. StoreWords(v, words, value) \in {v, [v EXCEPT !.array = f]}
    BY DEF StoreWords
  <2> HIDE DEF f, Fine
  <2>3. Fine([v EXCEPT !.array = f])
    BY <1>3, <1>4, <2>1, Zenon
  <2> QED
    BY <1>4, <2>2, <2>3, Zenon
<1>5. Ones \in [FlashWord -> SUBSET FlashBit]
  BY DEF Ones
<1> HIDE DEF Fine
<1>6. Fine(t) /\ Fine(u)
  <2>1. 0 \in 0 .. 2
    OBVIOUS
  <2>2. Fine(t)
    BY <1>2, <1>3, <2>1, Zenon
  <2> QED
    BY <1>3, <2>2, Zenon
<1> HIDE DEF t, u
<1>7. CASE s.programNext
  <2> DEFINE kept == [w \in FlashWord |-> s.array[w] \intersect c.bits]
  <2>1. kept \in [FlashWord -> SUBSET FlashBit]
    BY <1>1
  <2>2. Fine([s EXCEPT !.programNext = FALSE])
    BY <1>2, <1>3
  <2>3. flashWrite(s, c) = StoreWords([s EXCEPT !.programNext = FALSE], {c.word}, kept)
    BY <1>7 DEF flashWrite, Program
  <2> HIDE DEF kept
  <2>4. Fine(flashWrite(s, c))
    BY <1>4, <2>1, <2>2, <2>3
  <2> QED
    BY <2>4 DEF Fine
<1>8. CASE ~s.programNext /\ c.command = "f0"
  <2>1. flashWrite(s, c) = [u EXCEPT !.autoselect = FALSE]
    BY <1>8 DEF flashWrite, Reset, t, u
  <2>2. Fine(flashWrite(s, c))
    BY <1>3, <1>6, <2>1
  <2> QED
    BY <2>2 DEF Fine
<1>9. CASE ~s.programNext /\ c.command # "f0" /\ s.cycle = 2
  <2>1. flashWrite(s, c) = Command(s, c)
    BY <1>9 DEF flashWrite
  <2>2. Command(s, c) \in {t, u, StoreWords(u, FlashWord, Ones), StoreWords(u, sector, Ones),
                           [t EXCEPT !.autoselect = TRUE], [t EXCEPT !.programNext = TRUE],
                           [t EXCEPT !.erasePrefix = TRUE]}
    BY DEF Command, t, u
  <2>3. Fine(StoreWords(u, FlashWord, Ones)) /\ Fine(StoreWords(u, sector, Ones))
    BY <1>4, <1>5, <1>6
  <2>4. Fine(flashWrite(s, c))
    BY ZenonT(40), <1>3, <1>6, <2>1, <2>2, <2>3
  <2> QED
    BY <2>4 DEF Fine
<1>10. CASE ~s.programNext /\ c.command # "f0" /\ s.cycle # 2
  <2>1. flashWrite(s, c) \in {[s EXCEPT !.cycle = s.cycle + 1], t}
    BY <1>10 DEF flashWrite, BeginsAnew, t
  <2>2. s.cycle + 1 \in 0 .. 2
    BY <1>10 DEF FlashState
  <2>3. Fine([s EXCEPT !.cycle = s.cycle + 1])
    BY <1>2, <1>3, <2>2, Zenon
  <2>4. Fine(flashWrite(s, c))
    BY <1>6, <2>1, <2>3
  <2> QED
    BY <2>4 DEF Fine
<1> QED
  BY <1>7, <1>8, <1>9, <1>10

\* What the automaton goes on to is what the cycle was.
LEMMA FlashWriteTells ==
  ASSUME NEW s \in FlashState, NEW c \in FlashCycles, s.programNext => s.cycle = 0,
         NEW w, w = flashWrite(s, c)
  PROVE  /\ w.cycle = 1 => Unlocks(0, c)
         /\ w.cycle = 2 => s.cycle = 1 /\ Unlocks(1, c)
         /\ w.programNext => w.cycle = 0 /\ s.cycle = 2 /\ c.command = "a0"
<1>1. CASE s.programNext
  <2>1. w.cycle = 0 /\ ~w.programNext
    BY <1>1 DEF flashWrite, Program, StoreWords, FlashState
  <2> QED
    BY <2>1
<1>2. CASE ~s.programNext /\ c.command = "f0"
  <2>1. w.cycle = 0 /\ ~w.programNext
    BY <1>2 DEF flashWrite, Reset, FlashState
  <2> QED
    BY <2>1
<1>3. CASE ~s.programNext /\ c.command # "f0" /\ s.cycle = 2
  <2>1. w = Command(s, c)
    BY <1>3 DEF flashWrite
  <2>2. w.cycle = 0 /\ (w.programNext => c.command = "a0")
    BY <1>3, <2>1 DEF Command, StoreWords, FlashState
  <2> QED
    BY <1>3, <2>2
<1>4. CASE ~s.programNext /\ c.command # "f0" /\ s.cycle # 2
  <2>1. w = IF Unlocks(s.cycle, c) THEN [s EXCEPT !.cycle = @ + 1] ELSE BeginsAnew(s)
    BY <1>4 DEF flashWrite
  <2>2. CASE Unlocks(s.cycle, c)
    <3>1. w.cycle = s.cycle + 1 /\ ~w.programNext
      BY <1>4, <2>1, <2>2 DEF FlashState
    <3>2. s.cycle \in 0 .. 1
      BY <1>4 DEF FlashState
    <3> QED
      BY <2>2, <3>1, <3>2
  <2>3. CASE ~Unlocks(s.cycle, c)
    <3>1. w.cycle = 0 /\ ~w.programNext
      BY <1>4, <2>1, <2>3 DEF BeginsAnew, FlashState
    <3> QED
      BY <3>1
  <2> QED
    BY <2>2, <2>3
<1> QED
  BY <1>1, <1>2, <1>3, <1>4

\* Which words a cycle changes.
LEMMA FlashWriteStores ==
  ASSUME NEW s \in FlashState, NEW c \in FlashCycles, NEW x \in FlashWord,
         flashWrite(s, c).array[x] # s.array[x]
  PROVE  \/ /\ s.programNext /\ x = c.word
            /\ flashWrite(s, c).array[x] \subseteq s.array[x]
         \/ /\ ~s.programNext /\ s.cycle = 2 /\ c.command \in {"10", "30"}
            /\ flashWrite(s, c).array[x] = FlashBit
            /\ c.command = "30" => SectorOf[x] = SectorOf[c.word]
<1>1. CASE s.programNext
  BY <1>1 DEF flashWrite, Program, StoreWords, FlashState
<1>2. CASE ~s.programNext /\ c.command = "f0"
  BY <1>2 DEF flashWrite, Reset, FlashState
<1>3. CASE ~s.programNext /\ c.command # "f0" /\ s.cycle = 2
  <2>1. flashWrite(s, c) = Command(s, c)
    BY <1>3 DEF flashWrite
  <2>2. Command(s, c).array[x] # s.array[x]
    BY <2>1
  <2>3. /\ c.command \in {"10", "30"} /\ Command(s, c).array[x] = FlashBit
        /\ c.command = "30" => SectorOf[x] = SectorOf[c.word]
    BY <2>2 DEF Command, StoreWords, Ones, FlashState
  <2> QED
    BY <1>3, <2>1, <2>3
<1>4. CASE ~s.programNext /\ c.command # "f0" /\ s.cycle # 2
  BY <1>4 DEF flashWrite, BeginsAnew, FlashState
<1> QED
  BY <1>1, <1>2, <1>3, <1>4

\* A cycle keeps the shape, and what it changes is what its history allows.
LEMMA FlashStep ==
  ASSUME NEW s, FlashShape(s), NEW c \in FlashCycles, NEW w, w = flashWrite(s, c),
         NEW r, r = LastThree(Append(s.recent, c))
  PROVE  /\ FlashShape([w EXCEPT !.recent = r])
         /\ \A x \in FlashWord : w.array[x] # s.array[x] =>
              \/ /\ s.programNext /\ x = c.word /\ w.array[x] \subseteq s.array[x]
              \/ /\ ~s.programNext /\ Len(r) = 3 /\ Unlocking(r) /\ r[3] = c
                 /\ c.command \in {"10", "30"} /\ w.array[x] = FlashBit
                 /\ c.command = "30" => SectorOf[x] = SectorOf[c.word]
<1> DEFINE q == s.recent
           u == [w EXCEPT !.recent = r]
<1>1. s \in FlashState /\ q \in Seq(FlashCycles) /\ Len(q) \in Nat /\ Len(q) <= 3
  BY DEF FlashShape, FlashState
<1>2. /\ r \in Seq(FlashCycles) /\ Len(r) <= 3 /\ Len(r) >= 1 /\ r[Len(r)] = c
      /\ Len(q) >= 1 => Len(r) >= 2 /\ r[Len(r) - 1] = q[Len(q)]
      /\ Len(q) >= 2 => Len(r) = 3 /\ r[1] = q[Len(q) - 1] /\ r[2] = q[Len(q)] /\ r[3] = c
  <2>1. /\ r \in Seq(FlashCycles) /\ r[Len(r)] = c
        /\ Len(r) = IF Len(q) = 3 THEN 3 ELSE Len(q) + 1
        /\ Len(q) >= 1 => r[Len(r) - 1] = q[Len(q)]
        /\ Len(q) >= 2 => r[Len(r) - 2] = q[Len(q) - 1]
    BY <1>1, LastThreeOf
  <2>2. \A n, m \in Nat : n <= 3 /\ m = (IF n = 3 THEN 3 ELSE n + 1) =>
          /\ m <= 3 /\ m >= 1 /\ (n >= 1 => m >= 2)
          /\ n >= 2 => m = 3 /\ m - 1 = 2 /\ m - 2 = 1
    OBVIOUS
  <2>3. Len(r) \in Nat
    BY <2>1
  <2> HIDE DEF q
  <2>4. /\ Len(r) <= 3 /\ Len(r) >= 1 /\ (Len(q) >= 1 => Len(r) >= 2)
        /\ Len(q) >= 2 => Len(r) = 3 /\ Len(r) - 1 = 2 /\ Len(r) - 2 = 1
    BY <1>1, <2>1, <2>2, <2>3, Zenon
  <2>5. Len(q) >= 2 => Len(q) >= 1
    BY <1>1
  <2> QED
    BY <2>1, <2>4, <2>5, Zenon
<1>3. w \in FlashState /\ w.recent = q
  BY <1>1, FlashWriteTypes
<1>4. s.programNext => s.cycle = 0
  BY DEF FlashShape
<1>5. /\ w.cycle = 1 => Unlocks(0, c)
      /\ w.cycle = 2 => s.cycle = 1 /\ Unlocks(1, c)
      /\ w.programNext => w.cycle = 0 /\ s.cycle = 2 /\ c.command = "a0"
  BY <1>1, <1>4, FlashWriteTells
<1>6. s.cycle = 1 => Len(q) >= 1 /\ Unlocks(0, q[Len(q)])
  BY DEF FlashShape
<1>7. s.cycle = 2 => Len(r) = 3 /\ Unlocking(r) /\ r[3] = c
  BY <1>2 DEF FlashShape, Unlocking
<1>8. /\ u \in FlashState /\ u.recent = r /\ u.cycle = w.cycle
      /\ u.programNext = w.programNext
  BY <1>2, <1>3 DEF FlashState
<1>9. FlashShape(u)
  <2>1. u.cycle = 2 => Len(r) >= 2 /\ Unlocks(0, r[Len(r) - 1]) /\ Unlocks(1, r[Len(r)])
    BY <1>2, <1>5, <1>6, <1>8
  <2>2. u.cycle = 1 => Len(r) >= 1 /\ Unlocks(0, r[Len(r)])
    BY <1>2, <1>5, <1>8
  <2>3. u.programNext => u.cycle = 0 /\ Len(r) = 3 /\ Unlocking(r) /\ r[3].command = "a0"
    BY <1>5, <1>7, <1>8
  <2> HIDE DEF u
  <2> QED
    BY <1>2, <1>8, <2>1, <2>2, <2>3 DEF FlashShape
<1>10. ASSUME NEW x \in FlashWord, w.array[x] # s.array[x]
       PROVE  \/ /\ s.programNext /\ x = c.word /\ w.array[x] \subseteq s.array[x]
              \/ /\ ~s.programNext /\ Len(r) = 3 /\ Unlocking(r) /\ r[3] = c
                 /\ c.command \in {"10", "30"} /\ w.array[x] = FlashBit
                 /\ c.command = "30" => SectorOf[x] = SectorOf[c.word]
  BY <1>1, <1>7, <1>10, FlashWriteStores
<1> QED
  BY <1>9, <1>10

\* For any chip and any cycles, only whole commands change the array: a word
\* right after its program command and never from 0 to 1, or a sector or the
\* chip to ones at the end of an unlock sequence (AmdFlash.cpp, FlashWrite).
THEOREM FlashCorrect == FlashSpec => ArrayChangesByCommand
<1>1. FlashInit => FlashInv
  BY DEF FlashInit, FlashInv, FlashShape, FlashState
<1> DEFINE Allowed ==
      flash'.array # flash.array =>
       LET last == flash'.recent
           c == last[Len(last)]
           changed == {w \in FlashWord : flash'.array[w] # flash.array[w]}
       IN  \/ /\ Unlocking(flash.recent) /\ Len(flash.recent) = 3
              /\ flash.recent[3].command = "a0"
              /\ changed = {c.word} /\ flash'.array[c.word] \subseteq flash.array[c.word]
           \/ /\ Len(last) = 3 /\ Unlocking(last) /\ c.command \in {"10", "30"}
              /\ \A w \in changed : flash'.array[w] = FlashBit
              /\ c.command = "30" => \A w \in changed : SectorOf[w] = SectorOf[c.word]
<1>2. FlashInv /\ FlashNext => FlashInv' /\ Allowed
  <2> SUFFICES ASSUME FlashInv, FlashNext PROVE FlashInv' /\ Allowed
    OBVIOUS
  <2>1. PICK c \in FlashCycles :
          flash' = [flashWrite(flash, c) EXCEPT !.recent = LastThree(Append(@, c))]
    BY DEF FlashNext, FlashWrite
  <2> DEFINE w == flashWrite(flash, c)
             r == LastThree(Append(flash.recent, c))
             changed == {x \in FlashWord : flash'.array[x] # flash.array[x]}
  <2>2. flash \in FlashState /\ flash.recent \in Seq(FlashCycles) /\ Len(flash.recent) <= 3
    BY DEF FlashInv, FlashShape, FlashState
  <2>3. w \in FlashState /\ w.recent = flash.recent
    BY <2>2, FlashWriteTypes
  <2>4. flash' = [w EXCEPT !.recent = r]
    BY <2>1, <2>3
  <2>5. /\ FlashShape([w EXCEPT !.recent = r])
        /\ \A x \in FlashWord : w.array[x] # flash.array[x] =>
              \/ /\ flash.programNext /\ x = c.word /\ w.array[x] \subseteq flash.array[x]
              \/ /\ ~flash.programNext /\ Len(r) = 3 /\ Unlocking(r) /\ r[3] = c
                 /\ c.command \in {"10", "30"} /\ w.array[x] = FlashBit
                 /\ c.command = "30" => SectorOf[x] = SectorOf[c.word]
    BY FlashStep DEF FlashInv
  <2>6. flash'.recent = r /\ flash'.array = w.array /\ r[Len(r)] = c
    BY <2>2, <2>3, <2>4, LastThreeOf DEF FlashState
  <2>7. FlashInv'
    BY <2>4, <2>5 DEF FlashInv
  <2> HIDE DEF w, r
  <2>8. ASSUME flash'.array # flash.array
        PROVE  \E x \in FlashWord : w.array[x] # flash.array[x]
    BY <2>2, <2>3, <2>6, <2>8 DEF FlashState
  <2>9. CASE flash.programNext
    <3>1. Unlocking(flash.recent) /\ Len(flash.recent) = 3 /\ flash.recent[3].command = "a0"
      BY <2>9 DEF FlashInv, FlashShape
    <3>2. flash'.array # flash.array =>
            changed = {c.word} /\ flash'.array[c.word] \subseteq flash.array[c.word]
      BY <2>5, <2>6, <2>8, <2>9
    <3> QED
      BY <2>6, <2>7, <3>1, <3>2
  <2>10. CASE ~flash.programNext
    <3>1. \A x \in changed : /\ Len(r) = 3 /\ Unlocking(r) /\ c.command \in {"10", "30"}
                             /\ flash'.array[x] = FlashBit
                             /\ c.command = "30" => SectorOf[x] = SectorOf[c.word]
      BY <2>5, <2>6, <2>10
    <3>2. flash'.array # flash.array => changed # {}
      BY <2>6, <2>8
    <3> QED
      BY <2>6, <2>7, <3>1, <3>2
  <2> QED
    BY <2>9, <2>10
<1>3. FlashInv /\ UNCHANGED flash => FlashInv'
  BY DEF FlashInv
<1>4. FlashSpec => []FlashInv
  BY <1>1, <1>2, <1>3, PTL DEF FlashSpec
<1>5. FlashInv /\ [FlashNext]_flash => [Allowed]_flash
  BY <1>2
<1> QED
  BY <1>4, <1>5, PTL DEF FlashSpec, ArrayChangesByCommand

-----------------------------------------------------------------------------
(* The interrupt controller *)

IncState ==
  [lines : SUBSET IrqLevel, previous : SUBSET IrqLevel, hardware : SUBSET IrqLevel,
   software : SUBSET IrqLevel, mask : SUBSET IrqLevel, global : BOOLEAN,
   exec : SUBSET IrqLevel, nest : Seq(IrqLevel), accepts : BOOLEAN,
   raised : SUBSET IrqLevel, edges : Nat, wroteExec : BOOLEAN]

Increasing(n) == \A i, j \in DOMAIN n : i < j => n[i] < n[j]

\* A level is never remembered as an edge, so that what drops levels keeps edges.
IncShape(s) ==
  /\ s \in IncState
  /\ s.raised \subseteq s.hardware /\ s.raised \intersect Levelled = {}
  /\ ~s.wroteExec => s.exec = {s.nest[i] : i \in DOMAIN s.nest}
  /\ Increasing(s.nest)

IncInv == IncShape(inc)

\* The highest of some levels is one of them.
LEMMA HighestIn ==
  ASSUME NEW S \in SUBSET IrqLevel, S # {}
  PROVE  Highest(S) \in S
<1>1. S \subseteq 0 .. 7
  BY IncAssumption
<1>2. ASSUME NEW k \in 0 .. 7, k \in S, \A y \in 0 .. 7 : y \in S => y <= k
      PROVE  \E x \in S : \A y \in S : y <= x
  BY <1>1, <1>2
<1>3. \E k \in 0 .. 7 : k \in S /\ \A y \in 0 .. 7 : y \in S => y <= k
  <2>1. \A y \in 0 .. 7 : y = 0 \/ y = 1 \/ y = 2 \/ y = 3 \/ y = 4 \/ y = 5 \/ y = 6 \/ y = 7
    OBVIOUS
  <2>2. PICK e \in 0 .. 7 : e \in S
    BY <1>1
  <2> SUFFICES ASSUME \A k \in 0 .. 7 : k \in S => \E y \in 0 .. 7 : y \in S /\ k < y
               PROVE  FALSE
    OBVIOUS
  <2>3. \A y \in 0 .. 7 : y \in S => y # 7
    OBVIOUS
  <2>4. \A y \in 0 .. 7 : y \in S => y # 6
    BY <2>3
  <2>5. \A y \in 0 .. 7 : y \in S => y # 5
    BY <2>3, <2>4
  <2>6. \A y \in 0 .. 7 : y \in S => y # 4
    BY <2>3, <2>4, <2>5
  <2>7. \A y \in 0 .. 7 : y \in S => y # 3
    BY <2>3, <2>4, <2>5, <2>6
  <2>8. \A y \in 0 .. 7 : y \in S => y # 2
    BY <2>3, <2>4, <2>5, <2>6, <2>7
  <2>9. \A y \in 0 .. 7 : y \in S => y # 1
    BY <2>3, <2>4, <2>5, <2>6, <2>7, <2>8
  <2> QED
    BY <2>1, <2>2, <2>3, <2>4, <2>5, <2>6, <2>7, <2>8, <2>9
<1>4. \E x \in S : \A y \in S : y <= x
  BY <1>2, <1>3
<1> QED
  BY <1>4 DEF Highest

\* A poll latches edges beside those it finds.
LEMMA LatchedShape ==
  ASSUME NEW s, IncShape(s)
  PROVE  IncShape(Latched(s))
<1>1. Triggered(s) \subseteq IrqLevel
  BY DEF Triggered
<1>2. Latched(s) \in IncState
  BY <1>1 DEF Latched, IncShape, IncState
<1> QED
  BY <1>2 DEF Latched, IncShape, IncState

\* A level that the processor takes is above those of the handlers under way.
LEMMA AcceptedShape ==
  ASSUME NEW s, IncShape(s), NEW l \in IrqLevel, Takes(s, l)
  PROVE  IncShape(Accepted(s, l))
<1> DEFINE n == s.nest
           m == Append(n, l)
           t == Accepted(s, l)
<1>1. s \in IncState /\ n \in Seq(IrqLevel) /\ Increasing(n)
  BY DEF IncShape, IncState
<1>2. /\ m \in Seq(IrqLevel) /\ Len(m) = Len(n) + 1 /\ Len(n) \in Nat
      /\ m[Len(n) + 1] = l /\ \A i \in 1 .. Len(n) : m[i] = n[i]
      /\ DOMAIN n = 1 .. Len(n) /\ DOMAIN m = 1 .. Len(n) + 1
  BY <1>1
<1>3. \A i \in 1 .. Len(n) : n[i] \in 0 .. 7 /\ n[i] < l
  <2> SUFFICES ASSUME NEW i \in 1 .. Len(n) PROVE n[i] \in 0 .. 7 /\ n[i] < l
    OBVIOUS
  <2>1. n[i] \in IrqLevel /\ n[Len(n)] \in IrqLevel /\ n # << >>
    BY <1>1, <1>2
  <2>2. Active(s) = {n[Len(n)]}
    BY <2>1 DEF Active, Last
  <2>3. l > n[Len(n)]
    BY <2>2 DEF Takes
  <2>4. i = Len(n) \/ n[i] < n[Len(n)]
    <3>1. \A k \in Nat : \A j \in 1 .. k : k \in 1 .. k /\ (j = k \/ j < k)
      OBVIOUS
    <3>2. Len(n) \in 1 .. Len(n) /\ (i = Len(n) \/ i < Len(n))
      BY <1>2, <3>1
    <3> HIDE DEF n
    <3> QED
      BY <1>1, <1>2, <3>2 DEF Increasing
  <2>5. {n[i], n[Len(n)], l} \subseteq 0 .. 7
    BY <2>1, IncAssumption
  <2>6. \A a, b, c \in 0 .. 7 : (a = b \/ a < b) /\ c > b => a < c
    OBVIOUS
  <2>7. n[i] = n[Len(n)] \/ n[i] < n[Len(n)]
    BY <2>4, Zenon
  <2> HIDE DEF n
  <2> QED
    BY <2>3, <2>5, <2>6, <2>7, Zenon
<1>4. Increasing(m)
  <2> HIDE DEF m, n
  <2> QED
    BY <1>1, <1>2, <1>3 DEF Increasing
<1>5. {m[i] : i \in DOMAIN m} = {n[i] : i \in DOMAIN n} \union {l}
  <2> HIDE DEF m, n
  <2> QED
    BY <1>2
<1>6. /\ t \in IncState /\ t.nest = m /\ t.exec = s.exec \union {l}
      /\ t.raised = s.raised \ {l} /\ t.hardware = s.hardware \ {l}
      /\ t.wroteExec = s.wroteExec
  BY <1>1, <1>2 DEF Accepted, IncState
<1> HIDE DEF m, t
<1>7. ~t.wroteExec => t.exec = {m[i] : i \in DOMAIN m}
  BY <1>5, <1>6 DEF IncShape
<1>8. t.raised \subseteq t.hardware /\ t.raised \intersect Levelled = {}
  BY <1>6 DEF IncShape
<1>9. IncShape(t)
  BY <1>4, <1>6, <1>7, <1>8 DEF IncShape
<1> QED
  BY <1>9 DEF t

\* A poll latches and takes at most one level.
LEMMA PollShape ==
  ASSUME NEW s, IncShape(s)
  PROVE  IncShape(pollInc(s))
<1> DEFINE t == Latched(s)
<1>1. IncShape(t)
  BY LatchedShape
<1> HIDE DEF t
<1>2. CASE Candidates(t) = {}
  BY <1>1, <1>2 DEF pollInc, t
<1>3. CASE Candidates(t) # {}
  <2>1. Candidates(t) \in SUBSET IrqLevel
    BY <1>1 DEF Candidates, IncShape, IncState
  <2>2. Highest(Candidates(t)) \in Candidates(t)
    BY <1>3, <2>1, HighestIn
  <2>3. Highest(Candidates(t)) \in IrqLevel /\ Takes(t, Highest(Candidates(t)))
    BY <2>1, <2>2 DEF Candidates
  <2>4. IncShape(Accepted(t, Highest(Candidates(t))))
    BY <1>1, <2>3, AcceptedShape
  <2> QED
    BY <1>3, <2>4 DEF pollInc, t
<1> QED
  BY <1>2, <1>3

\* The return of the innermost handler clears its bit, which is the highest.
LEMMA ReturnShape ==
  ASSUME NEW s, IncShape(s), s.nest # <<>>
  PROVE  IncShape(acknowledgeInc([s EXCEPT !.nest = Front(@)]))
<1> DEFINE n == s.nest
           m == Front(n)
           last == n[Len(n)]
           u == [s EXCEPT !.nest = Front(@)]
           t == acknowledgeInc(u)
<1>1. s \in IncState /\ n \in Seq(IrqLevel) /\ Increasing(n) /\ n # << >>
  BY DEF IncShape, IncState
<1>2. Len(n) \in Nat /\ Len(n) >= 1 /\ DOMAIN n = 1 .. Len(n)
  <2>1. Len(n) \in Nat \ {0} /\ DOMAIN n = 1 .. Len(n)
    BY <1>1, EmptySeq, LenProperties
  <2>2. \A k \in Nat \ {0} : k >= 1
    OBVIOUS
  <2> QED
    BY <2>1, <2>2, Zenon
<1>3. \A i \in 1 .. Len(n) : n[i] \in 0 .. 7 /\ n[i] \in IrqLevel
  <2>1. \A i \in 1 .. Len(n) : n[i] \in IrqLevel
    BY <1>1, ElementOfSeq
  <2> QED
    BY <2>1, IncAssumption
<1>4. /\ m \in Seq(IrqLevel) /\ Len(m) = Len(n) - 1
      /\ DOMAIN m = 1 .. Len(n) - 1 /\ \A i \in 1 .. Len(n) - 1 : m[i] = n[i]
  BY <1>1 DEF Front
<1>5. ~s.wroteExec => s.exec = {n[i] : i \in DOMAIN n}
  BY DEF IncShape
<1> HIDE DEF m, n
<1>6. Increasing(m)
  BY <1>1, <1>2, <1>4 DEF Increasing
<1>7. last \in 0 .. 7 /\ \A i \in 1 .. Len(n) - 1 : m[i] \in 0 .. 7 /\ m[i] < last
  <2>1. Len(n) \in 1 .. Len(n) /\ \A i \in 1 .. Len(n) - 1 : i \in 1 .. Len(n) /\ i < Len(n)
    BY <1>2
  <2> QED
    BY <1>1, <1>2, <1>3, <1>4, <2>1 DEF Increasing
<1>8. {n[i] : i \in DOMAIN n} = {m[i] : i \in DOMAIN m} \union {last}
  <2>1. 1 .. Len(n) = (1 .. Len(n) - 1) \union {Len(n)}
    BY <1>2
  <2> QED
    BY <1>2, <1>4, <2>1
<1>9. last \notin {m[i] : i \in DOMAIN m}
  BY <1>4, <1>7
<1>10. u \in IncState /\ u = [s EXCEPT !.nest = m] /\ u.nest = m /\ u.exec = s.exec
  BY <1>1, <1>4 DEF IncState, m, n
<1>11. t = u \/ t = [u EXCEPT !.exec = u.exec \ {Highest(u.exec)}]
  BY DEF acknowledgeInc
<1>12. /\ t \in IncState /\ t.nest = m /\ t.raised = s.raised /\ t.hardware = s.hardware
       /\ t.wroteExec = s.wroteExec
  <2> HIDE DEF u, t
  <2>1. u.raised = s.raised /\ u.hardware = s.hardware /\ u.wroteExec = s.wroteExec
    BY <1>1, <1>10 DEF IncState
  <2>2. CASE t = u
    BY <1>10, <2>1, <2>2
  <2>3. CASE t = [u EXCEPT !.exec = u.exec \ {Highest(u.exec)}]
    BY ZenonT(40), <1>10, <2>1, <2>3 DEF IncState
  <2> QED
    BY <1>11, <2>2, <2>3
<1>13. ASSUME ~s.wroteExec PROVE t.exec = {m[i] : i \in DOMAIN m}
  <2>1. u.exec = {m[i] : i \in DOMAIN m} \union {last}
    BY <1>8, <1>10, <1>13, <1>5
  <2>2. \A y \in u.exec : y \in 0 .. 7 /\ y <= last
    BY <1>4, <1>7, <2>1
  <2>3. \A x \in u.exec : (\A y \in u.exec : y <= x) => x = last
    <3>1. \A a, c \in 0 .. 7 : a <= c /\ c <= a => a = c
      OBVIOUS
    <3>2. last \in u.exec
      BY <2>1
    <3> QED
      BY <1>7, <2>2, <3>1, <3>2, Zenon
  <2>4. Highest(u.exec) = last
    BY <2>1, <2>2, <2>3 DEF Highest
  <2>5. \A a \in Active(u) : last > a
    <3>1. CASE m = << >>
      BY <1>10, <3>1 DEF Active
    <3>2. CASE m # << >>
      <4>1. Active(u) = {m[Len(m)]}
        BY <1>10, <3>2 DEF Active, Last
      <4>2. Len(m) \in 1 .. Len(n) - 1
        BY <1>2, <1>4, <3>2
      <4> QED
        BY <1>7, <4>1, <4>2
    <3> QED
      BY <3>1, <3>2
  <2>6. t.exec = u.exec \ {last}
    BY <1>10, <2>1, <2>4, <2>5 DEF acknowledgeInc, IncState
  <2> QED
    BY <1>9, <2>1, <2>6
<1> HIDE DEF t
<1>14. IncShape(t)
  BY <1>6, <1>12, <1>13 DEF IncShape
<1> QED
  BY <1>14 DEF t

\* What leaves the handlers alone, and drops no request without its edge.
LEMMA SameHandlers ==
  ASSUME NEW s, IncShape(s), NEW t \in IncState, t.nest = s.nest,
         t.raised \subseteq t.hardware, t.raised \subseteq s.raised,
         t.wroteExec \/ (~s.wroteExec /\ t.exec = s.exec)
  PROVE  IncShape(t)
BY DEF IncShape

\* For any levels and trigger modes, an edge that a poll has seen stays pending
\* until its level is accepted or cleared, and the Exec bits are the handlers
\* of the processor, innermost highest (STi55xx_Inc.cpp, pollInc,
\* acknowledgeInc).
THEOREM EdgesKeptCorrect == IncSpec => []EdgesKept
<1>1. IncInit => IncInv
  BY DEF IncInit, IncInv, IncShape, IncState, Increasing
<1>2. IncInv /\ IncNext => IncInv'
  <2> SUFFICES ASSUME IncInv, IncNext PROVE IncShape(inc')
    BY DEF IncInv
  <2>1. inc \in IncState /\ IncShape(inc) /\ inc.raised \subseteq inc.hardware
    BY DEF IncInv, IncShape
  <2>2. PICK e \in Nat : inc.edges + 1 = e
    BY <2>1 DEF IncState
  <2> DEFINE Same(t) == /\ t \in IncState /\ t.nest = inc.nest /\ t.exec = inc.exec
                        /\ t.raised = inc.raised /\ t.hardware = inc.hardware
                        /\ t.wroteExec = inc.wroteExec
  <2>3. ASSUME NEW t, Same(t) PROVE IncShape(t)
    BY <2>1, <2>3, SameHandlers DEF IncState
  <2>4. ASSUME Poll PROVE IncShape(inc')
    BY <2>1, <2>4, PollShape DEF Poll
  <2>5. ASSUME Return PROVE IncShape(inc')
    BY <2>1, <2>5, ReturnShape DEF Return
  <2>6. ASSUME Enable PROVE IncShape(inc')
    <3>1. Same(inc')
      BY <2>1, <2>6 DEF Enable, IncState
    <3> QED
      BY <2>3, <3>1
  <2>7. ASSUME writeMask PROVE IncShape(inc')
    <3>1. PICK l \in IrqLevel :
            \/ inc' = [inc EXCEPT !.mask = @ \union {l}]
            \/ inc' = [inc EXCEPT !.mask = @ \ {l}]
            \/ inc' = [inc EXCEPT !.global = TRUE]
            \/ inc' = [inc EXCEPT !.global = FALSE]
            \/ inc' = [inc EXCEPT !.mask = {}, !.global = FALSE]
      BY <2>7 DEF writeMask
    <3>2. ASSUME inc' = [inc EXCEPT !.mask = @ \union {l}] PROVE Same(inc')
      BY <2>1, <3>2 DEF IncState
    <3>3. ASSUME inc' = [inc EXCEPT !.mask = @ \ {l}] PROVE Same(inc')
      BY <2>1, <3>3 DEF IncState
    <3>4. ASSUME inc' = [inc EXCEPT !.global = TRUE] PROVE Same(inc')
      BY <2>1, <3>4 DEF IncState
    <3>5. ASSUME inc' = [inc EXCEPT !.global = FALSE] PROVE Same(inc')
      BY <2>1, <3>5 DEF IncState
    <3>6. ASSUME inc' = [inc EXCEPT !.mask = {}, !.global = FALSE] PROVE Same(inc')
      BY <2>1, <3>6 DEF IncState
    <3> HIDE DEF Same
    <3> QED
      BY <2>3, <3>1, <3>2, <3>3, <3>4, <3>5, <3>6, Zenon
  <2>8. ASSUME writePending PROVE IncShape(inc')
    <3>1. PICK l \in IrqLevel :
            \/ inc' = [inc EXCEPT !.software = @ \union {l}, !.edges = e]
            \/ inc' = [inc EXCEPT !.software = {l}, !.hardware = @ \intersect {l},
                                  !.raised = @ \intersect {l}, !.edges = e]
      BY <2>8, <2>2 DEF writePending
    <3>2. ASSUME inc' = [inc EXCEPT !.software = @ \union {l}, !.edges = e]
          PROVE  Same(inc')
      BY <2>1, <3>2 DEF IncState
    <3>3. ASSUME inc' = [inc EXCEPT !.software = {l}, !.hardware = @ \intersect {l},
                                    !.raised = @ \intersect {l}, !.edges = e]
          PROVE  IncShape(inc')
      <4>1. inc' \in IncState
        BY <2>1, <3>3 DEF IncState
      <4>2. /\ inc'.raised = inc.raised \intersect {l}
            /\ inc'.hardware = inc.hardware \intersect {l}
            /\ inc'.nest = inc.nest /\ inc'.exec = inc.exec /\ inc'.wroteExec = inc.wroteExec
        BY <2>1, <3>3 DEF IncState
      <4> QED
        BY <2>1, <4>1, <4>2, SameHandlers DEF IncState
    <3> HIDE DEF Same
    <3> QED
      BY <2>3, <3>1, <3>2, <3>3, Zenon
  <2>9. ASSUME clearPending PROVE IncShape(inc')
    <3>1. PICK levels : inc' = ClearPending(inc, levels)
      BY <2>9 DEF clearPending
    <3>2. inc' \in IncState
      BY <2>1, <3>1 DEF ClearPending, IncState
    <3>3. /\ inc'.raised = inc.raised \ levels /\ inc'.hardware = inc.hardware \ levels
          /\ inc'.nest = inc.nest /\ inc'.exec = inc.exec /\ inc'.wroteExec = inc.wroteExec
      BY <2>1, <3>1 DEF ClearPending, IncState
    <3> QED
      BY <2>1, <3>2, <3>3, SameHandlers DEF IncState
  <2>10. ASSUME writeExec PROVE IncShape(inc')
    <3>1. PICK l \in IrqLevel :
            \/ inc' = [inc EXCEPT !.exec = @ \union {l}, !.wroteExec = TRUE, !.edges = e]
            \/ inc' = [inc EXCEPT !.exec = @ \ {l}, !.wroteExec = TRUE, !.edges = e]
      BY <2>10, <2>2 DEF writeExec
    <3>2. inc' \in IncState
      <4>1. ASSUME inc' = [inc EXCEPT !.exec = @ \union {l}, !.wroteExec = TRUE, !.edges = e]
            PROVE  inc' \in IncState
        BY <2>1, <4>1 DEF IncState
      <4>2. ASSUME inc' = [inc EXCEPT !.exec = @ \ {l}, !.wroteExec = TRUE, !.edges = e]
            PROVE  inc' \in IncState
        BY <2>1, <4>2 DEF IncState
      <4> QED
        BY <3>1, <4>1, <4>2
    <3>3. /\ inc'.raised = inc.raised /\ inc'.hardware = inc.hardware
          /\ inc'.nest = inc.nest /\ inc'.wroteExec
      BY <2>1, <3>1 DEF IncState
    <3> QED
      BY <2>1, <3>2, <3>3, SameHandlers
  <2>11. ASSUME NEW l \in IrqLevel, Line(l) PROVE IncShape(inc')
    <3>1. \/ inc' = [inc EXCEPT !.lines = inc.lines \ {l}, !.edges = e]
          \/ inc' = [inc EXCEPT !.lines = inc.lines \union {l}, !.edges = e]
      BY <2>11, <2>2 DEF Line
    <3>2. ASSUME inc' = [inc EXCEPT !.lines = inc.lines \ {l}, !.edges = e]
          PROVE  Same(inc')
      BY <2>1, <3>2 DEF IncState
    <3>3. ASSUME inc' = [inc EXCEPT !.lines = inc.lines \union {l}, !.edges = e]
          PROVE  Same(inc')
      BY <2>1, <3>3 DEF IncState
    <3> HIDE DEF Same
    <3> QED
      BY <2>3, <3>1, <3>2, <3>3, Zenon
  <2> QED
    BY <2>4, <2>5, <2>6, <2>7, <2>8, <2>9, <2>10, <2>11 DEF IncNext
<1>3. IncInv /\ UNCHANGED inc => IncInv'
  BY DEF IncInv
<1>4. IncInv => EdgesKept
  BY DEF IncInv, IncShape, EdgesKept, Increasing
<1> QED
  BY <1>1, <1>2, <1>3, <1>4, PTL DEF IncSpec

-----------------------------------------------------------------------------
(***************************************************************************)
(* The loop.  Between two iterations the output and the completed          *)
(* instructions agree, and after "go" the countdown is what is missing to  *)
(* the next multiple of its interval.  In the middle of an iteration       *)
(* (Ahead) one instruction is executed and not yet counted.  A run stops   *)
(* short of every multiple, and a single step meets it.                    *)
(***************************************************************************)

HostState ==
  [prompt : BOOLEAN, ready : BOOLEAN, serialCount : Nat, instrCount : Nat,
   warnCountdown : Nat, done : Nat, sinceGo : Nat, serial : Nat, looked : Nat, warned : Nat]

\* The counters of the loop since the last "go", of which n instructions are counted.
Counting(s, n) ==
  /\ s.instrCount = n /\ n < maxInstr
  /\ s.looked = Multiple(n, KEY_POLL_INTERVAL)
  /\ s.warned = Multiple(n, warnInstr)
  /\ s.warnCountdown = warnInstr - (n % warnInstr)

HostShape(s) ==
  /\ s \in HostState
  /\ s.serialCount = s.done
  /\ s.serial = Multiple(s.done, SERIAL_INTERVAL)
  /\ ~s.prompt => Counting(s, s.sinceGo)

\* An instruction has been executed that the loop has not looked at.
Ahead(s, failed) ==
  /\ s \in HostState
  /\ s.done = s.serialCount + 1 - failed
  /\ s.serial = Multiple(s.serialCount, SERIAL_INTERVAL)
  /\ ~s.prompt => s.sinceGo = s.instrCount + 1 /\ Counting(s, s.instrCount)

HostInv == HostShape(host)

\* Four numbers have a least one.
LEMMA LeastOfFour ==
  ASSUME NEW a \in Int, NEW b \in Int, NEW c \in Int, NEW d \in Int
  PROVE  LET l == Least({a, b, c, d}) IN l \in Int /\ l <= a /\ l <= b /\ l <= c /\ l <= d
<1> DEFINE S == {a, b, c, d}
           Below(x, y) == IF x <= y THEN x ELSE y
           e == Below(Below(a, b), Below(c, d))
<1>1. e \in S /\ \A y \in S : e <= y
  BY SMT
<1>2. Least(S) \in S /\ \A y \in S : Least(S) <= y
  BY <1>1 DEF Least
<1> QED BY <1>2

\* The intervals and limits are positive.
LEMMA ConstantsPositive ==
  /\ SERIAL_INTERVAL \in Nat /\ SERIAL_INTERVAL > 0
  /\ KEY_POLL_INTERVAL \in Nat /\ KEY_POLL_INTERVAL > 0
  /\ maxInstr \in Nat /\ maxInstr > 0 /\ warnInstr \in Nat /\ warnInstr > 0
  BY FreeRunAssumption

\* What Quiet promises is no later than anything the loop has to look at.
LEMMA QuietIsLeast ==
  ASSUME NEW s \in HostState
  PROVE  LET q == Quiet(s)
         IN  /\ q \in Int
             /\ q <= SERIAL_INTERVAL - (s.serialCount % SERIAL_INTERVAL)
             /\ q <= maxInstr - s.instrCount /\ q <= s.warnCountdown
             /\ q <= KEY_POLL_INTERVAL - (s.instrCount % KEY_POLL_INTERVAL)
<1> DEFINE a == SERIAL_INTERVAL - (s.serialCount % SERIAL_INTERVAL)
           b == maxInstr - s.instrCount
           c == s.warnCountdown
           d == KEY_POLL_INTERVAL - (s.instrCount % KEY_POLL_INTERVAL)
<1>1. /\ s.serialCount \in Nat /\ s.instrCount \in Nat /\ c \in Int
  BY DEF HostState
<1>2. (s.serialCount % SERIAL_INTERVAL) \in Int /\ (s.instrCount % KEY_POLL_INTERVAL) \in Int
  BY <1>1, ConstantsPositive, QuotientAndRemainder
<1>3. a \in Int /\ b \in Int /\ c \in Int /\ d \in Int
  BY <1>1, <1>2, ConstantsPositive
<1>4. Quiet(s) = Least({a, b, c, d})
  BY DEF Quiet
<1> HIDE DEF a, b, c, d
<1> DEFINE l == Least({a, b, c, d})
<1>5. l \in Int /\ l <= a /\ l <= b /\ l <= c /\ l <= d
  BY <1>3, LeastOfFour
<1> HIDE DEF l
<1>6. Quiet(s) = l
  BY <1>4 DEF l
<1> QED BY <1>5, <1>6 DEF a, b, c, d

\* A run ends before the instruction that the loop has to look at.
LEMMA RunKeeps ==
  ASSUME NEW s, HostShape(s), ~s.prompt, NEW n \in Nat, n < Quiet(s)
  PROVE  HostShape(Counted(Executed(s, n, 0), n))
<1> DEFINE t == Counted(Executed(s, n, 0), n)
<1>1. s \in HostState /\ s.serialCount = s.done /\ Counting(s, s.sinceGo)
      /\ s.serial = Multiple(s.done, SERIAL_INTERVAL)
  BY DEF HostShape
<1>2. {SERIAL_INTERVAL, KEY_POLL_INTERVAL, maxInstr, warnInstr} \subseteq Nat \ {0}
  BY FreeRunAssumption
<1>3. /\ (s.serialCount % SERIAL_INTERVAL) \in Nat /\ (s.serialCount % SERIAL_INTERVAL) < SERIAL_INTERVAL
      /\ (s.instrCount % KEY_POLL_INTERVAL) \in Nat /\ (s.instrCount % KEY_POLL_INTERVAL) < KEY_POLL_INTERVAL
      /\ (s.instrCount % warnInstr) \in Nat /\ (s.instrCount % warnInstr) < warnInstr
  BY <1>1, <1>2, QuotientAndRemainder DEF HostState
<1>4. /\ n < SERIAL_INTERVAL - (s.serialCount % SERIAL_INTERVAL)
      /\ n < maxInstr - s.instrCount
      /\ n < s.warnCountdown
      /\ n < KEY_POLL_INTERVAL - (s.instrCount % KEY_POLL_INTERVAL)
  <2> DEFINE q == Quiet(s)
  <2>1. /\ q \in Int /\ n < q
        /\ q <= SERIAL_INTERVAL - (s.serialCount % SERIAL_INTERVAL)
        /\ q <= maxInstr - s.instrCount /\ q <= s.warnCountdown
        /\ q <= KEY_POLL_INTERVAL - (s.instrCount % KEY_POLL_INTERVAL)
    BY <1>1, QuietIsLeast
  <2> HIDE DEF q
  <2>2. /\ maxInstr - s.instrCount \in Int /\ s.warnCountdown \in Int
    BY <1>1, <1>2 DEF HostState
  <2> QED BY <2>1, <2>2, <1>2, <1>3, SMT
<1>5. /\ ((s.serialCount + n) % SERIAL_INTERVAL) = (s.serialCount % SERIAL_INTERVAL) + n
      /\ ((s.instrCount + n) % KEY_POLL_INTERVAL) = (s.instrCount % KEY_POLL_INTERVAL) + n
  <2>1. s.serialCount \in Nat /\ s.instrCount \in Nat
    BY <1>1 DEF HostState
  <2>2. SERIAL_INTERVAL \in Nat /\ SERIAL_INTERVAL > 0
        /\ KEY_POLL_INTERVAL \in Nat /\ KEY_POLL_INTERVAL > 0
    BY <1>2, SMT
  <2>3. ((s.serialCount + n) % SERIAL_INTERVAL) = (s.serialCount % SERIAL_INTERVAL) + n
    BY <2>1, <2>2, <1>4, RemainderGrows
  <2>4. ((s.instrCount + n) % KEY_POLL_INTERVAL) = (s.instrCount % KEY_POLL_INTERVAL) + n
    BY <2>1, <2>2, <1>4, RemainderGrows
  <2> QED BY <2>3, <2>4
<1>6. ((s.instrCount + n) % warnInstr) = (s.instrCount % warnInstr) + n
  <2>1. n < warnInstr - (s.instrCount % warnInstr)
    BY <1>1, <1>4 DEF Counting
  <2>2. warnInstr \in Nat /\ warnInstr > 0
    BY <1>2, SMT
  <2>3. s.instrCount \in Nat
    BY <1>1 DEF HostState
  <2> QED BY <2>1, <2>2, <2>3, RemainderGrows
<1>7. /\ s.done + n - 0 = s.done + n
      /\ {s.done + n, s.sinceGo + n, s.serialCount + n, s.instrCount + n} \subseteq Nat
      /\ s.warnCountdown - n \in Nat
  BY <1>1, <1>4, SMT DEF HostState
<1>8. t = [s EXCEPT !.done = s.done + n, !.sinceGo = s.sinceGo + n,
                    !.serialCount = s.serialCount + n, !.instrCount = s.instrCount + n,
                    !.warnCountdown = s.warnCountdown - n]
  <2> DEFINE u == [s EXCEPT !.done = s.done + n, !.sinceGo = s.sinceGo + n]
  <2>1. Executed(s, n, 0) = u
    BY <1>1, <1>7 DEF Executed, HostState
  <2> QED BY <2>1, <1>1 DEF Counted, HostState
<1> HIDE DEF t
<1>9. /\ t \in HostState
      /\ t.serialCount = s.serialCount + n /\ t.done = s.done + n /\ t.sinceGo = s.sinceGo + n
      /\ t.instrCount = s.instrCount + n /\ t.warnCountdown = s.warnCountdown - n
      /\ t.serial = s.serial /\ t.looked = s.looked /\ t.warned = s.warned
      /\ t.prompt = s.prompt
  BY <1>1, <1>7, <1>8 DEF HostState
<1>10. t.serial = Multiple(t.done, SERIAL_INTERVAL)
  BY <1>1, <1>5, <1>9, <1>3, <1>2 DEF Multiple, HostState
<1>11. Counting(t, t.sinceGo)
  <2>1. s.sinceGo = s.instrCount /\ t.instrCount = t.sinceGo
    BY <1>1, <1>9 DEF Counting
  <2>2. t.sinceGo < maxInstr
    BY <1>4, <1>9, <2>1, <1>1, <1>2 DEF HostState
  <2>3. t.looked = Multiple(t.sinceGo, KEY_POLL_INTERVAL)
    BY <1>1, <1>5, <1>9, <2>1, <1>3, <1>2 DEF Multiple, HostState, Counting
  <2>4. t.warned = Multiple(t.sinceGo, warnInstr)
    BY <1>1, <1>6, <1>9, <2>1, <1>3, <1>2 DEF Multiple, HostState, Counting
  <2>5. t.warnCountdown = warnInstr - (t.sinceGo % warnInstr)
    BY <1>1, <1>6, <1>9, <2>1, <1>3, <1>2 DEF HostState, Counting
  <2> QED BY <2>1, <2>2, <2>3, <2>4, <2>5 DEF Counting
<1>12. t.serialCount = t.done
  BY <1>1, <1>9
<1>13. HostShape(t)
  BY <1>9, <1>10, <1>11, <1>12 DEF HostShape
<1> QED BY <1>13 DEF t

\* An interval's next multiple is reached, or the remainder grows by one.
LEMMA NextMultiple ==
  ASSUME NEW a \in Nat, NEW K \in Nat, K > 0
  PROVE  /\ ((a + 1) % K) = 0 => Multiple(a + 1, K) = a + 1 /\ (a % K) + 1 = K
         /\ ((a + 1) % K) # 0 =>
              /\ Multiple(a + 1, K) = Multiple(a, K)
              /\ ((a + 1) % K) = (a % K) + 1
         /\ (a % K) + 1 = K => ((a + 1) % K) = 0
         /\ (a % K) \in Nat /\ (a % K) < K
<1>1. (a % K) \in Nat /\ (a % K) < K
  BY QuotientAndRemainder
<1>2. (a % K) + 1 = K => ((a + 1) % K) = 0
  BY RemainderEnds
<1>3. (a % K) + 1 # K => ((a + 1) % K) = (a % K) + 1
  <2> SUFFICES ASSUME (a % K) + 1 # K PROVE ((a + 1) % K) = (a % K) + 1
    OBVIOUS
  <2>1. 1 < K - (a % K)
    BY <1>1
  <2> QED BY <2>1, RemainderGrows
<1> QED BY <1>1, <1>2, <1>3 DEF Multiple

\* After the serial output an instruction is left that the limits have to count.
LEMMA SerialOutputKeeps ==
  ASSUME NEW s, NEW failed \in {0, 1}, Ahead(s, failed)
  PROVE  LET t == SerialOutput(s, failed)
         IN  /\ t \in HostState /\ t.serialCount = t.done
             /\ t.serial = Multiple(t.done, SERIAL_INTERVAL)
             /\ ~t.prompt => t.sinceGo = t.instrCount + 1 /\ Counting(t, t.instrCount)
<1> DEFINE n == s.serialCount + 1
<1>1. s \in HostState /\ n \in Nat
  BY DEF Ahead, HostState
<1>2. CASE failed = 1
  <2>1. SerialOutput(s, failed) = [s EXCEPT !.prompt = TRUE]
    BY <1>2 DEF SerialOutput
  <2>2. s.done = s.serialCount
    BY <1>1, <1>2, SMT DEF Ahead, HostState
  <2> QED BY <1>1, <2>1, <2>2 DEF Ahead, HostState
<1>3. CASE failed = 0
  <2>1. s.done = n
    BY <1>1, <1>3, SMT DEF Ahead, HostState
  <2>2. CASE (n % SERIAL_INTERVAL) = 0
    <3>1. SerialOutput(s, failed) = [s EXCEPT !.serialCount = n, !.serial = s.done]
      BY <1>1, <1>3, <2>2 DEF SerialOutput, HostState
    <3>2. Multiple(n, SERIAL_INTERVAL) = n
      BY <1>1, <2>2, ConstantsPositive, NextMultiple DEF HostState
    <3> HIDE DEF n
    <3> QED BY <1>1, <2>1, <3>1, <3>2 DEF Ahead, HostState, Counting
  <2>3. CASE (n % SERIAL_INTERVAL) # 0
    <3>1. SerialOutput(s, failed) = [s EXCEPT !.serialCount = n]
      BY <1>1, <1>3, <2>3 DEF SerialOutput, HostState
    <3>2. Multiple(n, SERIAL_INTERVAL) = Multiple(s.serialCount, SERIAL_INTERVAL)
      BY <1>1, <2>3, ConstantsPositive, NextMultiple DEF HostState
    <3> HIDE DEF n
    <3> QED BY <1>1, <2>1, <3>1, <3>2 DEF Ahead, HostState, Counting
  <2> QED BY <2>2, <2>3
<1> QED BY <1>2, <1>3

\* The limits count one instruction, or one round in which nothing was ready.
LEMMA LimitsKeep ==
  ASSUME NEW s \in HostState, NEW request \in BOOLEAN, s.serialCount = s.done,
         s.serial = Multiple(s.done, SERIAL_INTERVAL),
         Counting(s, s.instrCount)
  PROVE  LET t == Limits(s, request)
         IN  /\ t \in HostState /\ t.serialCount = t.done
             /\ t.serial = Multiple(t.done, SERIAL_INTERVAL)
             /\ t.sinceGo = s.sinceGo
             /\ s.sinceGo = s.instrCount + 1 /\ ~t.prompt => Counting(t, t.sinceGo)
<1> DEFINE i == s.instrCount
           n == i + 1
           K == KEY_POLL_INTERVAL
           t == Limits(s, request)
<1>1. i \in Nat /\ n \in Nat /\ i < maxInstr
  BY DEF Counting, HostState
<1>2. /\ K \in Nat /\ K > 0 /\ warnInstr \in Nat /\ warnInstr > 0 /\ maxInstr \in Nat
  BY ConstantsPositive
<1>3. /\ s.looked = Multiple(i, K) /\ s.warned = Multiple(i, warnInstr)
      /\ s.warnCountdown = warnInstr - (i % warnInstr)
  BY DEF Counting
<1>4. /\ (n % K) = 0 => Multiple(n, K) = n
      /\ (n % K) # 0 => Multiple(n, K) = Multiple(i, K)
  BY <1>1, <1>2, NextMultiple
<1>5. /\ (i % warnInstr) \in Nat /\ (i % warnInstr) < warnInstr
      /\ (i % warnInstr) + 1 = warnInstr => (n % warnInstr) = 0 /\ Multiple(n, warnInstr) = n
      /\ (i % warnInstr) + 1 # warnInstr =>
           /\ (n % warnInstr) = (i % warnInstr) + 1
           /\ Multiple(n, warnInstr) = Multiple(i, warnInstr)
  BY <1>1, <1>2, NextMultiple
<1> HIDE DEF i, K
<1>6. /\ s.warnCountdown = 1 => (n % warnInstr) = 0 /\ Multiple(n, warnInstr) = n
      /\ s.warnCountdown # 1 =>
           /\ s.warnCountdown - 1 \in Nat
           /\ s.warnCountdown - 1 = warnInstr - (n % warnInstr)
           /\ Multiple(n, warnInstr) = Multiple(i, warnInstr)
  BY <1>1, <1>2, <1>3, <1>5, SMT
<1> DEFINE u == CASE n >= maxInstr -> [s EXCEPT !.instrCount = n, !.prompt = TRUE]
                  [] n < maxInstr /\ s.warnCountdown = 1 ->
                       [s EXCEPT !.instrCount = n, !.warnCountdown = warnInstr,
                                 !.warned = s.sinceGo]
                  [] OTHER -> [s EXCEPT !.instrCount = n,
                                        !.warnCountdown = s.warnCountdown - 1]
<1>7. t = IF (n % K) = 0 THEN [u EXCEPT !.looked = s.sinceGo, !.prompt = u.prompt \/ request]
          ELSE u
  BY DEF Limits, HostState, i, K
<1> HIDE DEF t, n
<1>8. /\ u \in HostState /\ u.serialCount = s.serialCount /\ u.done = s.done
      /\ u.serial = s.serial /\ u.sinceGo = s.sinceGo /\ u.looked = s.looked
      /\ u.instrCount = n
  <2>1. CASE n >= maxInstr
    BY <1>1, <1>2, <2>1 DEF HostState
  <2>2. CASE ~(n >= maxInstr) /\ s.warnCountdown = 1
    <3>1. n < maxInstr
      BY <1>1, <1>2, <2>2, SMT
    <3>2. u = [s EXCEPT !.instrCount = n, !.warnCountdown = warnInstr, !.warned = s.sinceGo]
      BY <3>1, <2>2
    <3> QED BY <1>1, <1>2, <3>2 DEF HostState
  <2>3. CASE ~(n >= maxInstr) /\ s.warnCountdown # 1
    <3>1. u = [s EXCEPT !.instrCount = n, !.warnCountdown = s.warnCountdown - 1]
      BY <2>3
    <3> QED BY <1>1, <1>2, <1>6, <2>3, <3>1 DEF HostState
  <2> QED BY <2>1, <2>2, <2>3
<1>9. ASSUME s.sinceGo = n, ~u.prompt
      PROVE  /\ n < maxInstr /\ u.warned = Multiple(n, warnInstr)
             /\ u.warnCountdown = warnInstr - (n % warnInstr)
  <2>1. n < maxInstr
    <3>1. CASE n >= maxInstr
      BY <3>1, <1>9 DEF HostState
    <3> QED BY <3>1, <1>1, <1>2, SMT
  <2>2. CASE s.warnCountdown = 1
    <3>1. u = [s EXCEPT !.instrCount = n, !.warnCountdown = warnInstr, !.warned = s.sinceGo]
      BY <2>1, <2>2, <1>1, <1>2
    <3>2. u.warned = n /\ u.warnCountdown = warnInstr
      BY ZenonT(40), <3>1, <1>9 DEF HostState
    <3> QED BY <2>1, <3>2, <1>6, <2>2, <1>2, SMT
  <2>3. CASE s.warnCountdown # 1
    <3>1. u = [s EXCEPT !.instrCount = n, !.warnCountdown = s.warnCountdown - 1]
      BY <2>1, <2>3, <1>1, <1>2
    <3>2. u.warned = s.warned /\ u.warnCountdown = s.warnCountdown - 1
      BY ZenonT(40), <3>1 DEF HostState
    <3> QED BY <2>1, <3>2, <1>6, <2>3, <1>3
  <2> QED BY <2>2, <2>3
<1> HIDE DEF u
<1>10. /\ t \in HostState /\ t.serialCount = s.serialCount /\ t.done = s.done
       /\ t.serial = s.serial /\ t.sinceGo = s.sinceGo /\ t.instrCount = n
       /\ t.warned = u.warned /\ t.warnCountdown = u.warnCountdown
       /\ t.looked = IF (n % K) = 0 THEN s.sinceGo ELSE s.looked
       /\ ~t.prompt => ~u.prompt
  BY <1>7, <1>8 DEF HostState
<1>11. ASSUME s.sinceGo = n, ~t.prompt
       PROVE  Counting(t, t.sinceGo)
  <2>1. t.looked = Multiple(n, K)
    BY <1>10, <1>11, <1>4, <1>3
  <2> QED BY <1>9, <1>10, <1>11, <2>1 DEF Counting, K
<1> QED BY <1>10, <1>11 DEF n, i, t

\* A watch or a missing instruction counts nothing.
LEMMA RestKeeps ==
  ASSUME NEW s, HostShape(s), NEW watch \in BOOLEAN, NEW fetch \in BOOLEAN
  PROVE  HostShape(Watched(s, watch)) /\ HostShape(Fetched(s, fetch))
<1>1. HostShape(Watched(s, watch))
  BY DEF HostShape, HostState, Watched, Counting
<1>2. HostShape(Fetched(s, fetch))
  BY DEF HostShape, HostState, Fetched, Counting
<1> QED BY <1>1, <1>2

\* A command at the prompt counts nothing, and "go" starts the counters anew.
LEMMA CommandsKeep ==
  ASSUME NEW s, HostShape(s), NEW t \in Commands(s)
  PROVE  HostShape(t)
<1>1. CASE ~s.prompt
  BY <1>1 DEF Commands
<1>2. ASSUME s.prompt, NEW fetch \in BOOLEAN, t = [s EXCEPT !.ready = fetch]
      PROVE  HostShape(t)
  BY <1>2 DEF HostShape, HostState
<1>3. ASSUME s.prompt, NEW fetch \in BOOLEAN,
             t = [s EXCEPT !.ready = fetch, !.prompt = FALSE, !.instrCount = 0,
                           !.warnCountdown = warnInstr, !.sinceGo = 0, !.looked = 0, !.warned = 0]
      PROVE  HostShape(t)
  <2>1. /\ (0 % KEY_POLL_INTERVAL) = 0 /\ (0 % warnInstr) = 0
    <3>1. 0 = (KEY_POLL_INTERVAL * 0) + 0 /\ 0 = (warnInstr * 0) + 0
      BY ConstantsPositive
    <3> QED BY <3>1, ConstantsPositive, RemainderIs
  <2>2. Multiple(0, KEY_POLL_INTERVAL) = 0 /\ Multiple(0, warnInstr) = 0
    BY <2>1 DEF Multiple
  <2>3. /\ t \in HostState /\ t.serialCount = s.serialCount /\ t.done = s.done
        /\ t.serial = s.serial /\ t.instrCount = 0 /\ t.sinceGo = 0 /\ t.looked = 0
        /\ t.warned = 0 /\ t.warnCountdown = warnInstr
    BY <1>3, ConstantsPositive DEF HostShape, HostState
  <2>4. Counting(t, t.sinceGo)
    BY <2>1, <2>2, <2>3, ConstantsPositive DEF Counting
  <2> QED BY <2>3, <2>4 DEF HostShape
<1> QED BY <1>1, <1>2, <1>3 DEF Commands

\* All that follows an instruction, up to the head of the loop.
LEMMA AfterKeeps ==
  ASSUME NEW s, NEW failed \in {0, 1}, Ahead(s, failed),
         NEW watch \in BOOLEAN, NEW request \in BOOLEAN, NEW fetch \in BOOLEAN
  PROVE  HostShape(After(s, failed, watch, request, fetch))
<1> DEFINE t == SerialOutput(s, failed)
           u == IF t.prompt THEN t ELSE Limits(t, request)
<1>1. /\ t \in HostState /\ t.serialCount = t.done
      /\ t.serial = Multiple(t.done, SERIAL_INTERVAL)
      /\ ~t.prompt => t.sinceGo = t.instrCount + 1 /\ Counting(t, t.instrCount)
  BY SerialOutputKeeps
<1>2. After(s, failed, watch, request, fetch) = Fetched(Watched(u, watch), fetch)
  BY DEF After
<1> HIDE DEF t
<1>3. HostShape(u)
  <2>1. CASE t.prompt
    BY <1>1, <2>1 DEF HostShape
  <2>2. CASE ~t.prompt
    <3> DEFINE v == Limits(t, request)
    <3>1. /\ v \in HostState /\ v.serialCount = v.done
          /\ v.serial = Multiple(v.done, SERIAL_INTERVAL)
          /\ ~v.prompt => Counting(v, v.sinceGo)
      BY <1>1, <2>2, LimitsKeep
    <3> HIDE DEF v
    <3>2. HostShape(v)
      BY <3>1 DEF HostShape
    <3> QED BY <3>2, <2>2 DEF v
  <2> QED BY <2>1, <2>2
<1> HIDE DEF u
<1> DEFINE w == Watched(u, watch)
<1>4. HostShape(w)
  BY <1>3, RestKeeps
<1> HIDE DEF w
<1>5. HostShape(Fetched(w, fetch))
  BY <1>4, RestKeeps
<1> QED BY <1>2, <1>5 DEF w

\* One instruction is executed that the loop has not looked at.
LEMMA ExecutedIsAhead ==
  ASSUME NEW s, HostShape(s), NEW failed \in {0, 1}
  PROVE  Ahead(Executed(s, 1, failed), failed)
<1> DEFINE t == Executed(s, 1, failed)
<1>1. s \in HostState /\ s.done \in Nat /\ s.sinceGo \in Nat
  BY DEF HostShape, HostState
<1>2. s.done + 1 - failed \in Nat /\ s.sinceGo + 1 \in Nat
  BY <1>1
<1>3. t = [s EXCEPT !.done = s.done + 1 - failed,
                    !.sinceGo = IF s.prompt THEN 0 ELSE s.sinceGo + 1]
  BY <1>1 DEF Executed, HostState
<1> HIDE DEF t
<1>4. /\ t \in HostState /\ t.done = s.done + 1 - failed /\ t.serialCount = s.serialCount
      /\ t.serial = s.serial /\ t.prompt = s.prompt /\ t.instrCount = s.instrCount
      /\ t.looked = s.looked /\ t.warned = s.warned /\ t.warnCountdown = s.warnCountdown
      /\ ~s.prompt => t.sinceGo = s.sinceGo + 1
  BY <1>1, <1>2, <1>3 DEF HostState
<1>5. Ahead(t, failed)
  BY <1>4 DEF HostShape, Ahead, Counting
<1> QED BY <1>5 DEF t

\* An iteration of the loop keeps the counters in step with the instructions.
LEMMA HostInvNext == HostInv /\ [HostNext]_host => HostInv'
<1> SUFFICES ASSUME HostInv, [HostNext]_host PROVE HostInv'
  OBVIOUS
<1>1. HostShape(host) /\ host \in HostState
  BY DEF HostInv, HostShape
<1>2. CASE RunFreely
  <2> DEFINE n == FreeRunLength(host)
  <2>1. ~host.prompt /\ n > 0 /\ host' = Counted(Executed(host, n, 0), n)
    BY <1>2 DEF RunFreely, FreeRunning
  <2>2. Quiet(host) \in Int
    BY <1>1, QuietIsLeast
  <2>3. n \in Nat /\ n < Quiet(host)
    BY <2>1, <2>2 DEF FreeRunLength
  <2> HIDE DEF n
  <2> QED BY <1>1, <2>1, <2>3, RunKeeps DEF HostInv
<1>3. CASE RunStops
  <2>1. PICK n \in 0 .. FreeRunLength(host) - 1, failed \in {0, 1},
             watch \in BOOLEAN, request \in BOOLEAN, fetch \in BOOLEAN :
          host' \in Commands(After(Executed(Counted(host, n), n + 1, failed),
                                   failed, watch, request, fetch))
    BY <1>3 DEF RunStops
  <2>2. ~host.prompt
    BY <1>3 DEF RunStops, FreeRunning
  <2>3. n \in Nat /\ n < Quiet(host)
    <3>1. Quiet(host) \in Int
      BY <1>1, QuietIsLeast
    <3> QED BY <3>1 DEF FreeRunLength
  <2> DEFINE s == Counted(Executed(host, n, 0), n)
  <2>4. HostShape(s)
    BY <1>1, <2>2, <2>3, RunKeeps
  <2>5. Executed(Counted(host, n), n + 1, failed) = Executed(s, 1, failed)
    <3>1. /\ host.done + (n + 1) - failed = (host.done + n - 0) + 1 - failed
          /\ host.sinceGo + (n + 1) = (host.sinceGo + n) + 1
      BY <1>1, <2>3 DEF HostState
    <3> QED BY ZenonT(40), <1>1, <2>2, <3>1 DEF Executed, Counted, HostState
  <2> HIDE DEF s
  <2>6. Ahead(Executed(s, 1, failed), failed)
    BY <2>4, ExecutedIsAhead
  <2> DEFINE t == After(Executed(s, 1, failed), failed, watch, request, fetch)
  <2>7. HostShape(t)
    BY <2>6, AfterKeeps
  <2>8. host' \in Commands(t)
    BY <2>1, <2>5
  <2> HIDE DEF t
  <2> QED BY <2>7, <2>8, CommandsKeep DEF HostInv
<1>4. CASE Step
  <2>1. PICK failed \in {0, 1}, watch \in BOOLEAN, request \in BOOLEAN, fetch \in BOOLEAN :
          host' \in Commands(After(Executed(host, 1, failed), failed, watch, request, fetch))
    BY <1>4 DEF Step
  <2>2. Ahead(Executed(host, 1, failed), failed)
    BY <1>1, ExecutedIsAhead
  <2> DEFINE t == After(Executed(host, 1, failed), failed, watch, request, fetch)
  <2>3. HostShape(t)
    BY <2>2, AfterKeeps
  <2>4. host' \in Commands(t)
    BY <2>1
  <2> HIDE DEF t
  <2> QED BY <2>3, <2>4, CommandsKeep DEF HostInv
<1>5. CASE NotReady
  <2>1. PICK request \in BOOLEAN, fetch \in BOOLEAN :
          /\ ~host.prompt => ~fetch
          /\ host' \in Commands(Fetched(IF host.prompt THEN host ELSE Limits(host, request), fetch))
    BY <1>5 DEF NotReady
  <2> DEFINE t == Fetched(IF host.prompt THEN host ELSE Limits(host, request), fetch)
  <2>2. HostShape(t)
    <3>1. CASE host.prompt
      BY <1>1, <3>1, RestKeeps
    <3>2. CASE ~host.prompt
      <4> DEFINE u == Limits(host, request)
      <4>1. Counting(host, host.instrCount)
        BY <1>1, <3>2 DEF HostShape, Counting
      <4>2. u \in HostState /\ u.serialCount = u.done
            /\ u.serial = Multiple(u.done, SERIAL_INTERVAL)
        BY <1>1, <4>1, LimitsKeep DEF HostShape
      <4>3. t = Fetched(u, FALSE)
        BY <2>1, <3>2
      <4> HIDE DEF u, t
      <4>4. /\ t \in HostState /\ t.serialCount = u.serialCount /\ t.done = u.done
            /\ t.serial = u.serial /\ t.prompt
        BY <4>2, <4>3 DEF Fetched, HostState
      <4> QED BY <4>2, <4>4 DEF HostShape
    <3> QED BY <3>1, <3>2
  <2>3. host' \in Commands(t)
    BY <2>1
  <2> HIDE DEF t
  <2> QED BY <2>2, <2>3, CommandsKeep DEF HostInv
<1>6. CASE UNCHANGED host
  BY <1>1, <1>6 DEF HostInv
<1> QED BY <1>2, <1>3, <1>4, <1>5, <1>6 DEF HostNext

\* However long the program runs and however its instructions are divided into
\* runs and single steps, for any intervals and limits, serial output, the look for
\* a request to stop and the progress message come at each multiple of their
\* interval, and a run never goes beyond maxInstr.
THEOREM LooksOnTimeCorrect == HostSpec => []LooksOnTime
<1>1. HostInit => HostInv
  <2>1. (0 % SERIAL_INTERVAL) = 0
    <3>1. 0 = (SERIAL_INTERVAL * 0) + 0
      BY ConstantsPositive
    <3> QED BY <3>1, ConstantsPositive, RemainderIs
  <2> QED BY <2>1, ConstantsPositive DEF HostInit, HostInv, HostShape, HostState, Multiple
<1>2. HostInv /\ [HostNext]_host => HostInv'
  BY HostInvNext
<1>3. HostInv => LooksOnTime
  BY DEF HostInv, HostShape, Counting, LooksOnTime
<1> QED BY <1>1, <1>2, <1>3, PTL DEF HostSpec

-----------------------------------------------------------------------------
(***************************************************************************)
(* What holds of the batch log for a run of any length and chunks of any   *)
(* size.                                                                   *)
(*                                                                         *)
(* The records are in four hands: in the log, in the chunk being written,  *)
(* in the queue and in the chunk not yet submitted.  Put together in this  *)
(* order (Made) they are the run so far, whichever thread moves next, until *)
(* a write fails; from then on the log is the run's first records.         *)
(***************************************************************************)
-----------------------------------------------------------------------------
(* The state and its invariant *)

Rec    == [count : Nat, kind : {"executed", "not fetched", "final"}]
Chunks == Seq(Rec)

BatchState ==
  [count : Nat, chunk : Chunks, pending : Seq(Chunks), stopping : BOOLEAN,
   writeError : BOOLEAN, main : {"run", "submit", "submitLast", "finish", "join", "ended"},
   worker : {"wait", "write", "done"}, asleep : SUBSET {"main", "worker"},
   writing : Chunks, output : Chunks]

\* The records of the queue, and all that were made.
Joined(s, t) == s \o t
Queued(p) == IF Len(p) = 0 THEN <<>> ELSE IF Len(p) = 1 THEN p[1] ELSE Joined(p[1], p[2])
Chained(o, w, q, c) == Joined(o, Joined(w, Joined(q, c)))
Made(b) == Chained(b.output, b.writing, Queued(b.pending), b.chunk)

\* Where the threads can be, and what they then have in hand.
Threads(b) ==
  /\ b \in BatchState /\ Len(b.pending) <= QueueLimit
  /\ b.worker # "write" => b.writing = <<>>
  /\ b.writeError => b.worker = "done" /\ b.pending = <<>>
  /\ b.stopping <=> b.main \in {"join", "ended"}
  /\ b.worker = "done" /\ ~b.writeError => b.stopping /\ b.pending = <<>>
  /\ b.main \in {"finish", "join", "ended"} /\ ~b.writeError => b.chunk = <<>>
  /\ b.main = "ended" => b.worker = "done"

Sleeping(b) ==
  /\ "main" \in b.asleep =>
       b.main \in {"submit", "submitLast"} /\ ~b.writeError /\ Len(b.pending) >= QueueLimit
  /\ "worker" \in b.asleep => b.worker = "wait" /\ b.pending = <<>> /\ ~b.stopping

\* The records of a run of n instructions, from the first on.
Logged(s, n) ==
  \A i \in 1 .. Len(s) :
    s[i] \in IF i <= n THEN {Record(i, "executed")}
             ELSE {Record(n, k) : k \in {"not fetched", "final"}}

Running(b) == b.main \in {"run", "submit"}
Whole(s, n, running) ==
  /\ Logged(s, n)
  /\ running => Len(s) = n
  /\ ~running => Len(s) > n /\ s[Len(s)].kind = "final"

Logging(b) ==
  /\ Logged(b.output, b.count)
  /\ Running(b) => Len(b.output) <= b.count
  /\ ~b.writeError => Whole(Made(b), b.count, Running(b))

BatchShape(b) == Threads(b) /\ Sleeping(b) /\ Logging(b)
BatchInv == BatchShape(batch)

-----------------------------------------------------------------------------
(* Records and chunks *)

\* A record has the fields of a record.
LEMMA RecordTypes ==
  ASSUME NEW n \in Nat, NEW k \in {"executed", "not fetched", "final"}
  PROVE  Record(n, k) \in Rec
BY DEF Record, Rec

\* Chunks can be put together in any order.
LEMMA JoinedChunks ==
  /\ \A s, t \in Chunks : Joined(s, t) \in Chunks
  /\ \A s \in Chunks : Joined(s, <<>>) = s /\ Joined(<<>>, s) = s
  /\ \A s, t, u \in Chunks : Joined(Joined(s, t), u) = Joined(s, Joined(t, u))
  /\ <<>> \in Chunks
<1>1. \A s, t \in Chunks : Joined(s, t) \in Chunks
  BY ConcatProperties DEF Chunks, Joined
<1>2. \A s \in Chunks : Joined(s, <<>>) = s /\ Joined(<<>>, s) = s
  BY ConcatEmptySeq DEF Chunks, Joined
<1>3. ASSUME NEW s \in Chunks, NEW t \in Chunks, NEW u \in Chunks
      PROVE  Joined(Joined(s, t), u) = Joined(s, Joined(t, u))
  BY <1>3, ConcatAssociative, Z3 DEF Chunks, Joined
<1>4. <<>> \in Chunks
  BY EmptySeq, Zenon DEF Chunks
<1> QED
  BY <1>1, <1>2, <1>3, <1>4, Zenon

\* The records stay in order when they go from hand to hand.
LEMMA ChainedTypes ==
  ASSUME NEW o \in Chunks, NEW w \in Chunks, NEW q \in Chunks, NEW c \in Chunks
  PROVE  Chained(o, w, q, c) \in Chunks
BY JoinedChunks, Zenon DEF Chained

\* New records come last.
LEMMA ChainedMore ==
  ASSUME NEW o \in Chunks, NEW w \in Chunks, NEW q \in Chunks, NEW c \in Chunks,
         NEW t \in Chunks
  PROVE  Chained(o, w, q, Joined(c, t)) = Joined(Chained(o, w, q, c), t)
<1>1. Joined(q, c) \in Chunks /\ Joined(w, Joined(q, c)) \in Chunks
  BY JoinedChunks, Zenon
<1>2. Joined(Joined(q, c), t) = Joined(q, Joined(c, t))
  BY SMTT(20), JoinedChunks, Zenon
<1>3. Joined(Joined(w, Joined(q, c)), t) = Joined(w, Joined(Joined(q, c), t))
  BY <1>1, JoinedChunks
<1>4. Joined(Joined(o, Joined(w, Joined(q, c))), t)
        = Joined(o, Joined(Joined(w, Joined(q, c)), t))
  BY <1>1, JoinedChunks
<1> QED
  BY <1>2, <1>3, <1>4, Zenon DEF Chained

\* A chunk that is submitted goes behind the queue.
LEMMA ChainedSubmit ==
  ASSUME NEW o \in Chunks, NEW w \in Chunks, NEW q \in Chunks, NEW c \in Chunks
  PROVE  Chained(o, w, Joined(q, c), <<>>) = Chained(o, w, q, c)
BY JoinedChunks, Zenon DEF Chained

\* The chunk that is taken was in front of the queue.
LEMMA ChainedTake ==
  ASSUME NEW o \in Chunks, NEW h \in Chunks, NEW q \in Chunks, NEW c \in Chunks
  PROVE  Chained(o, h, q, c) = Chained(o, <<>>, Joined(h, q), c)
<1>1. Joined(h, q) \in Chunks /\ Joined(Joined(h, q), c) \in Chunks
  BY JoinedChunks, Zenon
<1>2. Joined(Joined(h, q), c) = Joined(h, Joined(q, c))
  BY JoinedChunks, Zenon
<1>3. Joined(<<>>, Joined(Joined(h, q), c)) = Joined(Joined(h, q), c)
  BY <1>1, JoinedChunks, Zenon
<1> QED
  BY <1>2, <1>3, Zenon DEF Chained

\* The chunk that is written goes behind the log.
LEMMA ChainedWrite ==
  ASSUME NEW o \in Chunks, NEW w \in Chunks, NEW q \in Chunks, NEW c \in Chunks
  PROVE  Chained(Joined(o, w), <<>>, q, c) = Chained(o, w, q, c)
<1>1. Joined(q, c) \in Chunks
  BY JoinedChunks, Zenon
<1>2. /\ Joined(<<>>, Joined(q, c)) = Joined(q, c)
      /\ Joined(Joined(o, w), Joined(q, c)) = Joined(o, Joined(w, Joined(q, c)))
  BY SMTT(20), <1>1, JoinedChunks, Zenon
<1> QED
  BY <1>2, Zenon DEF Chained

\* The queue holds two chunks at most.
LEMMA QueueLengths ==
  ASSUME NEW p \in Seq(Chunks), Len(p) <= QueueLimit
  PROVE  Len(p) = 0 \/ Len(p) = 1 \/ Len(p) = 2
<1>1. Len(p) \in Nat /\ Len(p) <= 2
  BY DEF QueueLimit
<1>2. \A n \in Nat : n <= 2 => n = 0 \/ n = 1 \/ n = 2
  OBVIOUS
<1> QED
  BY <1>1, <1>2, Zenon

\* What is in the queue is a sequence of records.
LEMMA QueuedTypes ==
  ASSUME NEW p \in Seq(Chunks), Len(p) <= QueueLimit
  PROVE  Queued(p) \in Chunks
<1>1. CASE Len(p) = 0
  BY <1>1, JoinedChunks, Zenon DEF Queued
<1>2. CASE Len(p) = 1
  <2>1. p[1] \in Chunks
    <3>1. 1 \in 1 .. Len(p)
      BY <1>2
    <3> QED
      BY <3>1, ElementOfSeq, Zenon
  <2> QED
    BY <1>2, <2>1 DEF Queued
<1>3. CASE Len(p) = 2
  <2> DEFINE f == p[1]
             g == p[2]
  <2>1. f \in Chunks /\ g \in Chunks
    <3>1. 1 \in 1 .. Len(p) /\ 2 \in 1 .. Len(p)
      BY <1>3
    <3> QED
      BY <3>1, ElementOfSeq, Zenon
  <2>2. Queued(p) = Joined(f, g)
    BY <1>3 DEF Queued
  <2> HIDE DEF f, g
  <2>3. Joined(f, g) \in Chunks
    BY <2>1, JoinedChunks, Zenon
  <2> QED
    BY <2>2, <2>3, Zenon
<1> QED
  BY <1>1, <1>2, <1>3, QueueLengths, Zenon

\* A chunk that joins the queue comes last.
LEMMA QueuedAppend ==
  ASSUME NEW p \in Seq(Chunks), Len(p) < QueueLimit, NEW c \in Chunks
  PROVE  /\ Append(p, c) \in Seq(Chunks) /\ Len(Append(p, c)) = Len(p) + 1
         /\ Queued(Append(p, c)) = Joined(Queued(p), c)
<1> DEFINE a == Append(p, c)
<1>1. /\ a \in Seq(Chunks) /\ Len(a) = Len(p) + 1 /\ a[Len(p) + 1] = c
      /\ \A i \in 1 .. Len(p) : a[i] = p[i]
  BY AppendProperties
<1> HIDE DEF a
<1>2. CASE Len(p) = 0
  <2>1. Len(a) = 1 /\ a[1] = c
    BY <1>1, <1>2
  <2>2. Queued(a) = c /\ Queued(p) = <<>>
    BY <1>2, <2>1 DEF Queued
  <2> QED
    BY <1>1, <2>2, JoinedChunks, Zenon DEF a
<1>3. CASE Len(p) = 1
  <2>1. Len(a) = 2 /\ a[1] = p[1] /\ a[2] = c
    BY <1>1, <1>3
  <2>2. Queued(a) = Joined(p[1], c) /\ Queued(p) = p[1]
    BY <1>3, <2>1 DEF Queued
  <2> QED
    BY <1>1, <2>2, Zenon DEF a
<1>4. Len(p) <= QueueLimit /\ Len(p) # 2
  <2>1. Len(p) \in Nat /\ Len(p) < 2
    BY DEF QueueLimit
  <2>2. \A n \in Nat : n < 2 => n <= 2 /\ n # 2
    OBVIOUS
  <2> QED
    BY <2>1, <2>2, Zenon DEF QueueLimit
<1> QED
  BY <1>2, <1>3, <1>4, QueueLengths, Zenon

\* The first chunk of the queue and the others are the queue.
LEMMA QueuedTake ==
  ASSUME NEW p \in Seq(Chunks), Len(p) <= QueueLimit, p # <<>>
  PROVE  /\ Head(p) \in Chunks /\ Tail(p) \in Seq(Chunks) /\ Len(Tail(p)) < QueueLimit
         /\ Queued(p) = Joined(Head(p), Queued(Tail(p)))
<1> DEFINE t == Tail(p)
<1>1. /\ Head(p) \in Chunks /\ t \in Seq(Chunks) /\ Len(t) = Len(p) - 1
      /\ \A i \in 1 .. Len(t) : t[i] = p[i + 1]
  BY HeadTailProperties
<1>2. Len(p) # 0 /\ Head(p) = p[1]
  BY EmptySeq
<1> HIDE DEF t
<1>3. CASE Len(p) = 1
  <2>1. Len(t) = 0
    BY <1>1, <1>3
  <2>2. Queued(p) = p[1] /\ Queued(t) = <<>> /\ Len(t) < QueueLimit
    BY <1>3, <2>1 DEF Queued, QueueLimit
  <2> QED
    BY <1>1, <1>2, <2>2, JoinedChunks, Zenon DEF t
<1>4. CASE Len(p) = 2
  <2>1. Len(t) = 1 /\ t[1] = p[2]
    BY <1>1, <1>4
  <2>2. Queued(p) = Joined(p[1], p[2]) /\ Queued(t) = p[2] /\ Len(t) < QueueLimit
    BY <1>4, <2>1 DEF Queued, QueueLimit
  <2> QED
    BY <1>1, <1>2, <2>2, Zenon DEF t
<1> QED
  BY <1>2, <1>3, <1>4, QueueLengths, Zenon

\* The log is what comes first of all the records.
LEMMA LoggedPrefix ==
  ASSUME NEW o \in Chunks, NEW r \in Chunks, NEW n \in Nat, Logged(o \o r, n)
  PROVE  Logged(o, n)
<1>1. /\ Len(o \o r) = Len(o) + Len(r)
      /\ \A i \in 1 .. Len(o) + Len(r) :
           (o \o r)[i] = IF i <= Len(o) THEN o[i] ELSE r[i - Len(o)]
  BY ConcatProperties DEF Chunks
<1>2. Len(o) \in Nat /\ Len(r) \in Nat
  BY DEF Chunks
<1>3. SUFFICES ASSUME NEW i \in 1 .. Len(o)
               PROVE  o[i] \in IF i <= n THEN {Record(i, "executed")}
                               ELSE {Record(n, k) : k \in {"not fetched", "final"}}
  BY DEF Logged
<1>4. i \in 1 .. Len(o) + Len(r) /\ i <= Len(o)
  BY <1>2
<1>5. (o \o r)[i] = o[i]
  BY <1>1, <1>4
<1>6. i \in 1 .. Len(o \o r)
  BY <1>1, <1>4
<1> QED
  BY <1>5, <1>6, Zenon DEF Logged

\* A chunk is what of it is written and the rest.
LEMMA LoggedSubSeq ==
  ASSUME NEW s \in Chunks, NEW n \in Nat, NEW k \in 0 .. Len(s)
  PROVE  \E r \in Chunks : /\ SubSeq(s, 1, k) \in Chunks
                           /\ s = SubSeq(s, 1, k) \o r
<1> DEFINE r == SubSeq(s, k + 1, Len(s))
<1>1. Len(s) \in Nat
  BY DEF Chunks
<1>2. \A i \in 1 .. Len(s) : s[i] \in Rec
  BY ElementOfSeq DEF Chunks
<1>3. SubSeq(s, 1, k) \in Chunks
  <2>1. 1 \in Int /\ k \in Int /\ \A i \in 1 .. k : s[i] \in Rec
    BY <1>1, <1>2
  <2> QED
    BY <2>1, SubSeqProperties DEF Chunks
<1>4. r \in Chunks
  <2>1. k + 1 \in Int /\ Len(s) \in Int /\ \A i \in k + 1 .. Len(s) : s[i] \in Rec
    BY <1>1, <1>2
  <2> QED
    BY <2>1, SubSeqProperties DEF Chunks
<1>5. SubSeq(s, 1, k) \o r = SubSeq(s, 1, Len(s))
  <2>1. /\ 1 \in 1 .. Len(s) + 1 /\ k \in 1 - 1 .. Len(s) /\ Len(s) \in k .. Len(s)
    BY <1>1
  <2> QED
    BY <2>1, ConcatAdjacentSubSeq DEF Chunks
<1>6. SubSeq(s, 1, Len(s)) = s
  BY SubSeqFull DEF Chunks
<1> QED
  BY <1>3, <1>4, <1>5, <1>6

\* A record is added at the end of a run under way.
LEMMA WholeAppend ==
  ASSUME NEW s \in Chunks, NEW n \in Nat, Whole(s, n, TRUE)
  PROVE  Whole(s \o <<Record(n + 1, "executed")>>, n + 1, TRUE)
<1> DEFINE r == Record(n + 1, "executed")
           t == s \o <<r>>
<1>1. <<r>> \in Chunks
  <2>1. r \in Rec
    BY DEF Record, Rec
  <2> HIDE DEF r
  <2> QED
    BY <2>1 DEF Chunks
<1>2. /\ Len(t) = Len(s) + 1
      /\ \A i \in 1 .. Len(s) + 1 : t[i] = IF i <= Len(s) THEN s[i] ELSE <<r>>[i - Len(s)]
  BY <1>1, ConcatProperties DEF Chunks
<1>3. Len(s) = n
  BY DEF Whole
<1> HIDE DEF r, t
<1>4. ASSUME NEW i \in 1 .. Len(t)
      PROVE  t[i] = Record(i, "executed") /\ i <= n + 1
  <2>1. i \in 1 .. n + 1
    BY <1>2, <1>3
  <2>2. CASE i <= n
    <3>1. i \in 1 .. Len(s)
      BY <1>3, <2>1, <2>2
    <3>2. s[i] \in {Record(i, "executed")}
      BY <2>2, <3>1, Zenon DEF Whole, Logged
    <3> QED
      BY <1>2, <1>3, <2>1, <2>2, <3>2
  <2>3. CASE i = n + 1
    <3>1. ~(i <= Len(s)) /\ i - Len(s) = 1 /\ i \in 1 .. Len(s) + 1
      BY <1>3, <2>1, <2>3
    <3>2. t[i] = <<r>>[1]
      BY <1>2, <3>1
    <3> QED
      BY <2>1, <2>3, <3>2 DEF r
  <2> QED
    BY <2>1, <2>2, <2>3
<1>5. Logged(t, n + 1)
  BY <1>4, Zenon DEF Logged
<1> QED
  BY <1>2, <1>3, <1>5 DEF Whole, t, r

\* Two records are a chunk.
LEMMA PairOf ==
  ASSUME NEW S, NEW x \in S, NEW y \in S
  PROVE  <<x, y>> \in Seq(S) /\ Len(<<x, y>>) = 2 /\ <<x, y>>[1] = x /\ <<x, y>>[2] = y
OBVIOUS

\* Two records at the end of a chunk.
LEMMA ConcatPair ==
  ASSUME NEW S, NEW s \in Seq(S), NEW e \in Seq(S), Len(e) = 2
  PROVE  /\ Len(s \o e) = Len(s) + 2
         /\ \A i \in 1 .. Len(s) + 2 :
              (s \o e)[i] = IF i <= Len(s) THEN s[i] ELSE e[i - Len(s)]
<1> DEFINE t == s \o e
<1>1. /\ Len(t) = Len(s) + Len(e)
      /\ \A i \in 1 .. Len(s) + Len(e) : t[i] = IF i <= Len(s) THEN s[i] ELSE e[i - Len(s)]
  BY ConcatProperties
<1> HIDE DEF t
<1> QED
  BY <1>1, Zenon DEF t

\* The places of the last two records.
LEMMA StopNumbers ==
  ASSUME NEW n \in Nat, NEW m \in Nat, m = n \/ m = n + 1
  PROVE  /\ \A i \in 1 .. n : i \in 1 .. n + 2 /\ i <= n /\ i <= m
         /\ n + 1 \in 1 .. n + 2 /\ ~(n + 1 <= n) /\ (n + 1) - n = 1
         /\ n + 2 \in 1 .. n + 2 /\ ~(n + 2 <= n) /\ (n + 2) - n = 2
         /\ ~(n + 2 <= m) /\ n + 2 > m
         /\ m = n => ~(n + 1 <= m)
         /\ m # n => n + 1 <= m
         /\ \A i \in 1 .. n + 2 : i \in 1 .. n \/ i = n + 1 \/ i = n + 2
OBVIOUS

\* The last record of the run, and the final one.
LEMMA WholeStop ==
  ASSUME NEW s \in Chunks, NEW n \in Nat, Whole(s, n, TRUE),
         NEW m \in Nat, m = n \/ m = n + 1,
         NEW kind \in {"not fetched", "executed"},
         m = n => kind = "not fetched", m # n => kind = "executed"
  PROVE  /\ <<Record(m, kind), Record(m, "final")>> \in Chunks
         /\ Whole(s \o <<Record(m, kind), Record(m, "final")>>, m, FALSE)
<1> DEFINE l == Record(m, kind)
           f == Record(m, "final")
           e == <<l, f>>
           t == s \o e
<1>1. l \in Rec /\ f \in Rec /\ f.kind = "final"
  BY RecordTypes DEF Record
<1> HIDE DEF l, f
<1>2. e \in Chunks /\ Len(e) = 2 /\ e[1] = l /\ e[2] = f
  BY <1>1, PairOf, Zenon DEF Chunks
<1> HIDE DEF e
<1>3. /\ Len(t) = Len(s) + 2
      /\ \A i \in 1 .. Len(s) + 2 : t[i] = IF i <= Len(s) THEN s[i] ELSE e[i - Len(s)]
  <2>1. s \in Seq(Rec) /\ e \in Seq(Rec)
    BY <1>2, Zenon DEF Chunks
  <2> QED
    BY <1>2, <2>1, ConcatPair, Zenon
<1>4. Len(s) = n
  BY DEF Whole
<1> HIDE DEF t
<1>5. /\ \A i \in 1 .. n : i \in 1 .. n + 2 /\ i <= n /\ i <= m
      /\ n + 1 \in 1 .. n + 2 /\ ~(n + 1 <= n) /\ (n + 1) - n = 1
      /\ n + 2 \in 1 .. n + 2 /\ ~(n + 2 <= n) /\ (n + 2) - n = 2
      /\ ~(n + 2 <= m) /\ n + 2 > m
      /\ m = n => ~(n + 1 <= m)
      /\ m # n => n + 1 <= m
      /\ \A i \in 1 .. n + 2 : i \in 1 .. n \/ i = n + 1 \/ i = n + 2
  BY StopNumbers, Zenon
<1>6. Len(t) = n + 2 /\ Len(t) > m
  BY <1>3, <1>4, <1>5, Zenon
<1>7. t[n + 1] = l /\ t[n + 2] = f
  BY ZenonT(40), <1>2, <1>3, <1>4, <1>5
<1>8. \A i \in 1 .. n : t[i] \in {Record(i, "executed")}
  <2>1. \A i \in 1 .. n : s[i] \in {Record(i, "executed")}
    BY <1>4, <1>5, Zenon DEF Whole, Logged
  <2> QED
    BY <1>3, <1>4, <1>5, <2>1, Zenon
<1>9. t[n + 1] \in IF n + 1 <= m THEN {Record(n + 1, "executed")}
                   ELSE {Record(m, k) : k \in {"not fetched", "final"}}
  BY <1>5, <1>7, Zenon DEF l
<1>10. t[n + 2] \in IF n + 2 <= m THEN {Record(n + 2, "executed")}
                    ELSE {Record(m, k) : k \in {"not fetched", "final"}}
  BY <1>5, <1>7, Zenon DEF f
<1>11. Logged(t, m)
  BY <1>5, <1>6, <1>8, <1>9, <1>10, Zenon DEF Logged
<1> QED
  BY <1>1, <1>2, <1>6, <1>7, <1>11, Zenon DEF Whole, t, e, l, f

\* The log so far is as good for a longer run, while the run is under way.
LEMMA LoggedLonger ==
  ASSUME NEW s \in Chunks, NEW n \in Nat, Logged(s, n), Len(s) <= n,
         NEW k \in Nat, n <= k
  PROVE  Logged(s, k) /\ Len(s) <= k
<1>1. Len(s) \in Nat
  BY DEF Chunks
<1>2. \A i \in 1 .. Len(s) : i <= n /\ i <= k
  BY <1>1
<1>3. \A i \in 1 .. Len(s) : s[i] \in {Record(i, "executed")}
  BY <1>2, Zenon DEF Logged
<1>4. Logged(s, k)
  BY <1>2, <1>3, Zenon DEF Logged
<1> QED
  BY <1>1, <1>4

-----------------------------------------------------------------------------
(* Steps of the two threads *)

\* What the parts of the state are.
LEMMA MadeTypes ==
  ASSUME NEW b, Threads(b)
  PROVE  /\ b.count \in Nat /\ b.output \in Chunks /\ b.writing \in Chunks
         /\ b.chunk \in Chunks /\ b.pending \in Seq(Chunks) /\ Len(b.pending) <= QueueLimit
         /\ Queued(b.pending) \in Chunks /\ Made(b) \in Chunks
<1>1. /\ b.count \in Nat /\ b.output \in Chunks /\ b.writing \in Chunks
      /\ b.chunk \in Chunks /\ b.pending \in Seq(Chunks) /\ Len(b.pending) <= QueueLimit
  BY DEF Threads, BatchState
<1>2. Queued(b.pending) \in Chunks
  BY <1>1, QueuedTypes, Zenon
<1> QED
  BY <1>1, <1>2, ChainedTypes, Zenon DEF Made

\* The records made after a step that adds some to the chunk.
LEMMA MadeMore ==
  ASSUME NEW b, NEW d, Threads(b), NEW t \in Chunks, NEW c, c = Joined(b.chunk, t),
         d.output = b.output, d.writing = b.writing, d.pending = b.pending, d.chunk = c
  PROVE  Made(d) = Joined(Made(b), t)
<1>1. Made(d) = Chained(b.output, b.writing, Queued(b.pending), Joined(b.chunk, t))
  BY DEF Made
<1>2. /\ b.output \in Chunks /\ b.writing \in Chunks
      /\ Queued(b.pending) \in Chunks /\ b.chunk \in Chunks
  BY MadeTypes, Zenon
<1>3. Made(d) = Joined(Chained(b.output, b.writing, Queued(b.pending), b.chunk), t)
  BY <1>1, <1>2, ChainedMore
<1> QED
  BY <1>3, Zenon DEF Made

\* A step that moves no record.
LEMMA MadeSame ==
  ASSUME NEW b, NEW d, d.output = b.output, d.writing = b.writing,
         d.pending = b.pending, d.chunk = b.chunk
  PROVE  Made(d) = Made(b)
BY DEF Made

\* A step that submits the chunk.
LEMMA MadeSubmitted ==
  ASSUME NEW b, NEW d, Threads(b), d.output = b.output, d.writing = b.writing,
         Queued(d.pending) = Joined(Queued(b.pending), b.chunk), d.chunk = <<>>
  PROVE  Made(d) = Made(b)
<1>1. Made(d) = Chained(b.output, b.writing, Joined(Queued(b.pending), b.chunk), <<>>)
  BY DEF Made
<1>2. /\ b.output \in Chunks /\ b.writing \in Chunks
      /\ Queued(b.pending) \in Chunks /\ b.chunk \in Chunks
  BY MadeTypes, Zenon
<1>3. Made(d) = Chained(b.output, b.writing, Queued(b.pending), b.chunk)
  BY <1>1, <1>2, ChainedSubmit
<1> QED
  BY <1>3, Zenon DEF Made

\* A step that takes a chunk from the queue.
LEMMA MadeTaken ==
  ASSUME NEW b, NEW d, Threads(b), b.writing = <<>>, NEW h \in Chunks, NEW p \in Seq(Chunks),
         Len(p) <= QueueLimit, Queued(b.pending) = Joined(h, Queued(p)),
         d.output = b.output, d.writing = h, d.pending = p, d.chunk = b.chunk
  PROVE  Made(d) = Made(b)
<1>1. Made(d) = Chained(b.output, h, Queued(p), b.chunk)
  BY DEF Made
<1>2. Made(b) = Chained(b.output, <<>>, Joined(h, Queued(p)), b.chunk)
  BY DEF Made
<1>3. b.output \in Chunks /\ Queued(p) \in Chunks /\ b.chunk \in Chunks
  BY MadeTypes, QueuedTypes, Zenon
<1>4. Chained(b.output, h, Queued(p), b.chunk)
        = Chained(b.output, <<>>, Joined(h, Queued(p)), b.chunk)
  BY <1>3, ChainedTake
<1> QED
  BY <1>1, <1>2, <1>4, Zenon

\* The number of the next instruction.
LEMMA NextNumber == \A n \in Nat : n + 1 \in Nat /\ n + 1 # n /\ n <= n + 1 /\ n <= n
OBVIOUS

\* An executed instruction.
LEMMA InstructShape ==
  ASSUME BatchInv, Instruct
  PROVE  BatchShape(batch')
<1> DEFINE n == batch.count
           r == Record(n + 1, "executed")
<1>1. Threads(batch) /\ Sleeping(batch) /\ Logging(batch)
  BY DEF BatchInv, BatchShape
<1>2. batch.main = "run" /\ n \in Nat /\ batch.chunk \in Chunks /\ n + 1 \in Nat
  BY <1>1, MadeTypes DEF Instruct
<1>3. r \in Rec
  BY <1>2, RecordTypes
<1> HIDE DEF r
<1>4. PICK m \in {"run", "submit"} :
        batch' = [batch EXCEPT !.count = n + 1, !.chunk = Append(batch.chunk, r), !.main = m]
  BY Zenon DEF Instruct, r
<1>5. Append(batch.chunk, r) \in Chunks /\ <<r>> \in Chunks
      /\ Append(batch.chunk, r) = Joined(batch.chunk, <<r>>)
  BY <1>2, <1>3 DEF Chunks, Joined
<1>6. /\ batch' \in BatchState /\ batch'.count = n + 1 /\ batch'.main = m
      /\ batch'.chunk = Append(batch.chunk, r) /\ batch'.output = batch.output
      /\ batch'.writing = batch.writing /\ batch'.pending = batch.pending
      /\ batch'.stopping = batch.stopping /\ batch'.writeError = batch.writeError
      /\ batch'.worker = batch.worker /\ batch'.asleep = batch.asleep
  BY <1>1, <1>2, <1>4, <1>5 DEF Threads, BatchState
<1>7. Threads(batch')
  BY <1>1, <1>2, <1>6 DEF Threads
<1>8. Sleeping(batch')
  BY <1>1, <1>2, <1>6 DEF Sleeping
<1>9. Running(batch) /\ Running(batch')
  BY <1>2, <1>6 DEF Running
<1>10. Made(batch') = Joined(Made(batch), <<r>>)
  BY <1>1, <1>5, <1>6, MadeMore, Zenon
<1>11. ASSUME ~batch.writeError PROVE Whole(Made(batch'), n + 1, TRUE)
  <2>1. Whole(Made(batch), n, TRUE) /\ Made(batch) \in Chunks
    <3>1. Whole(Made(batch), n, Running(batch))
      BY <1>1, <1>11 DEF Logging
    <3>2. Whole(Made(batch), n, TRUE)
      BY <1>9, <3>1 DEF Whole
    <3> QED
      BY <1>1, <3>2, MadeTypes, Zenon
  <2>2. Whole(Joined(Made(batch), <<r>>), n + 1, TRUE)
    BY <1>2, <2>1, WholeAppend, Zenon DEF Joined, r
  <2> QED
    BY <1>10, <2>2, Zenon
<1>12. Logged(batch'.output, n + 1) /\ Len(batch'.output) <= n + 1
  <2>1. n <= n + 1 /\ Logged(batch.output, n) /\ Len(batch.output) <= n
    BY <1>1, <1>2, <1>9, NextNumber, Zenon DEF Logging
  <2>2. batch.output \in Chunks
    BY <1>1, MadeTypes, Zenon
  <2>3. Logged(batch.output, n + 1) /\ Len(batch.output) <= n + 1
    BY <1>2, <2>1, <2>2, LoggedLonger, Zenon
  <2> QED
    BY <1>6, <2>3, Zenon
<1>13. ~batch'.writeError => Whole(Made(batch'), n + 1, Running(batch'))
  BY <1>6, <1>9, <1>11 DEF Whole
<1>14. Logging(batch')
  BY <1>6, <1>12, <1>13, Zenon DEF Logging
<1> QED
  BY <1>7, <1>8, <1>14, Zenon DEF BatchShape

\* The end of the run.
LEMMA StopShape ==
  ASSUME BatchInv, StopRun
  PROVE  BatchShape(batch')
<1> DEFINE n == batch.count
<1>1. Threads(batch) /\ Sleeping(batch) /\ Logging(batch)
  BY DEF BatchInv, BatchShape
<1>2. batch.main = "run" /\ n \in Nat /\ batch.chunk \in Chunks
  BY <1>1, MadeTypes DEF StopRun
<1>3. PICK m \in Nat, kind \in {"not fetched", "executed"} :
        /\ m = n \/ m = n + 1
        /\ m = n => kind = "not fetched"
        /\ m # n => kind = "executed"
        /\ batch' = [batch EXCEPT !.count = m,
                      !.chunk = @ \o <<Record(m, kind), Record(m, "final")>>,
                      !.main = "submitLast"]
  <2>1. PICK last \in {Record(n, "not fetched"), Record(n + 1, "executed")} :
          batch' = [batch EXCEPT !.count = last.count,
                      !.chunk = @ \o <<last, Record(last.count, "final")>>, !.main = "submitLast"]
    BY Zenon DEF StopRun
  <2>2. Record(n, "not fetched").count = n /\ Record(n + 1, "executed").count = n + 1
    BY DEF Record
  <2>3. CASE last = Record(n, "not fetched")
    BY <1>2, <2>1, <2>2, <2>3, Zenon
  <2>4. CASE last = Record(n + 1, "executed")
    <3>1. n + 1 \in Nat /\ n + 1 # n
      BY <1>2, NextNumber, Zenon
    <3> QED
      BY <2>1, <2>2, <2>4, <3>1, Zenon
  <2> QED
    BY <2>1, <2>3, <2>4, Zenon
<1> DEFINE t == <<Record(m, kind), Record(m, "final")>>
<1>4. t \in Chunks
  <2>1. Record(m, kind) \in Rec /\ Record(m, "final") \in Rec
    BY RecordTypes
  <2> QED
    BY <2>1, PairOf, Zenon DEF Chunks
<1>5. batch.chunk \o t \in Chunks
  BY <1>2, <1>4, JoinedChunks, Zenon DEF Joined
<1> DEFINE c == batch.chunk \o t
<1>6. batch' = [batch EXCEPT !.count = m, !.chunk = c, !.main = "submitLast"]
  BY <1>3
<1>7. c \in Chunks /\ c = Joined(batch.chunk, t)
  BY <1>5 DEF Joined
<1> HIDE DEF c
<1>8. /\ batch' \in BatchState /\ batch'.count = m /\ batch'.main = "submitLast"
      /\ batch'.chunk = c /\ batch'.output = batch.output
      /\ batch'.writing = batch.writing /\ batch'.pending = batch.pending
      /\ batch'.stopping = batch.stopping /\ batch'.writeError = batch.writeError
      /\ batch'.worker = batch.worker /\ batch'.asleep = batch.asleep
  BY <1>1, <1>6, <1>7 DEF Threads, BatchState
<1>9. Threads(batch')
  BY <1>1, <1>2, <1>8 DEF Threads
<1>10. Sleeping(batch')
  BY <1>1, <1>2, <1>8 DEF Sleeping
<1>11. Running(batch) /\ ~Running(batch')
  BY <1>2, <1>8 DEF Running
<1>12. Made(batch') = Joined(Made(batch), t)
  <2> HIDE DEF t
  <2> QED
    BY <1>1, <1>4, <1>7, <1>8, MadeMore, Zenon
<1>13. ASSUME ~batch.writeError PROVE Whole(Made(batch'), m, FALSE)
  <2>1. Whole(Made(batch), n, TRUE) /\ Made(batch) \in Chunks
    <3>1. Whole(Made(batch), n, Running(batch))
      BY <1>1, <1>13 DEF Logging
    <3>2. Whole(Made(batch), n, TRUE)
      BY <1>11, <3>1 DEF Whole
    <3> QED
      BY <1>1, <3>2, MadeTypes, Zenon
  <2>2. Whole(Joined(Made(batch), t), m, FALSE)
    BY <1>2, <1>3, <2>1, WholeStop, Zenon DEF Joined
  <2> QED
    BY <1>12, <2>2, Zenon
<1>14. Logged(batch'.output, m)
  <2>1. n <= m
    BY <1>2, <1>3, NextNumber, Zenon
  <2>2. Logged(batch.output, n) /\ Len(batch.output) <= n
    BY <1>1, <1>11, Zenon DEF Logging
  <2>3. batch.output \in Chunks
    BY <1>1, MadeTypes, Zenon
  <2>4. Logged(batch.output, m)
    BY <1>2, <2>1, <2>2, <2>3, LoggedLonger, Zenon
  <2> QED
    BY <1>8, <2>4, Zenon
<1>15. ~batch'.writeError => Whole(Made(batch'), m, Running(batch'))
  BY <1>8, <1>11, <1>13 DEF Whole
<1>16. Logging(batch')
  BY <1>8, <1>11, <1>14, <1>15, Zenon DEF Logging
<1> QED
  BY <1>9, <1>10, <1>16, Zenon DEF BatchShape

\* A step that adds no record and does not write keeps what is said of the log.
LEMMA LoggingSame ==
  ASSUME NEW b, NEW d, Logging(b), d.output = b.output, d.count = b.count,
         Running(d) => Running(b),
         ~d.writeError => ~b.writeError /\ Made(d) = Made(b) /\ (Running(b) => Running(d))
  PROVE  Logging(d)
<1>1. Logged(d.output, d.count) /\ (Running(d) => Len(d.output) <= d.count)
  BY Zenon DEF Logging
<1>2. ASSUME ~d.writeError PROVE Whole(Made(d), d.count, Running(d))
  <2>1. Whole(Made(b), b.count, Running(b))
    BY <1>2, Zenon DEF Logging
  <2> QED
    BY <1>2, <2>1, Zenon DEF Whole
<1> QED
  BY <1>1, <1>2, Zenon DEF Logging

\* A chunk is submitted, or waits for room, or is dropped after an error.
LEMMA SubmitShape ==
  ASSUME BatchInv, Submit
  PROVE  BatchShape(batch')
<1>1. Threads(batch) /\ Sleeping(batch) /\ Logging(batch)
  BY DEF BatchInv, BatchShape
<1>2. /\ batch \in BatchState /\ batch.main \in {"submit", "submitLast"} /\ ~batch.stopping
      /\ Len(batch.pending) \in Nat
  BY <1>1 DEF Submit, Threads, BatchState
<1>3. CASE ~MaySubmit
  <2>1. batch' = [batch EXCEPT !.asleep = @ \union {"main"}]
    BY <1>3 DEF Submit
  <2>2. /\ batch' \in BatchState /\ batch'.count = batch.count /\ batch'.main = batch.main
        /\ batch'.chunk = batch.chunk /\ batch'.output = batch.output
        /\ batch'.writing = batch.writing /\ batch'.pending = batch.pending
        /\ batch'.stopping = batch.stopping /\ batch'.writeError = batch.writeError
        /\ batch'.worker = batch.worker /\ batch'.asleep = batch.asleep \union {"main"}
    BY <1>2, <2>1 DEF BatchState
  <2>3. Threads(batch')
    BY <1>1, <2>2 DEF Threads
  <2>4. ~batch.writeError /\ Len(batch.pending) >= QueueLimit
    BY <1>2, <1>3 DEF MaySubmit, QueueLimit
  <2>5. Sleeping(batch')
    BY <1>1, <1>2, <2>2, <2>4 DEF Sleeping
  <2>6. Made(batch') = Made(batch)
    BY <2>2, MadeSame, Zenon
  <2>7. Running(batch') <=> Running(batch)
    BY <2>2 DEF Running
  <2>8. Logging(batch')
    BY <1>1, <2>2, <2>6, <2>7, LoggingSame, Zenon
  <2> QED
    BY <2>3, <2>5, <2>8, Zenon DEF BatchShape
<1>4. CASE MaySubmit /\ (batch.writeError \/ batch.chunk = <<>>)
  <2>1. PICK m \in {"submitLast", "finish", "run"} :
          /\ batch' = [batch EXCEPT !.main = m]
          /\ m = "run" => batch.main = "submit" /\ ~batch.writeError
          /\ m = "submitLast" => batch.writeError
          /\ m = "finish" => batch.main = "submitLast"
    BY <1>2, <1>4 DEF Submit, Submitted
  <2>2. /\ batch' \in BatchState /\ batch'.count = batch.count /\ batch'.main = m
        /\ batch'.chunk = batch.chunk /\ batch'.output = batch.output
        /\ batch'.writing = batch.writing /\ batch'.pending = batch.pending
        /\ batch'.stopping = batch.stopping /\ batch'.writeError = batch.writeError
        /\ batch'.worker = batch.worker /\ batch'.asleep = batch.asleep
    BY <1>2, <2>1 DEF BatchState
  <2>3. Threads(batch')
    BY <1>1, <1>2, <1>4, <2>1, <2>2 DEF Threads
  <2>4. Sleeping(batch')
    BY <1>1, <1>2, <2>2 DEF Sleeping, Submit
  <2>5. Made(batch') = Made(batch)
    BY <2>2, MadeSame, Zenon
  <2>6. /\ Running(batch') => Running(batch)
        /\ ~batch.writeError /\ Running(batch) => Running(batch')
    BY <2>1, <2>2 DEF Running
  <2>7. Logging(batch')
    BY <1>1, <2>2, <2>5, <2>6, LoggingSame, Zenon
  <2> QED
    BY <2>3, <2>4, <2>7, Zenon DEF BatchShape
<1>5. CASE MaySubmit /\ ~batch.writeError /\ batch.chunk # <<>>
  <2>1. Len(batch.pending) < QueueLimit
    BY <1>2, <1>5 DEF MaySubmit
  <2> DEFINE p == Append(batch.pending, batch.chunk)
  <2>2. PICK m \in {"finish", "run"} :
          /\ batch' = [batch EXCEPT !.pending = p, !.chunk = <<>>, !.asleep = {}, !.main = m]
          /\ m = "run" => batch.main = "submit"
          /\ m = "finish" => batch.main = "submitLast"
    BY <1>2, <1>5 DEF Submit, Submitted, Notified
  <2>3. batch.pending \in Seq(Chunks) /\ batch.chunk \in Chunks
    BY <1>1, MadeTypes, Zenon
  <2>4. p \in Seq(Chunks) /\ Len(p) = Len(batch.pending) + 1
        /\ Queued(p) = Joined(Queued(batch.pending), batch.chunk)
    BY <2>1, <2>3, QueuedAppend, Zenon
  <2>5. Len(p) <= QueueLimit
    BY <1>2, <2>1, <2>4 DEF QueueLimit
  <2> HIDE DEF p
  <2>6. <<>> \in Chunks
    BY JoinedChunks, Zenon
  <2>7. /\ batch' \in BatchState /\ batch'.count = batch.count /\ batch'.main = m
        /\ batch'.chunk = <<>> /\ batch'.output = batch.output
        /\ batch'.writing = batch.writing /\ batch'.pending = p
        /\ batch'.stopping = batch.stopping /\ batch'.writeError = batch.writeError
        /\ batch'.worker = batch.worker /\ batch'.asleep = {}
    BY <1>2, <2>2, <2>4, <2>6 DEF BatchState
  <2>8. Threads(batch')
    BY <1>1, <1>2, <1>5, <2>2, <2>5, <2>7 DEF Threads
  <2>9. Sleeping(batch')
    BY <2>7 DEF Sleeping
  <2>10. Made(batch') = Made(batch)
    BY <1>1, <2>4, <2>7, MadeSubmitted, Zenon
  <2>11. Running(batch') <=> Running(batch)
    BY <1>2, <2>2, <2>7 DEF Running
  <2>12. Logging(batch')
    BY <1>1, <2>7, <2>10, <2>11, LoggingSame, Zenon
  <2> QED
    BY <2>8, <2>9, <2>12, Zenon DEF BatchShape
<1> QED
  BY <1>3, <1>4, <1>5

\* The run is over, and then the writer.
LEMMA FinishShape ==
  ASSUME BatchInv, Finish \/ Join
  PROVE  BatchShape(batch')
<1>1. Threads(batch) /\ Sleeping(batch) /\ Logging(batch)
  BY DEF BatchInv, BatchShape
<1>2. batch \in BatchState
  BY <1>1 DEF Threads
<1>3. /\ batch' \in BatchState /\ batch'.count = batch.count
      /\ batch'.chunk = batch.chunk /\ batch'.output = batch.output
      /\ batch'.writing = batch.writing /\ batch'.pending = batch.pending
      /\ batch'.writeError = batch.writeError
      /\ batch'.worker = batch.worker
      /\ batch'.stopping = TRUE
      /\ \/ batch.main = "finish" /\ batch'.main = "join" /\ batch'.asleep = {}
         \/ /\ batch.main = "join" /\ batch'.main = "ended" /\ batch.worker = "done"
            /\ batch'.asleep = batch.asleep
  <2>1. CASE Finish
    <3>1. batch.main = "finish"
          /\ batch' = [batch EXCEPT !.stopping = TRUE, !.main = "join", !.asleep = {}]
      BY <2>1 DEF Finish, Notified
    <3> QED
      BY <1>2, <3>1 DEF BatchState
  <2>2. CASE Join
    <3>1. batch.main = "join" /\ batch.worker = "done" /\ batch' = [batch EXCEPT !.main = "ended"]
      BY <2>2 DEF Join
    <3>2. batch.stopping = TRUE
      BY <1>1, <1>2, <3>1 DEF Threads, BatchState
    <3> QED
      BY <1>2, <3>1, <3>2 DEF BatchState
  <2> QED
    BY <2>1, <2>2
<1>4. Threads(batch')
  BY <1>1, <1>3 DEF Threads
<1>5. Sleeping(batch')
  BY <1>1, <1>3 DEF Sleeping
<1>6. Made(batch') = Made(batch)
  BY <1>3, MadeSame, Zenon
<1>7. ~Running(batch') /\ ~Running(batch)
  BY <1>3 DEF Running
<1>8. Logging(batch')
  BY <1>1, <1>3, <1>6, <1>7, LoggingSame, Zenon
<1> QED
  BY <1>4, <1>5, <1>8, Zenon DEF BatchShape

\* The writer takes a chunk, goes to sleep or returns.
LEMMA WaitOverShape ==
  ASSUME BatchInv, WaitOver
  PROVE  BatchShape(batch')
<1>1. Threads(batch) /\ Sleeping(batch) /\ Logging(batch)
  BY DEF BatchInv, BatchShape
<1>2. /\ batch \in BatchState /\ batch.worker = "wait" /\ ~batch.writeError
      /\ batch.writing = <<>> /\ batch.main # "ended"
  BY <1>1 DEF WaitOver, Threads
<1>3. CASE batch.pending = <<>>
  <2>1. PICK w \in {"wait", "done"}, a \in {{}, {"worker"}} :
          /\ batch' = [batch EXCEPT !.worker = w, !.asleep = @ \union a]
          /\ w = "done" => batch.stopping
          /\ a # {} => w = "wait" /\ ~batch.stopping
    <3>1. CASE batch.stopping
      <4>1. batch' = [batch EXCEPT !.worker = "done"]
        BY <1>3, <3>1 DEF WaitOver, NothingLeft
      <4>2. batch' = [batch EXCEPT !.worker = "done", !.asleep = @ \union {}]
        BY <1>2, <4>1 DEF BatchState
      <4> QED
        BY <3>1, <4>2
    <3>2. CASE ~batch.stopping
      <4>1. batch' = [batch EXCEPT !.asleep = @ \union {"worker"}]
        BY <1>3, <3>2 DEF WaitOver, NothingLeft
      <4>2. batch' = [batch EXCEPT !.worker = "wait", !.asleep = @ \union {"worker"}]
        BY <1>2, <4>1 DEF BatchState
      <4> QED
        BY <3>2, <4>2
    <3> QED
      BY <3>1, <3>2
  <2>2. /\ batch' \in BatchState /\ batch'.count = batch.count /\ batch'.main = batch.main
        /\ batch'.chunk = batch.chunk /\ batch'.output = batch.output
        /\ batch'.writing = batch.writing /\ batch'.pending = batch.pending
        /\ batch'.stopping = batch.stopping /\ batch'.writeError = batch.writeError
        /\ batch'.worker = w /\ batch'.asleep = batch.asleep \union a
    BY <1>2, <2>1 DEF BatchState
  <2>3. Threads(batch')
    BY <1>1, <1>2, <1>3, <2>1, <2>2 DEF Threads
  <2>4. Sleeping(batch')
    BY <1>1, <1>2, <1>3, <2>1, <2>2 DEF Sleeping, WaitOver
  <2>5. Made(batch') = Made(batch)
    BY <2>2, MadeSame, Zenon
  <2>6. Running(batch') <=> Running(batch)
    BY <2>2 DEF Running
  <2>7. Logging(batch')
    BY <1>1, <2>2, <2>5, <2>6, LoggingSame, Zenon
  <2> QED
    BY <2>3, <2>4, <2>7, Zenon DEF BatchShape
<1>4. CASE batch.pending # <<>>
  <2> DEFINE h == Head(batch.pending)
             p == Tail(batch.pending)
  <2>1. batch' = [batch EXCEPT !.writing = h, !.pending = p, !.worker = "write", !.asleep = {}]
    BY <1>4 DEF WaitOver, NothingLeft, Taken, Notified
  <2>2. batch.pending \in Seq(Chunks) /\ Len(batch.pending) <= QueueLimit
    BY <1>1, MadeTypes, Zenon
  <2>3. /\ h \in Chunks /\ p \in Seq(Chunks) /\ Len(p) < QueueLimit
        /\ Queued(batch.pending) = Joined(h, Queued(p))
    BY <1>4, <2>2, QueuedTake, Zenon
  <2>4. Len(p) <= QueueLimit
    BY <2>3 DEF QueueLimit
  <2> HIDE DEF h, p
  <2>5. /\ batch' \in BatchState /\ batch'.count = batch.count /\ batch'.main = batch.main
        /\ batch'.chunk = batch.chunk /\ batch'.output = batch.output
        /\ batch'.writing = h /\ batch'.pending = p
        /\ batch'.stopping = batch.stopping /\ batch'.writeError = batch.writeError
        /\ batch'.worker = "write" /\ batch'.asleep = {}
    BY <1>2, <2>1, <2>3 DEF BatchState
  <2>6. Threads(batch')
    BY <1>1, <1>2, <2>4, <2>5 DEF Threads
  <2>7. Sleeping(batch')
    BY <2>5 DEF Sleeping
  <2>8. Made(batch') = Made(batch)
    BY <1>1, <1>2, <2>3, <2>4, <2>5, MadeTaken, Zenon
  <2>9. Running(batch') <=> Running(batch)
    BY <2>5 DEF Running
  <2>10. Logging(batch')
    BY <1>1, <2>5, <2>8, <2>9, LoggingSame, Zenon
  <2> QED
    BY <2>6, <2>7, <2>10, Zenon DEF BatchShape
<1> QED
  BY <1>3, <1>4

\* Part of the chunk being written goes to the log.
LEMMA LoggedPart ==
  ASSUME NEW o \in Chunks, NEW s \in Chunks, NEW r \in Chunks, NEW q \in Chunks,
         NEW c \in Chunks, NEW n \in Nat, Logged(Chained(o, Joined(s, r), q, c), n)
  PROVE  /\ Joined(o, s) \in Chunks /\ Logged(Joined(o, s), n)
         /\ Len(Joined(o, s)) \in Nat
         /\ Len(Joined(o, s)) <= Len(Chained(o, Joined(s, r), q, c))
<1> DEFINE t == Joined(o, s)
           e == Joined(q, c)
           z == Joined(r, e)
<1>1. t \in Chunks /\ e \in Chunks
  BY JoinedChunks, Zenon
<1> HIDE DEF e
<1>2. Chained(o, Joined(s, r), q, c) = t \o z
  <2>1. Joined(r, e) \in Chunks
    BY <1>1, JoinedChunks, Zenon
  <2>2. Joined(Joined(s, r), e) = Joined(s, Joined(r, e))
    BY <1>1, JoinedChunks
  <2>3. Joined(Joined(o, s), Joined(r, e)) = Joined(o, Joined(s, Joined(r, e)))
    BY <2>1, JoinedChunks
  <2>4. Chained(o, Joined(s, r), q, c) = Joined(t, z)
    BY <2>2, <2>3, Zenon DEF Chained, e
  <2> HIDE DEF t, z
  <2> QED
    BY <2>4, Zenon DEF Joined
<1> HIDE DEF t
<1>3. z \in Chunks
  BY <1>1, JoinedChunks, Zenon
<1> HIDE DEF z
<1>4. Logged(t, n)
  <2>1. Logged(t \o z, n)
    BY <1>2, Zenon
  <2> QED
    BY <1>1, <1>3, <2>1, LoggedPrefix, Zenon
<1>5. Len(t) \in Nat /\ Len(z) \in Nat /\ Len(t \o z) = Len(t) + Len(z)
  BY <1>1, <1>3, ConcatProperties DEF Chunks
<1>6. Len(t) <= Len(t \o z)
  BY <1>5
<1> QED
  BY <1>1, <1>2, <1>4, <1>5, <1>6, Zenon DEF t

\* The same of the chunk in hand.
LEMMA WrittenLogged ==
  ASSUME NEW b, Threads(b), Logging(b), ~b.writeError,
         NEW s \in Chunks, NEW r \in Chunks, b.writing = Joined(s, r)
  PROVE  /\ Joined(b.output, s) \in Chunks
         /\ Logged(Joined(b.output, s), b.count)
         /\ Running(b) => Len(Joined(b.output, s)) <= b.count
<1>1. /\ b.count \in Nat /\ b.output \in Chunks
      /\ Queued(b.pending) \in Chunks /\ b.chunk \in Chunks
  BY MadeTypes, Zenon
<1>2. Made(b) = Chained(b.output, Joined(s, r), Queued(b.pending), b.chunk)
  BY DEF Made
<1>3. Whole(Made(b), b.count, Running(b))
  BY Zenon DEF Logging
<1>4. Logged(Chained(b.output, Joined(s, r), Queued(b.pending), b.chunk), b.count)
  BY <1>2, <1>3, Zenon DEF Whole
<1>5. /\ Joined(b.output, s) \in Chunks /\ Logged(Joined(b.output, s), b.count)
      /\ Len(Joined(b.output, s)) <= Len(Made(b))
  BY <1>1, <1>2, <1>4, LoggedPart, Zenon
<1> QED
  BY <1>3, <1>5, Zenon DEF Whole

\* The writer writes a chunk, or fails in the middle of it.
LEMMA WrittenShape ==
  ASSUME BatchInv, Written
  PROVE  BatchShape(batch')
<1>1. Threads(batch) /\ Sleeping(batch) /\ Logging(batch)
  BY DEF BatchInv, BatchShape
<1>2. /\ batch \in BatchState /\ batch.worker = "write" /\ ~batch.writeError
      /\ batch.main # "ended" /\ "worker" \notin batch.asleep
  BY <1>1 DEF Written, Threads, Sleeping
<1>3. batch.writing \in Chunks /\ batch.output \in Chunks /\ <<>> \in Chunks
  BY <1>1, MadeTypes, JoinedChunks, Zenon
<1>4. CASE batch' = [batch EXCEPT !.output = @ \o batch.writing, !.writing = <<>>,
                       !.worker = "wait"]
  <2> DEFINE o == Joined(batch.output, batch.writing)
  <2>1. batch.writing = Joined(batch.writing, <<>>)
    BY <1>3, JoinedChunks, Zenon
  <2>2. /\ o \in Chunks /\ Logged(o, batch.count)
        /\ Running(batch) => Len(o) <= batch.count
    BY <1>1, <1>2, <1>3, <2>1, WrittenLogged, Zenon
  <2>3. batch' = [batch EXCEPT !.output = o, !.writing = <<>>, !.worker = "wait"]
    BY <1>4 DEF Joined
  <2> HIDE DEF o
  <2>4. /\ batch' \in BatchState /\ batch'.count = batch.count /\ batch'.main = batch.main
        /\ batch'.chunk = batch.chunk /\ batch'.output = o
        /\ batch'.writing = <<>> /\ batch'.pending = batch.pending
        /\ batch'.stopping = batch.stopping /\ batch'.writeError = batch.writeError
        /\ batch'.worker = "wait" /\ batch'.asleep = batch.asleep
    BY <1>2, <1>3, <2>2, <2>3 DEF BatchState
  <2>5. Threads(batch')
    BY <1>1, <1>2, <2>4 DEF Threads
  <2>6. Sleeping(batch')
    BY <1>1, <1>2, <2>4 DEF Sleeping
  <2>7. Made(batch') = Made(batch)
    <3>1. Made(batch') = Chained(o, <<>>, Queued(batch.pending), batch.chunk)
      BY <2>4 DEF Made
    <3>2. /\ batch.output \in Chunks /\ batch.writing \in Chunks
          /\ Queued(batch.pending) \in Chunks /\ batch.chunk \in Chunks
      BY <1>1, MadeTypes, Zenon
    <3>3. Chained(o, <<>>, Queued(batch.pending), batch.chunk)
            = Chained(batch.output, batch.writing, Queued(batch.pending), batch.chunk)
      BY <3>2, ChainedWrite DEF o
    <3> QED
      BY <3>1, <3>3, Zenon DEF Made
  <2>8. Running(batch') <=> Running(batch)
    BY <2>4 DEF Running
  <2>9. Whole(Made(batch'), batch'.count, Running(batch'))
    <3>1. Whole(Made(batch), batch.count, Running(batch))
      BY <1>1, <1>2, Zenon DEF Logging
    <3> QED
      BY <2>4, <2>7, <2>8, <3>1, Zenon DEF Whole
  <2>10. Logging(batch')
    BY <2>2, <2>4, <2>8, <2>9, Zenon DEF Logging
  <2> QED
    BY <2>5, <2>6, <2>10, Zenon DEF BatchShape
<1>5. ASSUME NEW k \in 0 .. Len(batch.writing),
             batch' = Notified([batch EXCEPT
                        !.output = @ \o SubSeq(batch.writing, 1, k), !.writing = <<>>,
                        !.pending = <<>>, !.writeError = TRUE, !.worker = "done"])
      PROVE  BatchShape(batch')
  <2> DEFINE s == SubSeq(batch.writing, 1, k)
             o == Joined(batch.output, s)
  <2>1. batch.count \in Nat
    BY <1>2 DEF BatchState
  <2>2. PICK r \in Chunks : s \in Chunks /\ batch.writing = Joined(s, r)
    BY <1>3, <2>1, LoggedSubSeq DEF Joined
  <2>3. batch' = [batch EXCEPT !.output = o, !.writing = <<>>, !.pending = <<>>,
                     !.writeError = TRUE, !.worker = "done", !.asleep = {}]
    BY <1>5 DEF Notified, Joined
  <2> HIDE DEF s
  <2>4. /\ o \in Chunks /\ Logged(o, batch.count)
        /\ Running(batch) => Len(o) <= batch.count
    BY <1>1, <1>2, <2>2, WrittenLogged, Zenon
  <2> HIDE DEF o
  <2>5. <<>> \in Seq(Chunks)
    BY EmptySeq, Zenon
  <2>6. /\ batch' \in BatchState /\ batch'.count = batch.count /\ batch'.main = batch.main
        /\ batch'.chunk = batch.chunk /\ batch'.output = o
        /\ batch'.writing = <<>> /\ batch'.pending = <<>>
        /\ batch'.stopping = batch.stopping /\ batch'.writeError = TRUE
        /\ batch'.worker = "done" /\ batch'.asleep = {}
    BY <1>2, <1>3, <2>3, <2>4, <2>5 DEF BatchState
  <2>7. Len(batch'.pending) <= QueueLimit
    BY <2>6 DEF QueueLimit
  <2>8. Threads(batch')
    BY <1>1, <1>2, <2>6, <2>7 DEF Threads
  <2>9. Sleeping(batch')
    BY <2>6 DEF Sleeping
  <2>10. Running(batch') <=> Running(batch)
    BY <2>6 DEF Running
  <2>11. Logging(batch')
    BY <2>4, <2>6, <2>10, Zenon DEF Logging
  <2> QED
    BY <2>8, <2>9, <2>11, Zenon DEF BatchShape
<1> QED
  BY <1>4, <1>5 DEF Written

-----------------------------------------------------------------------------
(* The theorem *)

\* At the start nothing is made.
LEMMA BatchInvInit ==
  ASSUME BatchInit
  PROVE  BatchInv
<1>1. <<>> \in Chunks /\ <<>> \in Seq(Chunks)
  BY JoinedChunks, EmptySeq, Zenon
<1>2. /\ batch \in BatchState /\ batch.count = 0 /\ batch.main = "run"
      /\ batch.chunk = <<>> /\ batch.output = <<>> /\ batch.writing = <<>>
      /\ batch.pending = <<>> /\ batch.stopping = FALSE /\ batch.writeError = FALSE
      /\ batch.worker = "wait" /\ batch.asleep = {}
  BY <1>1 DEF BatchInit, BatchState
<1>3. Threads(batch)
  BY <1>2 DEF Threads, QueueLimit
<1>4. Sleeping(batch)
  BY <1>2 DEF Sleeping
<1>5. Logged(<<>>, 0)
  BY DEF Logged
<1>6. Made(batch) = <<>>
  <2>1. Queued(<<>>) = <<>>
    BY DEF Queued
  <2>2. Chained(<<>>, <<>>, <<>>, <<>>) = <<>>
    BY JoinedChunks, Zenon DEF Chained
  <2> QED
    BY <1>2, <2>1, <2>2 DEF Made
<1>7. Running(batch)
  BY <1>2 DEF Running
<1>8. Whole(<<>>, 0, Running(batch))
  BY <1>5, <1>7 DEF Whole
<1>9. Logging(batch)
  BY <1>2, <1>5, <1>6, <1>8 DEF Logging
<1> QED
  BY <1>3, <1>4, <1>9, Zenon DEF BatchInv, BatchShape

\* Every step of a thread keeps the invariant.
LEMMA BatchInvNext ==
  ASSUME BatchInv, [BatchNext]_batch
  PROVE  BatchInv'
<1>1. CASE UNCHANGED batch
  BY <1>1, Zenon DEF BatchInv
<1>2. CASE BatchNext
  <2>1. BatchShape(batch')
    BY <1>2, InstructShape, StopShape, SubmitShape, FinishShape, WaitOverShape, WrittenShape,
       Zenon DEF BatchNext
  <2> QED
    BY <2>1, Zenon DEF BatchInv
<1> QED
  BY <1>1, <1>2

\* The invariant implies the property.
LEMMA BatchInvLog ==
  ASSUME BatchInv
  PROVE  LogIsTheRun
<1>1. Threads(batch) /\ Sleeping(batch) /\ Logging(batch)
  BY DEF BatchInv, BatchShape
<1>2. batch.output \in Chunks /\ <<>> \in Chunks
  BY <1>1, MadeTypes, JoinedChunks, Zenon
<1>3. \A i \in DOMAIN batch.output :
        batch.output[i] \in IF i <= batch.count THEN {Record(i, "executed")}
                            ELSE {Record(batch.count, k) : k \in {"not fetched", "final"}}
  <2>1. DOMAIN batch.output = 1 .. Len(batch.output)
    BY <1>2, LenProperties DEF Chunks
  <2>2. SUFFICES ASSUME NEW i \in DOMAIN batch.output
                 PROVE  batch.output[i] \in IF i <= batch.count THEN {Record(i, "executed")}
                            ELSE {Record(batch.count, k) : k \in {"not fetched", "final"}}
    OBVIOUS
  <2>3. i \in 1 .. Len(batch.output)
    BY <2>1, <2>2, Zenon
  <2>4. Logged(batch.output, batch.count)
    BY <1>1, Zenon DEF Logging
  <2> QED
    BY <2>3, <2>4, Zenon DEF Logged
<1>4. ASSUME batch.main = "ended", ~batch.writeError
      PROVE  /\ Len(batch.output) > batch.count
             /\ batch.output[Len(batch.output)].kind = "final"
  <2>1. batch.writing = <<>> /\ batch.pending = <<>> /\ batch.chunk = <<>>
    BY <1>1, <1>4 DEF Threads
  <2>2. Made(batch) = batch.output
    <3>1. Queued(<<>>) = <<>>
      BY DEF Queued
    <3>2. /\ Joined(<<>>, <<>>) = <<>> /\ Joined(batch.output, <<>>) = batch.output
      BY <1>2, JoinedChunks, Zenon
    <3>3. Chained(batch.output, <<>>, <<>>, <<>>) = batch.output
      BY <3>2 DEF Chained
    <3> QED
      BY <2>1, <3>1, <3>3 DEF Made
  <2>3. ~Running(batch)
    BY <1>4 DEF Running
  <2>4. Whole(Made(batch), batch.count, Running(batch))
    BY <1>1, <1>4, Zenon DEF Logging
  <2> QED
    BY <2>2, <2>3, <2>4, Zenon DEF Whole
<1>5. SleepersHaveNothingToDo
  <2>1. ASSUME "main" \in batch.asleep PROVE ~MaySubmit
    <3>1. /\ ~batch.writeError /\ ~batch.stopping /\ Len(batch.pending) >= QueueLimit
          /\ batch.pending \in Seq(Chunks)
      BY <1>1, <2>1 DEF Sleeping, Threads, BatchState
    <3> QED
      BY <3>1 DEF MaySubmit, QueueLimit
  <2>2. "worker" \in batch.asleep => batch.pending = <<>> /\ ~batch.stopping
    BY <1>1 DEF Sleeping
  <2> QED
    BY <2>1, <2>2, Zenon DEF SleepersHaveNothingToDo
<1> QED
  BY <1>3, <1>4, <1>5, Zenon DEF LogIsTheRun

\* In every batch run the log is the records of the run from the first on, in
\* order and without a gap; a run that ended without a write error has logged
\* all of them; and no thread sleeps that has something to do.
THEOREM LogIsTheRunCorrect == BatchSpec => []LogIsTheRun
<1>1. BatchInit => BatchInv
  BY BatchInvInit
<1>2. BatchInv /\ [BatchNext]_batch => BatchInv'
  BY BatchInvNext
<1>3. BatchInv => LogIsTheRun
  BY BatchInvLog
<1> QED
  BY <1>1, <1>2, <1>3, PTL DEF BatchSpec

-----------------------------------------------------------------------------
(* The video decoder *)

VideoState ==
  [stream : Seq(Codes), produced : Nat, read : Nat, ring : [0 .. RingSize - 1 -> Codes],
   buffer : Seq(Codes), searchPosition : Nat, headerPosition : Nat, searching : BOOLEAN,
   found : BOOLEAN, sequenceOnly : BOOLEAN, pipeline : {"seek", "idle", "decoding"},
   running : BOOLEAN, stalled : BOOLEAN, execute : BOOLEAN, skip : 0 .. 2, skips : 0 .. 2,
   enabled : BOOLEAN, fed : Nat, consumed : Nat, hit : Nat, resets : Nat]

\* What is between the two ends of the ring is what the stream has there.
Ringed(s) ==
  /\ s.read <= s.produced /\ s.produced <= Len(s.stream) /\ s.produced < s.read + RingSize
  /\ \A k \in s.read .. s.produced - 1 : s.ring[k % RingSize] = s.stream[k + 1]

\* The buffer is the piece of the stream that was fed and not yet consumed.
Piece(s) ==
  /\ s.consumed <= s.fed /\ s.fed <= Len(s.stream) /\ Len(s.buffer) = s.fed - s.consumed
  /\ \A i \in 1 .. Len(s.buffer) : s.buffer[i] = s.stream[s.consumed + i]

EndsAt(b, i) == StartCode(b, i) /\ Code(b, i) \in EndsPicture

\* The search is at the end of the last code it found, or further back than
\* a code that is still incomplete; and the codes before it are behind that one.
Passed(s) ==
  /\ s.found => StartCode(s.stream, s.hit - 4)
  /\ \/ s.searchPosition = 0
     \/ s.searchPosition + 3 <= Len(s.buffer)
     \/ s.consumed + s.searchPosition <= s.hit
  /\ ~s.sequenceOnly => \A i \in 0 .. s.searchPosition - 1 : EndsAt(s.buffer, i) => s.consumed + i < s.hit

\* A search goes on only when it has looked at all there is.
Searched(s) == s.searching => Len(s.buffer) <= s.searchPosition + 3

\* Only a running task stalls, and it could not end.
Waits(s) ==
  /\ s.stalled => s.running
  /\ s.running /\ s.stalled /\ s.pipeline # "idle" => ~TaskEnd(s).found

VideoGood(s) ==
  /\ s \in VideoState /\ s.fed = s.read
  /\ Ringed(s) /\ Piece(s) /\ Passed(s) /\ Searched(s) /\ Waits(s)

VideoInv == VideoGood(video)

\* The first of the codes from a position on, if there is one.
LEMMA FirstIs ==
  ASSUME NEW b \in Seq(Codes), NEW from \in Nat, NEW codes
  PROVE  LET f == First(b, from, codes)
         IN  /\ f.found \in BOOLEAN
             /\ f.found => /\ f.at \in Nat /\ from <= f.at
                           /\ StartCode(b, f.at) /\ Code(b, f.at) \in codes
             /\ ~f.found => \A i \in Nat : from <= i /\ StartCode(b, i) => Code(b, i) \notin codes
<1> DEFINE at == {i \in from .. Len(b) - 1 : StartCode(b, i) /\ Code(b, i) \in codes}
           f == First(b, from, codes)
<1>1. Len(b) \in Nat
  BY LenProperties
<1>2. f = IF at = {} THEN [found |-> FALSE]
          ELSE [found |-> TRUE, at |-> CHOOSE i \in at : \A j \in at : i <= j]
  BY Zenon DEF First
<1>3. \A i \in Nat : from <= i /\ StartCode(b, i) /\ Code(b, i) \in codes => i \in at
  BY <1>1 DEF StartCode
<1>4. at \subseteq Nat
  BY <1>1
<1>5. CASE at = {}
  <2>1. f.found = FALSE
    BY <1>2, <1>5
  <2> QED BY <1>3, <1>5, <2>1
<1>6. CASE at # {}
  <2> DEFINE k == CHOOSE i \in at : \A j \in at : i <= j
  <2>1. \E i \in at : \A j \in at : i <= j
    BY <1>4, <1>6, LeastNatural
  <2>2. k \in at
    BY <2>1
  <2>3. f.found = TRUE /\ f.at = k
    BY <1>2, <1>6
  <2> HIDE DEF k, f
  <2>4. /\ k \in Nat /\ from <= k /\ StartCode(b, k) /\ Code(b, k) \in codes
    BY <1>1, <2>2
  <2> QED BY <2>3, <2>4 DEF f
<1> QED BY <1>5, <1>6

\* A piece of the stream has the start codes of the stream.
LEMMA PieceOfStream ==
  ASSUME NEW s \in VideoState, Piece(s), NEW i \in Nat, StartCode(s.buffer, i)
  PROVE  StartCode(s.stream, s.consumed + i)
<1> DEFINE b == s.buffer
           w == s.stream
           c == s.consumed
<1>1. b \in Seq(Codes) /\ w \in Seq(Codes) /\ c \in Nat /\ s.fed \in Nat
  BY DEF VideoState
<1>2. /\ c <= s.fed /\ s.fed <= Len(w) /\ Len(b) = s.fed - c
      /\ \A j \in 1 .. Len(b) : b[j] = w[c + j]
  BY DEF Piece
<1>3. i + 3 < Len(b) /\ b[i + 1] = 0 /\ b[i + 2] = 0 /\ b[i + 3] = 1
  BY DEF StartCode
<1>4. Len(b) \in Nat /\ Len(w) \in Nat
  BY <1>1, LenProperties
<1> HIDE DEF b, w, c
<1>5. i + 1 \in 1 .. Len(b) /\ i + 2 \in 1 .. Len(b) /\ i + 3 \in 1 .. Len(b)
  BY <1>3, <1>4
<1>6. w[c + (i + 1)] = 0 /\ w[c + (i + 2)] = 0 /\ w[c + (i + 3)] = 1
  BY <1>2, <1>3, <1>5
<1>7. c + (i + 1) = (c + i) + 1 /\ c + (i + 2) = (c + i) + 2 /\ c + (i + 3) = (c + i) + 3
  BY <1>1
<1>8. (c + i) + 3 < Len(w)
  BY <1>1, <1>2, <1>3, <1>4
<1>9. StartCode(w, c + i)
  BY <1>6, <1>7, <1>8 DEF StartCode
<1> QED BY <1>9 DEF w, c

\* Where a task ends depends on nothing but these.
TaskOf(pipeline, b, skips) ==
  IF pipeline = "seek"
  THEN LET sequence == First(b, 0, {SequenceCode})
       IN  IF sequence.found THEN First(b, sequence.at + 4, {PictureCode}) ELSE sequence
  ELSE LET over[n \in 0 .. 2] ==
             LET from == IF n = 0 THEN First(b, 0, {PictureCode})
                         ELSE IF over[n - 1].found THEN First(b, over[n - 1].at, {PictureCode})
                         ELSE over[n - 1]
             IN  IF from.found THEN First(b, from.at + 4, EndsPicture) ELSE from
       IN  over[skips]

\* It is the end of the task.
LEMMA TaskEndOf ==
  ASSUME NEW s
  PROVE  TaskEnd(s) = TaskOf(s.pipeline, s.buffer, s.skips)
BY Zenon DEF TaskEnd, TaskOf

\* What a search gives: nothing, or a position in the buffer.
Results(b) ==
  {r \in [found : {FALSE}] \union [found : {TRUE}, at : Nat] : r.found => r.at < Len(b)}

\* So does First.
LEMMA FirstResult ==
  ASSUME NEW b \in Seq(Codes), NEW from \in Nat, NEW codes
  PROVE  First(b, from, codes) \in Results(b)
<1> DEFINE at == {i \in from .. Len(b) - 1 : StartCode(b, i) /\ Code(b, i) \in codes}
           f == First(b, from, codes)
           k == CHOOSE i \in at : \A j \in at : i <= j
<1>1. f = IF at = {} THEN [found |-> FALSE] ELSE [found |-> TRUE, at |-> k]
  BY Zenon DEF First
<1>2. f.found => f.at \in Nat /\ f.at < Len(b)
  <2>1. f.found => f.at \in Nat /\ StartCode(b, f.at)
    BY FirstIs
  <2>2. Len(b) \in Nat
    BY LenProperties
  <2> QED BY <2>1, <2>2 DEF StartCode
<1> HIDE DEF at, k
<1>3. CASE at = {}
  <2>1. f = [found |-> FALSE]
    BY <1>1, <1>3
  <2> HIDE DEF f
  <2>2. f \in [found : {FALSE}] /\ f.found = FALSE
    BY <2>1
  <2>3. f \in Results(b)
    BY <2>2 DEF Results
  <2> QED BY <2>3 DEF f
<1>4. CASE at # {}
  <2>1. f = [found |-> TRUE, at |-> k]
    BY <1>1, <1>4
  <2> HIDE DEF f
  <2>2. f.found = TRUE /\ f.at = k
    BY <2>1
  <2>3. k \in Nat /\ k < Len(b)
    BY <1>2, <2>2 DEF f
  <2>4. f \in [found : {TRUE}, at : Nat]
    BY <2>1, <2>3
  <2>5. f \in Results(b)
    BY <2>2, <2>3, <2>4 DEF Results
  <2> QED BY <2>5 DEF f
<1> QED BY <1>3, <1>4

\* One picture further, from where the one before ended.
Onward(b, r) ==
  LET from == IF r.found THEN First(b, r.at, {PictureCode}) ELSE r
  IN  IF from.found THEN First(b, from.at + 4, EndsPicture) ELSE from

\* It is a result as well.
LEMMA OnwardResult ==
  ASSUME NEW b \in Seq(Codes), NEW r \in Results(b)
  PROVE  Onward(b, r) \in Results(b)
<1> DEFINE from == IF r.found THEN First(b, r.at, {PictureCode}) ELSE r
<1>1. \A x \in Results(b) : x.found => x.at \in Nat
  BY DEF Results
<1>2. from \in Results(b)
  BY <1>1, FirstResult
<1>3. Onward(b, r) = IF from.found THEN First(b, from.at + 4, EndsPicture) ELSE from
  BY Zenon DEF Onward
<1> HIDE DEF from
<1>4. from.found => from.at + 4 \in Nat
  BY <1>1, <1>2
<1> QED BY <1>2, <1>3, <1>4, FirstResult

\* A task ends in the buffer.
LEMMA TaskResult ==
  ASSUME NEW b \in Seq(Codes), NEW pipeline, NEW skips \in 0 .. 2
  PROVE  TaskOf(pipeline, b, skips) \in Results(b)
<1>1. CASE pipeline = "seek"
  <2> DEFINE sequence == First(b, 0, {SequenceCode})
  <2>1. sequence \in Results(b)
    BY FirstResult
  <2>2. TaskOf(pipeline, b, skips) =
          IF sequence.found THEN First(b, sequence.at + 4, {PictureCode}) ELSE sequence
    BY <1>1, Zenon DEF TaskOf
  <2> HIDE DEF sequence
  <2>3. sequence.found => sequence.at + 4 \in Nat
    <3>1. sequence.found => sequence.at \in Nat
      BY <2>1 DEF Results
    <3> QED BY <3>1
  <2> QED BY <2>1, <2>2, <2>3, FirstResult
<1>2. CASE pipeline # "seek"
  <2> DEFINE S == Results(b)
             front == First(b, 0, {PictureCode})
             c == IF front.found THEN First(b, front.at + 4, EndsPicture) ELSE front
             g == [n \in 1 .. 2 |-> [r \in S |-> Onward(b, r)]]
             Is(f) == f = [n \in 0 .. 2 |->
                             LET from == IF n = 0 THEN First(b, 0, {PictureCode})
                                         ELSE IF f[n - 1].found THEN First(b, f[n - 1].at, {PictureCode})
                                         ELSE f[n - 1]
                             IN  IF from.found THEN First(b, from.at + 4, EndsPicture) ELSE from]
             over == CHOOSE f : Is(f)
  <2>1. c \in S
    <3>1. front \in S
      BY FirstResult
    <3> HIDE DEF front
    <3>2. front.found => front.at \in Nat
      BY <3>1 DEF Results
    <3>3. front.found => front.at + 4 \in Nat
      BY <3>2
    <3> QED BY <3>1, <3>3, FirstResult
  <2>2. g \in [1 .. 2 -> [S -> S]]
    BY OnwardResult
  <2>3. \E f : Is(f)
    <3> HIDE DEF S, g, c
    <3>1. PICK f \in [0 .. 2 -> S] : StepsFrom(f, c, g, 2)
      BY <2>1, <2>2, StepByStep
    <3>2. f[0] = c
      BY <3>1 DEF StepsFrom
    <3>3. \A n \in 0 .. 2 : n # 0 => n \in 1 .. 2 /\ f[n - 1] \in S /\ f[n] = g[n][f[n - 1]]
      BY <3>1 DEF StepsFrom
    <3>4. \A n \in 0 .. 2 : n # 0 => f[n] = Onward(b, f[n - 1])
      BY <3>3 DEF g
    <3>5. \A n \in 0 .. 2 :
            f[n] = LET from == IF n = 0 THEN First(b, 0, {PictureCode})
                               ELSE IF f[n - 1].found THEN First(b, f[n - 1].at, {PictureCode})
                               ELSE f[n - 1]
                   IN  IF from.found THEN First(b, from.at + 4, EndsPicture) ELSE from
      BY <3>2, <3>4, Zenon DEF Onward, c
    <3>6. f = [n \in 0 .. 2 |-> f[n]]
      BY <3>1
    <3>7. Is(f)
      BY <3>5, <3>6
    <3> QED BY <3>7
  <2>4. Is(over)
    <3> HIDE DEF Is
    <3> QED BY <2>3
  <2>5. TaskOf(pipeline, b, skips) = over[skips]
    BY <1>2, Zenon DEF TaskOf
  <2> HIDE DEF over
  <2>6. over[0] = c
    BY <2>4
  <2>7. over[1] = Onward(b, over[0]) /\ over[2] = Onward(b, over[1])
    BY <2>4 DEF Onward
  <2> HIDE DEF c
  <2>8. over[0] \in S /\ over[1] \in S /\ over[2] \in S
    BY <2>1, <2>6, <2>7, OnwardResult
  <2> QED BY <2>5, <2>8
<1> QED BY <1>1, <1>2

\* Two states with the same task and buffer end it alike.
LEMMA SameTask ==
  ASSUME NEW s, NEW t, t.pipeline = s.pipeline, t.buffer = s.buffer, t.skips = s.skips
  PROVE  TaskEnd(t) = TaskEnd(s)
BY TaskEndOf

\* What a search leaves alone.
SearchKeeps(s, t) ==
  /\ t.stream = s.stream /\ t.produced = s.produced /\ t.read = s.read /\ t.ring = s.ring
  /\ t.buffer = s.buffer /\ t.pipeline = s.pipeline /\ t.running = s.running
  /\ t.stalled = s.stalled /\ t.skips = s.skips /\ t.fed = s.fed /\ t.consumed = s.consumed

\* What it leaves alone of the ring, the piece and the task stays good.
LEMMA SearchKeepsGood ==
  ASSUME NEW s, NEW t, SearchKeeps(s, t)
  PROVE  /\ Ringed(s) => Ringed(t)
         /\ Piece(s) => Piece(t)
         /\ Waits(s) => Waits(t)
         /\ s.fed = s.read => t.fed = t.read
<1>1. Ringed(s) => Ringed(t)
  BY DEF SearchKeeps, Ringed
<1>2. Piece(s) => Piece(t)
  BY DEF SearchKeeps, Piece
<1>3. Waits(s) => Waits(t)
  <2>1. TaskEnd(t) = TaskEnd(s)
    BY SameTask DEF SearchKeeps
  <2> QED BY <2>1 DEF SearchKeeps, Waits
<1> QED BY <1>1, <1>2, <1>3 DEF SearchKeeps

\* A search stops behind a code it looks for, or goes on at the end.
LEMMA SearchRuns ==
  ASSUME NEW s \in VideoState, Piece(s), Passed(s), s.searching \/ Searched(s)
  PROVE  LET t == runSearch(s)
         IN  t \in VideoState /\ SearchKeeps(s, t) /\ Passed(t) /\ Searched(t)
<1> DEFINE t == runSearch(s)
           b == s.buffer
           p == s.searchPosition
           codes == IF s.sequenceOnly THEN {SequenceCode} ELSE Codes \ SliceCodes
           f == First(b, p, codes)
<1>1. b \in Seq(Codes) /\ p \in Nat /\ s.consumed \in Nat /\ s.hit \in Nat
  BY DEF VideoState
<1>2. Len(b) \in Nat
  BY <1>1, LenProperties
<1>3. t = IF ~s.searching THEN s
          ELSE IF f.found
          THEN [s EXCEPT !.sequenceOnly = @ /\ Code(b, f.at) # SequenceCode,
                         !.headerPosition = f.at + 3, !.searchPosition = f.at + 4,
                         !.searching = FALSE, !.found = TRUE, !.hit = s.consumed + f.at + 4]
          ELSE [s EXCEPT !.searchPosition = Resume(b, @)]
  BY Zenon DEF runSearch
<1>4. /\ f.found \in BOOLEAN
      /\ f.found => f.at \in Nat /\ p <= f.at /\ StartCode(b, f.at) /\ Code(b, f.at) \in codes
      /\ ~f.found => \A i \in Nat : p <= i /\ StartCode(b, i) => Code(b, i) \notin codes
  <2> HIDE DEF codes
  <2> QED BY <1>1, FirstIs
<1> HIDE DEF t, f
<1>5. CASE ~s.searching
  <2>1. t = s
    BY <1>3, <1>5
  <2> QED BY <1>5, <2>1 DEF t, SearchKeeps
<1>6. CASE s.searching /\ f.found
  <2> DEFINE a == f.at
  <2>1. a \in Nat /\ StartCode(b, a) /\ Code(b, a) \in codes
    BY <1>4, <1>6
  <2> HIDE DEF a
  <2>2. t = [s EXCEPT !.sequenceOnly = @ /\ Code(b, a) # SequenceCode,
                      !.headerPosition = a + 3, !.searchPosition = a + 4,
                      !.searching = FALSE, !.found = TRUE, !.hit = s.consumed + a + 4]
    BY <1>3, <1>6 DEF a
  <2>3. /\ SearchKeeps(s, t) /\ t.searching = FALSE /\ t.searchPosition = a + 4
        /\ t.hit = s.consumed + a + 4
        /\ t.sequenceOnly = (s.sequenceOnly /\ Code(b, a) # SequenceCode)
    BY <2>2 DEF VideoState, SearchKeeps
  <2>4. t \in VideoState
    <3>1. a + 3 \in Nat /\ a + 4 \in Nat /\ s.consumed + a + 4 \in Nat
      BY <1>1, <2>1
    <3> DEFINE only == s.sequenceOnly /\ Code(b, a) # SequenceCode
               h == s.consumed + a + 4
               v == [s EXCEPT !.sequenceOnly = only, !.searching = FALSE, !.found = TRUE]
    <3>2. only \in BOOLEAN /\ h \in Nat
      BY <3>1
    <3>3. t = [v EXCEPT !.headerPosition = a + 3, !.searchPosition = a + 4, !.hit = h]
      BY <2>2 DEF VideoState
    <3> HIDE DEF only, h
    <3>4. v \in VideoState
      BY <3>2 DEF VideoState
    <3> HIDE DEF v
    <3> QED BY <3>1, <3>2, <3>3, <3>4 DEF VideoState
  <2>5. StartCode(s.stream, t.hit - 4)
    <3>1. StartCode(s.stream, s.consumed + a)
      BY <2>1, PieceOfStream
    <3>2. t.hit - 4 = s.consumed + a
      BY <1>1, <2>1, <2>3
    <3> QED BY <3>1, <3>2
  <2>6. Passed(t)
    <3>1. t.consumed + t.searchPosition <= t.hit
      BY <1>1, <2>1, <2>3 DEF SearchKeeps
    <3>2. \A i \in 0 .. t.searchPosition - 1 : t.consumed + i < t.hit
      BY <1>1, <2>1, <2>3 DEF SearchKeeps
    <3>3. t.stream = s.stream
      BY <2>3 DEF SearchKeeps
    <3> QED BY <2>5, <3>1, <3>2, <3>3 DEF Passed
  <2>7. Searched(t)
    BY <2>3 DEF Searched
  <2> QED BY <2>3, <2>4, <2>6, <2>7 DEF t
<1>7. CASE s.searching /\ ~f.found
  <2> DEFINE r == Resume(b, p)
  <2>1. t = [s EXCEPT !.searchPosition = r]
    BY <1>3, <1>7
  <2>2. /\ r \in Nat /\ p <= r /\ Len(b) <= r + 3
        /\ r = p \/ (r + 3 <= Len(b))
    BY <1>1, <1>2 DEF Resume
  <2> HIDE DEF r
  <2>3. /\ SearchKeeps(s, t) /\ t.searching = s.searching /\ t.searchPosition = r
        /\ t.hit = s.hit /\ t.sequenceOnly = s.sequenceOnly /\ t.found = s.found
    BY <2>1 DEF VideoState, SearchKeeps
  <2>4. t \in VideoState
    BY <2>1, <2>2 DEF VideoState
  <2>5. Searched(t)
    BY <2>2, <2>3 DEF Searched, SearchKeeps
  <2>6. \/ t.searchPosition = 0
        \/ t.searchPosition + 3 <= Len(t.buffer)
        \/ t.consumed + t.searchPosition <= t.hit
    BY <2>2, <2>3 DEF Passed, SearchKeeps
  <2>7. ASSUME ~t.sequenceOnly, NEW i \in 0 .. t.searchPosition - 1, EndsAt(t.buffer, i)
        PROVE  t.consumed + i < t.hit
    <3>1. i \in Nat /\ StartCode(b, i) /\ Code(b, i) \in EndsPicture
      BY <2>2, <2>3, <2>7 DEF EndsAt, SearchKeeps
    <3>2. Code(b, i) \in codes
      BY <2>3, <2>7, <3>1, VideoAssumption
    <3>3. ~(p <= i)
      BY <1>4, <1>7, <3>1, <3>2
    <3>4. i \in 0 .. p - 1
      BY <1>1, <3>1, <3>3
    <3>5. EndsAt(b, i) /\ ~s.sequenceOnly
      BY <2>3, <2>7, <3>1 DEF EndsAt
    <3> QED BY <2>3, <3>4, <3>5 DEF Passed, SearchKeeps
  <2>8. t.found => StartCode(t.stream, t.hit - 4)
    BY <2>3 DEF Passed, SearchKeeps
  <2>9. Passed(t)
    BY <2>6, <2>7, <2>8 DEF Passed
  <2> QED BY <2>3, <2>4, <2>5, <2>9 DEF t
<1> QED BY <1>5, <1>6, <1>7

\* A search that begins.
LEMMA SearchStarts ==
  ASSUME NEW s, VideoGood(s)
  PROVE  VideoGood(startSearch(s)) /\ SearchKeeps(s, startSearch(s))
<1> DEFINE u == [s EXCEPT !.searching = TRUE, !.found = FALSE]
           t == runSearch(u)
<1>1. s \in VideoState
  BY DEF VideoGood
<1>2. u \in VideoState /\ SearchKeeps(s, u) /\ u.searching = TRUE /\ u.found = FALSE
  BY <1>1 DEF VideoState, SearchKeeps
<1>3. u.searchPosition = s.searchPosition /\ u.hit = s.hit /\ u.sequenceOnly = s.sequenceOnly
  BY <1>1 DEF VideoState
<1> HIDE DEF u
<1>4. Passed(u)
  BY <1>2, <1>3 DEF VideoGood, Passed, SearchKeeps
<1>5. Piece(u) /\ Ringed(u) /\ Waits(u) /\ u.fed = u.read
  BY <1>2, SearchKeepsGood DEF VideoGood
<1>6. t \in VideoState /\ SearchKeeps(u, t) /\ Passed(t) /\ Searched(t)
  BY <1>2, <1>4, <1>5, SearchRuns
<1>7. Piece(t) /\ Ringed(t) /\ Waits(t) /\ t.fed = t.read
  <2> HIDE DEF t
  <2> QED BY <1>5, <1>6, SearchKeepsGood
<1>8. startSearch(s) = t
  BY DEF startSearch, u
<1> HIDE DEF t
<1>9. SearchKeeps(s, t)
  BY <1>2, <1>6 DEF SearchKeeps
<1> QED BY <1>6, <1>7, <1>8, <1>9 DEF VideoGood

\* A tail of a buffer.
LEMMA TailOfBuffer ==
  ASSUME NEW b \in Seq(Codes), NEW count \in Nat, count <= Len(b), NEW d,
         d = SubSeq(b, count + 1, Len(b))
  PROVE  /\ d \in Seq(Codes) /\ Len(d) = Len(b) - count
         /\ \A i \in 1 .. Len(d) : d[i] = b[count + i]
         /\ \A i \in Nat : EndsAt(d, i) => EndsAt(b, i + count)
<1> DEFINE n == Len(b)
<1>1. n \in Nat /\ \A i \in 1 .. n : b[i] \in Codes
  BY LenProperties, ElementOfSeq
<1>2. \A i \in (count + 1) .. n : b[i] \in Codes
  BY <1>1
<1> HIDE DEF n
<1>3. /\ d \in Seq(Codes) /\ Len(d) = IF count + 1 <= n THEN n - (count + 1) + 1 ELSE 0
      /\ \A i \in 1 .. n - (count + 1) + 1 : d[i] = b[(count + 1) + i - 1]
  <2>1. count + 1 \in Int /\ n \in Int
    BY <1>1
  <2>2. d = SubSeq(b, count + 1, n)
    BY DEF n
  <2> QED BY <1>2, <2>1, <2>2, SubSeqProperties
<1>4. Len(d) = n - count /\ n - (count + 1) + 1 = n - count
  BY <1>1, <1>3 DEF n
<1>5. \A i \in 1 .. Len(d) : d[i] = b[count + i]
  <2> TAKE i \in 1 .. Len(d)
  <2>1. d[i] = b[(count + 1) + i - 1]
    BY <1>3, <1>4
  <2>2. (count + 1) + i - 1 = count + i
    BY <1>1, <1>4
  <2> QED BY <2>1, <2>2
<1>6. ASSUME NEW i \in Nat, EndsAt(d, i) PROVE EndsAt(b, i + count)
  <2>1. i + 3 < Len(d) /\ d[i + 1] = 0 /\ d[i + 2] = 0 /\ d[i + 3] = 1 /\ d[i + 4] \in EndsPicture
    BY <1>6, Zenon DEF EndsAt, StartCode, Code
  <2>2. /\ i + 1 \in 1 .. Len(d) /\ i + 2 \in 1 .. Len(d) /\ i + 3 \in 1 .. Len(d) /\ i + 4 \in 1 .. Len(d)
    BY <1>1, <1>4, <2>1
  <2>3. /\ b[count + (i + 1)] = 0 /\ b[count + (i + 2)] = 0 /\ b[count + (i + 3)] = 1
        /\ b[count + (i + 4)] \in EndsPicture
    BY <1>5, <2>1, <2>2
  <2>4. /\ count + (i + 1) = (i + count) + 1 /\ count + (i + 2) = (i + count) + 2
        /\ count + (i + 3) = (i + count) + 3 /\ count + (i + 4) = (i + count) + 4
    OBVIOUS
  <2>5. (i + count) + 3 < Len(b)
    <3>1. i + 3 < n - count
      BY <1>4, <2>1
    <3>2. (i + count) + 3 < n
      BY <1>1, <3>1
    <3> QED BY <3>2 DEF n
  <2> QED BY <2>3, <2>4, <2>5 DEF EndsAt, StartCode, Code
<1> QED BY <1>3, <1>4, <1>5, <1>6 DEF n

\* What is consumed leaves the piece in front, and the search moves with it.
LEMMA Consumed ==
  ASSUME NEW s, VideoGood(s), NEW count \in Nat, count <= Len(s.buffer)
  PROVE  LET t == [consume(s, count) EXCEPT !.pipeline = "idle", !.running = FALSE]
         IN  ~s.stalled => VideoGood(t)
<1> DEFINE u == consume(s, count)
           t == [u EXCEPT !.pipeline = "idle", !.running = FALSE]
           b == s.buffer
           d == SubSeq(b, count + 1, Len(b))
           p == s.searchPosition
           q == Less(p, count)
<1>1. /\ s \in VideoState /\ b \in Seq(Codes) /\ p \in Nat /\ s.headerPosition \in Nat
      /\ s.consumed \in Nat /\ s.hit \in Nat /\ s.fed \in Nat /\ Len(b) \in Nat
  BY LenProperties DEF VideoGood, VideoState
<1>2. /\ d \in Seq(Codes) /\ Len(d) = Len(b) - count
      /\ \A i \in 1 .. Len(d) : d[i] = b[count + i]
      /\ \A i \in Nat : EndsAt(d, i) => EndsAt(b, i + count)
  BY <1>1, TailOfBuffer
<1>3. /\ q \in Nat /\ Less(s.headerPosition, count) \in Nat
      /\ q = 0 \/ (p = q + count)
      /\ p <= q + count
  BY <1>1 DEF Less
<1>4. u = [s EXCEPT !.buffer = d, !.consumed = @ + count,
                    !.headerPosition = Less(@, count), !.searchPosition = q]
  BY DEF consume, VideoState
<1> HIDE DEF d, q
<1>5. /\ u.stream = s.stream /\ u.produced = s.produced /\ u.read = s.read /\ u.ring = s.ring
      /\ u.buffer = d /\ u.fed = s.fed /\ u.consumed = s.consumed + count
      /\ u.stalled = s.stalled /\ u.searching = s.searching /\ u.found = s.found
      /\ u.sequenceOnly = s.sequenceOnly /\ u.searchPosition = q /\ u.hit = s.hit
  BY <1>1, <1>4 DEF VideoState
<1>6. u \in VideoState
  <2> DEFINE m == s.consumed + count
             h == Less(s.headerPosition, count)
             v == [s EXCEPT !.buffer = d, !.consumed = m]
  <2>1. m \in Nat /\ h \in Nat
    BY <1>1, <1>3
  <2>2. u = [v EXCEPT !.headerPosition = h, !.searchPosition = q]
    BY <1>1, <1>4 DEF VideoState
  <2> HIDE DEF m, h
  <2>3. v \in VideoState
    BY <1>1, <1>2, <2>1 DEF VideoState
  <2> HIDE DEF v
  <2> QED BY <1>3, <2>1, <2>2, <2>3 DEF VideoState
<1> HIDE DEF u
<1>7. /\ t.stream = s.stream /\ t.produced = s.produced /\ t.read = s.read /\ t.ring = s.ring
      /\ t.buffer = d /\ t.fed = s.fed /\ t.consumed = s.consumed + count
      /\ t.stalled = s.stalled /\ t.searching = s.searching /\ t.found = s.found
      /\ t.sequenceOnly = s.sequenceOnly /\ t.searchPosition = q /\ t.hit = s.hit
      /\ t.running = FALSE /\ t \in VideoState
  BY <1>5, <1>6 DEF VideoState
<1> SUFFICES ASSUME ~s.stalled PROVE VideoGood(t)
  BY DEF u
<1> HIDE DEF t, b, p
<1>8. Ringed(t) /\ t.fed = t.read
  BY <1>7 DEF VideoGood, Ringed
<1>9. Piece(t)
  <2>1. /\ s.consumed <= s.fed /\ s.fed <= Len(s.stream) /\ Len(b) = s.fed - s.consumed
        /\ \A i \in 1 .. Len(b) : b[i] = s.stream[s.consumed + i]
    BY DEF VideoGood, Piece, b
  <2>2. /\ s.consumed + count <= s.fed /\ Len(d) = s.fed - (s.consumed + count)
    BY <1>1, <1>2, <2>1 DEF b
  <2>3. ASSUME NEW i \in 1 .. Len(d) PROVE d[i] = s.stream[(s.consumed + count) + i]
    <3>1. count + i \in 1 .. Len(b)
      BY <1>1, <1>2
    <3>2. d[i] = s.stream[s.consumed + (count + i)]
      BY <1>2, <2>1, <3>1
    <3>3. s.consumed + (count + i) = (s.consumed + count) + i
      BY <1>1, <1>2
    <3> QED BY <3>2, <3>3
  <2> QED BY <1>7, <2>1, <2>2, <2>3 DEF Piece
<1>10. Passed(t)
  <2>1. /\ s.found => StartCode(s.stream, s.hit - 4)
        /\ p = 0 \/ p + 3 <= Len(b) \/ s.consumed + p <= s.hit
        /\ ~s.sequenceOnly => \A i \in 0 .. p - 1 : EndsAt(b, i) => s.consumed + i < s.hit
    BY Zenon DEF VideoGood, Passed, b, p
  <2>2. q = 0 \/ q + 3 <= Len(d) \/ (s.consumed + count) + q <= s.hit
    BY <1>1, <1>2, <1>3, <2>1
  <2>3. ASSUME ~s.sequenceOnly, NEW i \in 0 .. q - 1, EndsAt(d, i)
        PROVE  (s.consumed + count) + i < s.hit
    <3>1. i \in Nat /\ i + count \in 0 .. p - 1
      BY <1>1, <1>3
    <3>2. EndsAt(b, i + count)
      BY <1>2, <2>3, <3>1
    <3>3. s.consumed + (i + count) < s.hit
      BY <2>1, <2>3, <3>1, <3>2
    <3> QED BY <1>1, <3>1, <3>3
  <2> QED BY <1>7, <2>1, <2>2, <2>3 DEF Passed
<1>11. Searched(t)
  <2>1. s.searching => Len(b) <= p + 3
    BY DEF VideoGood, Searched, b, p
  <2> QED BY <1>1, <1>2, <1>3, <1>7, <2>1 DEF Searched
<1>12. Waits(t)
  BY <1>7 DEF Waits
<1> QED BY <1>7, <1>8, <1>9, <1>10, <1>11, <1>12 DEF VideoGood

\* A tick of the decoder.
LEMMA DecoderTicks ==
  ASSUME NEW s, VideoGood(s)
  PROVE  VideoGood(tickDecoder(s))
<1> DEFINE e == TaskEnd(s)
<1>1. s \in VideoState /\ s.buffer \in Seq(Codes) /\ s.skips \in 0 .. 2
  BY DEF VideoGood, VideoState
<1>2. e \in Results(s.buffer)
  BY <1>1, TaskEndOf, TaskResult
<1>3. Len(s.buffer) \in Nat
  BY <1>1, LenProperties
<1>4. tickDecoder(s) =
        IF s.pipeline = "idle" \/ ~s.running \/ s.stalled THEN s
        ELSE IF e.found THEN [consume(s, e.at) EXCEPT !.pipeline = "idle", !.running = FALSE]
        ELSE [s EXCEPT !.stalled = TRUE]
  BY Zenon DEF tickDecoder
<1> HIDE DEF e
<1>5. CASE s.pipeline = "idle" \/ ~s.running \/ s.stalled
  BY <1>4, <1>5
<1>6. CASE ~(s.pipeline = "idle" \/ ~s.running \/ s.stalled) /\ e.found
  <2>1. e.at \in Nat /\ e.at <= Len(s.buffer)
    <3>1. e.at \in Nat /\ e.at < Len(s.buffer)
      BY <1>2, <1>6 DEF Results
    <3> QED BY <1>3, <3>1
  <2>2. tickDecoder(s) = [consume(s, e.at) EXCEPT !.pipeline = "idle", !.running = FALSE]
    BY <1>4, <1>6
  <2>3. VideoGood([consume(s, e.at) EXCEPT !.pipeline = "idle", !.running = FALSE])
    <3> DEFINE c == e.at
    <3>1. c \in Nat /\ c <= Len(s.buffer) /\ ~s.stalled
      BY <1>6, <2>1
    <3> HIDE DEF c
    <3>2. VideoGood([consume(s, c) EXCEPT !.pipeline = "idle", !.running = FALSE])
      BY <3>1, Consumed
    <3> QED BY <3>2 DEF c
  <2> QED BY <2>2, <2>3
<1>7. CASE ~(s.pipeline = "idle" \/ ~s.running \/ s.stalled) /\ ~e.found
  <2> DEFINE t == [s EXCEPT !.stalled = TRUE]
  <2>1. tickDecoder(s) = t
    BY <1>4, <1>7
  <2>2. /\ t.stream = s.stream /\ t.produced = s.produced /\ t.read = s.read /\ t.ring = s.ring
        /\ t.buffer = s.buffer /\ t.pipeline = s.pipeline /\ t.running = s.running
        /\ t.skips = s.skips /\ t.fed = s.fed /\ t.consumed = s.consumed
        /\ t.searching = s.searching /\ t.found = s.found
        /\ t.sequenceOnly = s.sequenceOnly /\ t.searchPosition = s.searchPosition /\ t.hit = s.hit
    BY <1>1 DEF VideoState
  <2>3. t \in VideoState
    BY <1>1 DEF VideoState
  <2> HIDE DEF t
  <2>4. TaskEnd(t) = e
    BY <2>2, SameTask DEF e
  <2>5. Ringed(t) /\ t.fed = t.read
    BY <2>2 DEF VideoGood, Ringed
  <2>6. Piece(t)
    BY <2>2 DEF VideoGood, Piece
  <2>7. Passed(t)
    BY <2>2 DEF VideoGood, Passed
  <2>8. Searched(t)
    BY <2>2 DEF VideoGood, Searched
  <2>9. Waits(t)
    BY <1>7, <2>2, <2>4 DEF Waits
  <2> QED BY <2>1, <2>3, <2>5, <2>6, <2>7, <2>8, <2>9 DEF VideoGood
<1> QED BY <1>5, <1>6, <1>7

\* The next byte of a piece.
LEMMA PieceGrows ==
  ASSUME NEW b \in Seq(Codes), NEW x \in Codes, NEW d, d = Append(b, x)
  PROVE  /\ d \in Seq(Codes) /\ Len(d) = Len(b) + 1 /\ d[Len(b) + 1] = x
         /\ \A i \in 1 .. Len(b) : d[i] = b[i]
         /\ \A i \in Nat : EndsAt(d, i) /\ i + 4 <= Len(b) => EndsAt(b, i)
<1>1. Len(b) \in Nat
  BY LenProperties
<1>2. d \in Seq(Codes) /\ Len(d) = Len(b) + 1 /\ d[Len(b) + 1] = x
      /\ \A i \in 1 .. Len(b) : d[i] = b[i]
  BY AppendProperties
<1>3. ASSUME NEW i \in Nat, EndsAt(d, i), i + 4 <= Len(b) PROVE EndsAt(b, i)
  <2>1. d[i + 1] = 0 /\ d[i + 2] = 0 /\ d[i + 3] = 1 /\ d[i + 4] \in EndsPicture
    BY <1>3, Zenon DEF EndsAt, StartCode, Code
  <2>2. /\ i + 1 \in 1 .. Len(b) /\ i + 2 \in 1 .. Len(b) /\ i + 3 \in 1 .. Len(b)
        /\ i + 4 \in 1 .. Len(b) /\ i + 3 < Len(b)
    BY <1>1, <1>3
  <2>3. b[i + 1] = 0 /\ b[i + 2] = 0 /\ b[i + 3] = 1 /\ b[i + 4] \in EndsPicture
    BY <1>2, <2>1, <2>2
  <2> QED BY <2>2, <2>3 DEF EndsAt, StartCode, Code
<1> QED BY <1>2, <1>3

\* One byte of a tick of the channel.
DmaStep(s) ==
  IF s.read = s.produced \/ Full(s) THEN s
  ELSE [Input(s, s.ring[s.read % RingSize]) EXCEPT !.read = @ + 1]

\* The channel feeds the next byte of the stream.
LEMMA ByteFed ==
  ASSUME NEW s, VideoGood(s), s.read # s.produced
  PROVE  VideoGood([Input(s, s.ring[s.read % RingSize]) EXCEPT !.read = @ + 1])
<1> DEFINE b == s.buffer
           p == s.searchPosition
           x == s.ring[s.read % RingSize]
           d == Append(b, x)
           u == [s EXCEPT !.buffer = Append(@, x), !.fed = @ + 1, !.stalled = FALSE]
           t == runSearch(u)
           v == [t EXCEPT !.read = @ + 1]
<1>1. /\ s \in VideoState /\ b \in Seq(Codes) /\ p \in Nat /\ s.read \in Nat /\ s.produced \in Nat
      /\ s.stream \in Seq(Codes) /\ s.consumed \in Nat /\ s.hit \in Nat /\ s.fed \in Nat
      /\ Len(b) \in Nat /\ Len(s.stream) \in Nat
  BY LenProperties DEF VideoGood, VideoState
<1>2. /\ s.fed = s.read /\ s.read < s.produced /\ s.produced <= Len(s.stream)
      /\ s.produced < s.read + RingSize
      /\ \A k \in s.read .. s.produced - 1 : s.ring[k % RingSize] = s.stream[k + 1]
  <2>1. s.fed = s.read /\ Ringed(s)
    BY DEF VideoGood
  <2> QED BY <1>1, <2>1 DEF Ringed
<1>3. x = s.stream[s.read + 1] /\ x \in Codes
  <2>1. s.read \in s.read .. s.produced - 1 /\ s.read + 1 \in 1 .. Len(s.stream)
    BY <1>1, <1>2
  <2>2. s.stream[s.read + 1] \in Codes
    BY <1>1, <2>1, ElementOfSeq
  <2> QED BY <1>2, <2>1, <2>2
<1>4. /\ d \in Seq(Codes) /\ Len(d) = Len(b) + 1 /\ d[Len(b) + 1] = x
      /\ \A i \in 1 .. Len(b) : d[i] = b[i]
      /\ \A i \in Nat : EndsAt(d, i) /\ i + 4 <= Len(b) => EndsAt(b, i)
  <2> HIDE DEF x, b
  <2> QED BY <1>1, <1>3, PieceGrows
<1> HIDE DEF x
<1>5. u = [s EXCEPT !.buffer = d, !.fed = @ + 1, !.stalled = FALSE]
  BY <1>1 DEF VideoState
<1> HIDE DEF d
<1>6. /\ u.stream = s.stream /\ u.produced = s.produced /\ u.read = s.read /\ u.ring = s.ring
      /\ u.buffer = d /\ u.pipeline = s.pipeline /\ u.running = s.running
      /\ u.fed = s.fed + 1 /\ u.consumed = s.consumed
      /\ u.stalled = FALSE /\ u.searching = s.searching /\ u.found = s.found
      /\ u.sequenceOnly = s.sequenceOnly /\ u.searchPosition = p /\ u.hit = s.hit
  BY <1>1, <1>5 DEF VideoState
<1>7. u \in VideoState
  <2>1. s.fed + 1 \in Nat
    BY <1>1
  <2> QED BY <1>1, <1>4, <1>5, <2>1 DEF VideoState
<1>8. Input(s, x) = t
  BY DEF Input
<1> HIDE DEF u, b, p
<1>9. Piece(u)
  <2>1. /\ s.consumed <= s.fed /\ Len(b) = s.fed - s.consumed
        /\ \A i \in 1 .. Len(b) : b[i] = s.stream[s.consumed + i]
    BY DEF VideoGood, Piece, b
  <2>2. s.consumed <= s.fed + 1 /\ s.fed + 1 <= Len(s.stream) /\ Len(d) = (s.fed + 1) - s.consumed
    BY <1>1, <1>2, <1>4, <2>1
  <2>3. ASSUME NEW i \in 1 .. Len(d) PROVE d[i] = s.stream[s.consumed + i]
    <3>1. CASE i \in 1 .. Len(b)
      BY <1>4, <2>1, <3>1
    <3>2. CASE i = Len(b) + 1
      <4>1. s.consumed + i = s.read + 1
        BY <1>1, <1>2, <2>1, <3>2
      <4> QED BY <1>3, <1>4, <3>2, <4>1
    <3>3. i \in 1 .. Len(b) \/ i = Len(b) + 1
      BY <1>1, <1>4
    <3> QED BY <3>1, <3>2, <3>3
  <2> QED BY <1>6, <2>2, <2>3 DEF Piece
<1>10. Passed(u)
  <2>1. /\ s.found => StartCode(s.stream, s.hit - 4)
        /\ p = 0 \/ p + 3 <= Len(b) \/ s.consumed + p <= s.hit
        /\ ~s.sequenceOnly => \A i \in 0 .. p - 1 : EndsAt(b, i) => s.consumed + i < s.hit
    BY Zenon DEF VideoGood, Passed, b, p
  <2>2. p = 0 \/ p + 3 <= Len(d) \/ s.consumed + p <= s.hit
    BY <1>1, <1>4, <2>1
  <2>3. ASSUME ~s.sequenceOnly, NEW i \in 0 .. p - 1, EndsAt(d, i)
        PROVE  s.consumed + i < s.hit
    <3>1. i \in Nat /\ i < p
      BY <1>1
    <3>2. CASE i + 4 <= Len(b)
      <4>1. EndsAt(b, i)
        BY <1>4, <2>3, <3>1, <3>2
      <4> QED BY <2>1, <2>3, <4>1
    <3>3. CASE ~(i + 4 <= Len(b))
      <4>1. ~(p = 0) /\ ~(p + 3 <= Len(b))
        BY <1>1, <3>1, <3>3
      <4>2. s.consumed + p <= s.hit
        BY <2>1, <4>1
      <4> QED BY <1>1, <3>1, <4>2
    <3> QED BY <3>2, <3>3
  <2> QED BY <1>6, <2>1, <2>2, <2>3 DEF Passed
<1>11. u.searching \/ Searched(u)
  BY DEF Searched
<1>12. t \in VideoState /\ SearchKeeps(u, t) /\ Passed(t) /\ Searched(t)
  BY <1>7, <1>9, <1>10, <1>11, SearchRuns
<1> HIDE DEF t
<1>13. Piece(t)
  BY <1>9, <1>12, SearchKeepsGood
<1>14. /\ v.read = t.read + 1 /\ v.stream = t.stream /\ v.produced = t.produced
       /\ v.ring = t.ring /\ v.buffer = t.buffer /\ v.pipeline = t.pipeline /\ v.running = t.running
       /\ v.stalled = t.stalled /\ v.skips = t.skips /\ v.fed = t.fed /\ v.consumed = t.consumed
       /\ v.searching = t.searching /\ v.found = t.found /\ v.hit = t.hit
       /\ v.sequenceOnly = t.sequenceOnly /\ v.searchPosition = t.searchPosition
  BY <1>12 DEF VideoState
<1>22. v \in VideoState
  <2>1. t.read + 1 \in Nat
    BY <1>12 DEF VideoState
  <2> QED BY <1>12, <2>1 DEF VideoState
<1> HIDE DEF v
<1>15. v.fed = v.read
  BY <1>2, <1>6, <1>12, <1>14 DEF SearchKeeps
<1>16. Ringed(v)
  <2>1. /\ v.read = s.read + 1 /\ v.produced = s.produced /\ v.stream = s.stream /\ v.ring = s.ring
    BY <1>6, <1>12, <1>14 DEF SearchKeeps
  <2>2. /\ s.read + 1 <= s.produced /\ s.produced < (s.read + 1) + RingSize
        /\ \A k \in s.read + 1 .. s.produced - 1 : k \in s.read .. s.produced - 1
    BY <1>1, <1>2, VideoAssumption
  <2> QED BY <1>2, <2>1, <2>2 DEF Ringed
<1>17. Piece(v)
  BY <1>13, <1>14 DEF Piece
<1>18. Passed(v)
  BY <1>12, <1>14 DEF Passed
<1>19. Searched(v)
  BY <1>12, <1>14 DEF Searched
<1>20. Waits(v)
  BY <1>6, <1>12, <1>14 DEF Waits, SearchKeeps
<1>21. VideoGood(v)
  BY <1>15, <1>16, <1>17, <1>18, <1>19, <1>20, <1>22 DEF VideoGood
<1> QED BY <1>8, <1>21 DEF v, x

\* So does each byte of a tick.
LEMMA DmaStepGood ==
  ASSUME NEW s, VideoGood(s)
  PROVE  VideoGood(DmaStep(s)) /\ DmaStep(s) \in VideoState
BY ByteFed DEF DmaStep, VideoGood

GoodVideos == {s \in VideoState : VideoGood(s)}

\* And a tick, however many bytes it moves.
LEMMA DmaTicks ==
  ASSUME NEW s, VideoGood(s)
  PROVE  VideoGood(tickDma(s))
<1> DEFINE S == GoodVideos
           N == DmaBurst
           g == [n \in 1 .. N |-> [t \in S |-> DmaStep(t)]]
           Is(f) == f = [n \in 0 .. N |->
                           IF n = 0 THEN s
                           ELSE LET t == f[n - 1]
                                IN  IF t.read = t.produced \/ Full(t) THEN t
                                    ELSE [Input(t, t.ring[t.read % RingSize]) EXCEPT !.read = @ + 1]]
           to == CHOOSE f : Is(f)
<1>1. N \in Nat
  BY VideoAssumption
<1>2. s \in S
  BY DEF GoodVideos, VideoGood
<1>3. \A t \in S : DmaStep(t) \in S
  BY DmaStepGood DEF GoodVideos
<1>4. g \in [1 .. N -> [S -> S]]
  <2> HIDE DEF S, N
  <2> QED BY <1>3
<1>5. \E f : Is(f)
  <2> HIDE DEF S, g
  <2>1. PICK f \in [0 .. N -> S] : StepsFrom(f, s, g, N)
    <3> HIDE DEF N
    <3> QED BY <1>1, <1>2, <1>4, StepByStep
  <2>2. f[0] = s
    BY <1>1, <2>1 DEF StepsFrom
  <2>3. \A n \in 0 .. N : n # 0 => n \in 1 .. N /\ n - 1 \in 0 .. N
    BY <1>1
  <2>4. \A n \in 0 .. N : n # 0 => f[n] = g[n][f[n - 1]] /\ f[n - 1] \in S
    BY <2>1, <2>3 DEF StepsFrom
  <2>5. \A n \in 0 .. N : n # 0 => f[n] = DmaStep(f[n - 1])
    BY <2>3, <2>4 DEF g
  <2>6. \A n \in 0 .. N : f[n] = IF n = 0 THEN s ELSE
            LET t == f[n - 1]
            IN  IF t.read = t.produced \/ Full(t) THEN t
                ELSE [Input(t, t.ring[t.read % RingSize]) EXCEPT !.read = @ + 1]
    BY <2>2, <2>5, Zenon DEF DmaStep
  <2>7. f = [n \in 0 .. N |-> f[n]]
    BY <2>1
  <2>8. Is(f)
    BY <2>6, <2>7
  <2> QED BY <2>8
<1>6. Is(to)
  <2> HIDE DEF Is
  <2> QED BY <1>5
<1>7. tickDma(s) = to[N]
  BY Zenon DEF tickDma
<1> HIDE DEF to, g
<1>8. to[0] = s /\ \A n \in 1 .. N : to[n] = DmaStep(to[n - 1])
  <2>1. \A n \in 0 .. N : to[n] = IF n = 0 THEN s ELSE DmaStep(to[n - 1])
    <3> HIDE DEF N
    <3>1. to = [n \in 0 .. N |->
                  IF n = 0 THEN s
                  ELSE LET t == to[n - 1]
                       IN  IF t.read = t.produced \/ Full(t) THEN t
                           ELSE [Input(t, t.ring[t.read % RingSize]) EXCEPT !.read = @ + 1]]
      BY <1>6
    <3>2. to = [n \in 0 .. N |-> IF n = 0 THEN s ELSE DmaStep(to[n - 1])]
      BY <3>1, Zenon DEF DmaStep
    <3> QED BY <3>2
  <2>2. 0 \in 0 .. N /\ \A n \in 1 .. N : n \in 0 .. N /\ n # 0
    BY <1>1
  <2> QED BY <2>1, <2>2
<1> DEFINE T == {n \in 0 .. N : to[n] \in S}
<1>9. 0 \in T
  BY <1>1, <1>2, <1>8
<1>10. ASSUME NEW n \in 1 .. N, n - 1 \in T PROVE n \in T
  <2>1. n \in 0 .. N /\ to[n - 1] \in S
    BY <1>1, <1>10
  <2> HIDE DEF S
  <2> QED BY <1>3, <1>8, <2>1
<1>11. 0 .. N \subseteq T
  <2> HIDE DEF T, N
  <2> QED BY <1>1, <1>9, <1>10, UpTo
<1>12. to[N] \in S
  <2>1. N \in 0 .. N
    BY <1>1
  <2> QED BY <1>11, <2>1
<1> QED BY <1>7, <1>12 DEF GoodVideos

\* What the actions that write a few registers leave alone.
StreamKept(s, t) ==
  /\ t.stream = s.stream /\ t.produced = s.produced /\ t.read = s.read /\ t.ring = s.ring
  /\ t.buffer = s.buffer /\ t.fed = s.fed /\ t.consumed = s.consumed
  /\ t.searching = s.searching /\ t.sequenceOnly = s.sequenceOnly
  /\ t.searchPosition = s.searchPosition /\ t.hit = s.hit

\* Then all but the task is as good as it was.
LEMMA StreamKeptGood ==
  ASSUME NEW s, VideoGood(s), NEW t, t \in VideoState, StreamKept(s, t),
         t.found => s.found, Waits(t)
  PROVE  VideoGood(t)
<1>1. Ringed(t) /\ t.fed = t.read
  BY DEF VideoGood, StreamKept, Ringed
<1>2. Piece(t)
  BY DEF VideoGood, StreamKept, Piece
<1>3. Passed(t)
  BY DEF VideoGood, StreamKept, Passed
<1>4. Searched(t)
  BY DEF VideoGood, StreamKept, Searched
<1> QED BY <1>1, <1>2, <1>3, <1>4 DEF VideoGood

\* A task that is launched was not running, so it does not wait.
LEMMA TaskLaunched ==
  ASSUME NEW s, VideoGood(s)
  PROVE  VideoGood(launchTask(s))
<1> DEFINE u == [s EXCEPT !.execute = FALSE, !.running = TRUE, !.skips = s.skip,
                          !.pipeline = IF @ = "idle" THEN "decoding" ELSE @]
<1>1. s \in VideoState
  BY DEF VideoGood
<1>2. CASE ~s.enabled \/ s.running \/ ~s.execute
  BY <1>2 DEF launchTask
<1>3. CASE ~(~s.enabled \/ s.running \/ ~s.execute)
  <2>1. launchTask(s) = startSearch(u)
    BY <1>3, Zenon DEF launchTask
  <2>2. StreamKept(s, u) /\ u.found = s.found /\ u.stalled = s.stalled
    BY <1>1 DEF VideoState, StreamKept
  <2>3. u \in VideoState
    BY <1>1 DEF VideoState
  <2>4. ~s.stalled
    BY <1>3 DEF VideoGood, Waits
  <2> HIDE DEF u
  <2>5. Waits(u)
    BY <2>2, <2>4 DEF Waits
  <2>6. VideoGood(u)
    BY <2>2, <2>3, <2>5, StreamKeptGood
  <2> QED BY <2>1, <2>6, SearchStarts
<1> QED BY <1>2, <1>3

\* VID_TIS.
LEMMA TaskWritten ==
  ASSUME NEW s, VideoGood(s), NEW n \in Skip
  PROVE  VideoGood([s EXCEPT !.execute = TRUE, !.skip = n])
<1> DEFINE t == [s EXCEPT !.execute = TRUE, !.skip = n]
<1>1. s \in VideoState /\ n \in 0 .. 2
  BY VideoAssumption DEF VideoGood
<1>2. /\ StreamKept(s, t) /\ t.found = s.found /\ t.stalled = s.stalled /\ t.running = s.running
      /\ t.pipeline = s.pipeline /\ t.skips = s.skips
  BY <1>1 DEF VideoState, StreamKept
<1>3. t \in VideoState
  BY <1>1 DEF VideoState
<1> HIDE DEF t
<1>4. TaskEnd(t) = TaskEnd(s)
  BY <1>2, SameTask DEF StreamKept
<1>5. Waits(t)
  BY <1>2, <1>4 DEF Waits, VideoGood
<1>6. VideoGood(t)
  BY <1>2, <1>3, <1>5, StreamKeptGood
<1> QED BY <1>6 DEF t

\* The control register.
LEMMA ControlWritten ==
  ASSUME NEW s, VideoGood(s)
  PROVE  VideoGood([s EXCEPT !.enabled = ~@])
<1> DEFINE t == [s EXCEPT !.enabled = ~@]
<1>1. s \in VideoState
  BY DEF VideoGood
<1>2. /\ StreamKept(s, t) /\ t.found = s.found /\ t.stalled = s.stalled /\ t.running = s.running
      /\ t.pipeline = s.pipeline /\ t.skips = s.skips
  BY <1>1 DEF VideoState, StreamKept
<1>3. t \in VideoState
  BY <1>1 DEF VideoState
<1> HIDE DEF t
<1>4. TaskEnd(t) = TaskEnd(s)
  BY <1>2, SameTask DEF StreamKept
<1>5. Waits(t)
  BY <1>2, <1>4 DEF Waits, VideoGood
<1>6. VideoGood(t)
  BY <1>2, <1>3, <1>5, StreamKeptGood
<1> QED BY <1>6 DEF t

\* The header FIFO.
LEMMA HeaderRead ==
  ASSUME NEW s, VideoGood(s), NEW available \in BOOLEAN
  PROVE  VideoGood([s EXCEPT !.headerPosition = IF available THEN @ + 1 ELSE @, !.found = FALSE])
<1> DEFINE t == [s EXCEPT !.headerPosition = IF available THEN @ + 1 ELSE @, !.found = FALSE]
<1>1. s \in VideoState /\ s.headerPosition + 1 \in Nat
  BY DEF VideoGood, VideoState
<1>2. /\ StreamKept(s, t) /\ t.found = FALSE /\ t.stalled = s.stalled /\ t.running = s.running
      /\ t.pipeline = s.pipeline /\ t.skips = s.skips
  BY <1>1 DEF VideoState, StreamKept
<1>3. t \in VideoState
  BY <1>1 DEF VideoState
<1> HIDE DEF t
<1>4. TaskEnd(t) = TaskEnd(s)
  BY <1>2, SameTask DEF StreamKept
<1>5. Waits(t)
  BY <1>2, <1>4 DEF Waits, VideoGood
<1>6. VideoGood(t)
  BY <1>2, <1>3, <1>5, StreamKeptGood
<1> QED BY <1>6 DEF t

\* A pipe reset, in the middle of a task.
LEMMA PipeIsReset ==
  ASSUME NEW s, VideoGood(s)
  PROVE  VideoGood([s EXCEPT !.pipeline = "idle", !.resets = @ + 1])
<1> DEFINE t == [s EXCEPT !.pipeline = "idle", !.resets = @ + 1]
<1>1. s \in VideoState /\ s.resets + 1 \in Nat
  BY DEF VideoGood, VideoState
<1>2. /\ StreamKept(s, t) /\ t.found = s.found /\ t.stalled = s.stalled /\ t.running = s.running
      /\ t.pipeline = "idle"
  BY <1>1 DEF VideoState, StreamKept
<1>3. t \in VideoState
  BY <1>1 DEF VideoState
<1> HIDE DEF t
<1>4. Waits(t)
  BY <1>2 DEF Waits, VideoGood
<1>5. VideoGood(t)
  BY <1>2, <1>3, <1>4, StreamKeptGood
<1> QED BY <1>5 DEF t

\* A soft reset empties the buffer.
LEMMA SoftlyReset ==
  ASSUME NEW s, VideoGood(s)
  PROVE  VideoGood([softReset(s) EXCEPT !.resets = @ + 1])
<1> DEFINE u == softReset(s)
           t == [u EXCEPT !.resets = @ + 1]
<1>1. /\ s \in VideoState /\ s.resets + 1 \in Nat /\ s.fed \in Nat /\ s.fed = s.read /\ s.read \in Nat
      /\ s.stream \in Seq(Codes) /\ s.produced \in Nat
  BY DEF VideoGood, VideoState
<1>2. <<>> \in Seq(Codes) /\ Len(<<>>) = 0 /\ Len(s.stream) \in Nat
  BY <1>1, LenProperties
<1>3. /\ u.stream = s.stream /\ u.produced = s.produced /\ u.read = s.read /\ u.ring = s.ring
      /\ u.buffer = <<>> /\ u.fed = s.fed /\ u.consumed = s.fed /\ u.searching = FALSE
      /\ u.found = FALSE /\ u.sequenceOnly = TRUE /\ u.searchPosition = 0 /\ u.stalled = FALSE
      /\ u.resets = s.resets
  BY <1>1 DEF VideoState, softReset
<1>4. u \in VideoState
  <2> DEFINE e == <<>>
             v == [s EXCEPT !.buffer = e, !.consumed = s.fed, !.stalled = FALSE, !.headerPosition = 0,
                            !.searchPosition = 0, !.searching = FALSE]
  <2>1. e \in Seq(Codes)
    BY <1>2
  <2> DEFINE w == [v EXCEPT !.found = FALSE, !.sequenceOnly = TRUE, !.pipeline = "seek"]
  <2>2. u = [w EXCEPT !.execute = FALSE, !.skip = 0, !.skips = 0]
    BY <1>1 DEF VideoState, softReset
  <2> HIDE DEF e, u
  <2>3. v \in VideoState
    BY <1>1, <2>1 DEF VideoState
  <2> HIDE DEF v
  <2>4. w \in VideoState
    BY <2>3 DEF VideoState
  <2> DEFINE none == 0
  <2>5. none \in 0 .. 2 /\ u = [w EXCEPT !.execute = FALSE, !.skip = none, !.skips = none]
    BY <2>2
  <2> HIDE DEF w, none
  <2> QED BY <2>4, <2>5 DEF VideoState
<1> HIDE DEF u
<1>5. /\ t.stream = s.stream /\ t.produced = s.produced /\ t.read = s.read /\ t.ring = s.ring
      /\ t.buffer = <<>> /\ t.fed = s.fed /\ t.consumed = s.fed /\ t.searching = FALSE
      /\ t.found = FALSE /\ t.sequenceOnly = TRUE /\ t.searchPosition = 0 /\ t.stalled = FALSE
  BY <1>3, <1>4 DEF VideoState
<1>6. t \in VideoState
  <2>1. u.resets + 1 \in Nat
    BY <1>1, <1>3
  <2> QED BY <1>4, <2>1 DEF VideoState
<1> HIDE DEF t
<1>7. Ringed(s)
  BY DEF VideoGood
<1>8. Ringed(t) /\ t.fed = t.read
  BY <1>1, <1>5, <1>7 DEF Ringed
<1>9. Piece(t)
  <2>1. s.fed <= Len(s.stream)
    BY <1>1, <1>2, <1>7 DEF Ringed
  <2>2. s.fed - s.fed = 0 /\ s.fed <= s.fed
    BY <1>1
  <2> QED BY <1>2, <1>5, <2>1, <2>2 DEF Piece
<1>10. Passed(t) /\ Searched(t) /\ Waits(t)
  BY <1>5 DEF Passed, Searched, Waits
<1>11. VideoGood(t)
  BY <1>6, <1>8, <1>9, <1>10 DEF VideoGood
<1> QED BY <1>11 DEF t, u

\* The transport controller writes where nothing is left to read.
LEMMA Delivered ==
  ASSUME NEW s, VideoGood(s), s.produced < Len(s.stream), s.produced + 1 < s.read + RingSize
  PROVE  VideoGood([s EXCEPT !.produced = @ + 1,
                             !.ring[s.produced % RingSize] = s.stream[s.produced + 1]])
<1> DEFINE x == s.stream[s.produced + 1]
           j == s.produced % RingSize
           r == [s.ring EXCEPT ![j] = x]
           t == [s EXCEPT !.produced = @ + 1, !.ring[j] = x]
<1>1. /\ s \in VideoState /\ s.produced \in Nat /\ s.read \in Nat /\ s.stream \in Seq(Codes)
      /\ s.ring \in [0 .. RingSize - 1 -> Codes] /\ Len(s.stream) \in Nat
      /\ RingSize \in Nat /\ RingSize > 0
  BY VideoAssumption, LenProperties DEF VideoGood, VideoState
<1>2. /\ s.read <= s.produced
      /\ \A k \in s.read .. s.produced - 1 : s.ring[k % RingSize] = s.stream[k + 1]
  BY DEF VideoGood, Ringed
<1>3. j \in 0 .. RingSize - 1
  BY <1>1, QuotientAndRemainder
<1>4. x \in Codes
  <2>1. s.produced + 1 \in 1 .. Len(s.stream)
    BY <1>1
  <2> QED BY <1>1, <2>1, ElementOfSeq
<1>5. r \in [0 .. RingSize - 1 -> Codes] /\ s.produced + 1 \in Nat
  <2> HIDE DEF j, x
  <2>1. r \in [0 .. RingSize - 1 -> Codes]
    BY <1>1, <1>3, <1>4
  <2> QED BY <1>1, <2>1
<1>6. t = [s EXCEPT !.produced = @ + 1, !.ring = r]
  BY <1>1 DEF VideoState
<1>7. /\ r[j] = x /\ \A i \in 0 .. RingSize - 1 : i # j => r[i] = s.ring[i]
  <2> HIDE DEF j, x
  <2> QED BY <1>1, <1>3
<1> HIDE DEF r
<1>8. /\ t.stream = s.stream /\ t.produced = s.produced + 1 /\ t.read = s.read /\ t.ring = r
      /\ t.buffer = s.buffer /\ t.fed = s.fed /\ t.consumed = s.consumed
      /\ t.searching = s.searching /\ t.sequenceOnly = s.sequenceOnly /\ t.found = s.found
      /\ t.searchPosition = s.searchPosition /\ t.hit = s.hit /\ t.skips = s.skips
      /\ t.running = s.running /\ t.stalled = s.stalled /\ t.pipeline = s.pipeline
  BY <1>1, <1>6 DEF VideoState
<1>9. t \in VideoState
  BY <1>1, <1>5, <1>6 DEF VideoState
<1> HIDE DEF t
<1>10. ASSUME NEW k \in s.read .. s.produced - 1 PROVE r[k % RingSize] = s.stream[k + 1]
  <2>1. k \in Nat /\ k < s.produced /\ s.produced - k < RingSize
    BY <1>1, <1>10
  <2>2. k % RingSize # j
    <3> DEFINE d == s.produced - k
               m == k % RingSize
               q == k \div RingSize
               h == s.produced \div RingSize
    <3>1. d \in Nat /\ d > 0 /\ d < RingSize
      BY <1>1, <2>1
    <3>2. /\ m \in Nat /\ q \in Nat /\ k = (RingSize * q) + m
          /\ h \in Nat /\ s.produced = (RingSize * h) + j /\ j \in Nat
      BY <1>1, <2>1, QuotientAndRemainder
    <3> SUFFICES ASSUME m = j PROVE FALSE
      OBVIOUS
    <3>3. d = s.produced - k
      OBVIOUS
    <3> HIDE DEF d, m, q, h, j
    <3>4. RingSize * (h - q) = d
      <4>1. d = (RingSize * h) - (RingSize * q)
        BY <1>1, <2>1, <3>2, <3>3
      <4>2. RingSize * (h - q) = (RingSize * h) - (RingSize * q)
        BY <1>1, <3>2, SMT
      <4> QED BY <4>1, <4>2
    <3>5. h - q \in Int /\ d \in Int /\ -RingSize < d
      BY <1>1, <3>1, <3>2
    <3>6. h - q = 0
      BY <1>1, <3>1, <3>4, <3>5, NoMultipleBetween
    <3>7. RingSize * 0 = 0
      BY <1>1
    <3> QED BY <3>1, <3>4, <3>6, <3>7
  <2>3. k % RingSize \in 0 .. RingSize - 1
    BY <1>1, <2>1, QuotientAndRemainder
  <2> HIDE DEF j
  <2> QED BY <1>2, <1>7, <2>2, <2>3
<1>11. Ringed(t)
  <2>1. s.read <= s.produced + 1 /\ s.produced + 1 <= Len(s.stream)
    BY <1>1, <1>2
  <2>2. ASSUME NEW k \in s.read .. (s.produced + 1) - 1 PROVE r[k % RingSize] = s.stream[k + 1]
    <3>1. k \in s.read .. s.produced - 1 \/ k = s.produced
      BY <1>1
    <3> QED BY <1>7, <1>10, <3>1
  <2> QED BY <1>8, <2>1, <2>2 DEF Ringed
<1>12. Piece(t) /\ t.fed = t.read
  BY <1>8 DEF VideoGood, Piece
<1>13. Passed(t) /\ Searched(t)
  BY <1>8 DEF VideoGood, Passed, Searched
<1>14. Waits(t)
  <2>1. TaskEnd(t) = TaskEnd(s)
    BY <1>8, SameTask
  <2> QED BY <1>8, <2>1 DEF VideoGood, Waits
<1>15. VideoGood(t)
  BY <1>9, <1>11, <1>12, <1>13, <1>14 DEF VideoGood
<1> QED BY <1>15 DEF t, j, x

\* At the start nothing has moved.
LEMMA VideoInvInit == VideoInit => VideoInv
<1> SUFFICES ASSUME VideoInit PROVE VideoInv
  OBVIOUS
<1>1. PICK s \in Streams :
    video = [stream |-> s, produced |-> 0, read |-> 0, ring |-> [i \in 0 .. RingSize - 1 |-> 0],
             buffer |-> <<>>, searchPosition |-> 0, headerPosition |-> 0, searching |-> FALSE,
             found |-> FALSE, sequenceOnly |-> TRUE, pipeline |-> "seek", running |-> FALSE,
             stalled |-> FALSE, execute |-> FALSE, skip |-> 0, skips |-> 0, enabled |-> FALSE,
             fed |-> 0, consumed |-> 0, hit |-> 0, resets |-> 0]
  BY DEF VideoInit
<1>2. s \in Seq(Codes) /\ Len(s) \in Nat /\ RingSize \in Nat /\ RingSize > 0
  BY VideoAssumption, LenProperties
<1>3. /\ [i \in 0 .. RingSize - 1 |-> 0] \in [0 .. RingSize - 1 -> Codes]
      /\ <<>> \in Seq(Codes) /\ Len(<<>>) = 0
  BY DEF Codes
<1>4. video \in VideoState
  BY <1>1, <1>2, <1>3 DEF VideoState
<1>5. /\ video.stream = s /\ video.produced = 0 /\ video.read = 0 /\ video.buffer = <<>>
      /\ video.searchPosition = 0 /\ video.searching = FALSE /\ video.found = FALSE
      /\ video.sequenceOnly = TRUE /\ video.running = FALSE /\ video.stalled = FALSE
      /\ video.fed = 0 /\ video.consumed = 0
  BY <1>1
<1>6. Ringed(video)
  <2>1. video.read .. video.produced - 1 = {}
    BY <1>5
  <2> QED BY <1>2, <1>5, <2>1 DEF Ringed
<1>7. Piece(video)
  BY <1>2, <1>3, <1>5 DEF Piece
<1>8. Passed(video) /\ Searched(video) /\ Waits(video)
  BY <1>5 DEF Passed, Searched, Waits
<1> QED BY <1>4, <1>5, <1>6, <1>7, <1>8 DEF VideoInv, VideoGood

\* Every action keeps the invariant.
LEMMA VideoInvNext == VideoInv /\ [VideoNext]_video => VideoInv'
<1> SUFFICES ASSUME VideoGood(video), [VideoNext]_video PROVE VideoGood(video')
  BY DEF VideoInv
<1>1. CASE Deliver
  BY <1>1, Delivered DEF Deliver
<1>2. CASE Dma
  BY <1>2, DmaTicks DEF Dma
<1>3. CASE Tick
  BY <1>3, DecoderTicks DEF Tick
<1>4. CASE Vsync
  BY <1>4, TaskLaunched DEF Vsync
<1>5. CASE Search
  BY <1>5, SearchStarts DEF Search
<1>6. CASE ReadHeader
  <2> DEFINE available == ~video.searching /\ video.headerPosition < Len(video.buffer)
  <2>1. available \in BOOLEAN
    OBVIOUS
  <2>2. video' = [video EXCEPT !.headerPosition = IF available THEN @ + 1 ELSE @, !.found = FALSE]
    BY <1>6, Zenon DEF ReadHeader
  <2> HIDE DEF available
  <2> QED BY <2>1, <2>2, HeaderRead
<1>7. CASE WriteTask
  <2>1. PICK n \in Skip, force \in BOOLEAN :
          video' = IF force THEN launchTask([video EXCEPT !.execute = TRUE, !.skip = n])
                   ELSE [video EXCEPT !.execute = TRUE, !.skip = n]
    BY <1>7, Zenon DEF WriteTask
  <2>2. VideoGood([video EXCEPT !.execute = TRUE, !.skip = n])
    BY TaskWritten
  <2> QED BY <2>1, <2>2, TaskLaunched
<1>8. CASE WriteControl
  BY <1>8, ControlWritten DEF WriteControl
<1>9. CASE SoftReset
  BY <1>9, SoftlyReset DEF SoftReset
<1>10. CASE PipeReset
  BY <1>10, PipeIsReset DEF PipeReset
<1>11. CASE UNCHANGED video
  BY <1>11
<1> QED
  BY <1>1, <1>2, <1>3, <1>4, <1>5, <1>6, <1>7, <1>8, <1>9, <1>10, <1>11 DEF VideoNext

\* The invariant says what is promised of the decoder.
LEMMA VideoInvStream == VideoInv => StreamDecoded
<1> SUFFICES ASSUME VideoGood(video) PROVE StreamDecoded
  BY DEF VideoInv
<1> DEFINE b == video.buffer
           w == video.stream
           c == video.consumed
           n == video.fed
           d == SubSeq(w, c + 1, n)
<1>1. /\ b \in Seq(Codes) /\ w \in Seq(Codes) /\ c \in Nat /\ n \in Nat /\ video.searchPosition \in Nat
      /\ Len(b) \in Nat /\ Len(w) \in Nat
  BY LenProperties DEF VideoGood, VideoState
<1>2. c <= n /\ n <= Len(w) /\ Len(b) = n - c /\ \A i \in 1 .. Len(b) : b[i] = w[c + i]
  BY DEF VideoGood, Piece
<1>3. b = d
  <2> HIDE DEF b, w, c, n
  <2>1. \A i \in c + 1 .. n : w[i] \in Codes
    <3> TAKE i \in c + 1 .. n
    <3>1. i \in 1 .. Len(w)
      BY <1>1, <1>2
    <3> QED BY <1>1, <3>1, ElementOfSeq
  <2>2. c + 1 \in Int /\ n \in Int
    BY <1>1
  <2>3. /\ d \in Seq(Codes) /\ Len(d) = IF c + 1 <= n THEN n - (c + 1) + 1 ELSE 0
        /\ \A i \in 1 .. n - (c + 1) + 1 : d[i] = w[(c + 1) + i - 1]
    BY <2>1, <2>2, SubSeqProperties
  <2> HIDE DEF d
  <2>4. Len(d) = Len(b) /\ n - (c + 1) + 1 = Len(b)
    BY <1>1, <1>2, <2>3
  <2>5. \A i \in 1 .. Len(b) : b[i] = d[i]
    <3> TAKE i \in 1 .. Len(b)
    <3>1. (c + 1) + i - 1 = c + i
      BY <1>1
    <3> QED BY <1>2, <2>3, <2>4, <3>1
  <2> QED BY <1>1, <2>3, <2>4, <2>5, SeqEqual
<1>4. video.found => StartCode(video.stream, video.hit - 4)
  BY DEF VideoGood, Passed
<1>5. ASSUME video.searching, ~video.sequenceOnly, NEW i \in 0 .. Len(b),
             StartCode(b, i), Code(b, i) \in EndsPicture
      PROVE  c + i < video.hit
  <2>1. Len(b) <= video.searchPosition + 3
    BY <1>5 DEF VideoGood, Searched
  <2>2. i + 3 < Len(b)
    BY <1>5 DEF StartCode
  <2>3. i \in 0 .. video.searchPosition - 1
    BY <1>1, <2>1, <2>2
  <2>4. EndsAt(b, i)
    BY <1>5 DEF EndsAt
  <2> QED BY <1>5, <2>3, <2>4 DEF VideoGood, Passed
<1>6. video.running /\ video.stalled /\ video.pipeline # "idle" => ~TaskEnd(video).found
  BY DEF VideoGood, Waits
<1> QED BY <1>3, <1>4, <1>5, <1>6 DEF StreamDecoded

\* Whatever the stream, the sizes of ring and buffer and the firmware's tasks:
\* the bit buffer holds a piece of the stream, what was found is a start code
\* of it, no search passes over a picture or leaves one behind, and a task
\* stalls only when it cannot end.
THEOREM StreamDecodedCorrect == VideoSpec => []StreamDecoded
<1>1. VideoInit => VideoInv
  BY VideoInvInit
<1>2. VideoInv /\ [VideoNext]_video => VideoInv'
  BY VideoInvNext
<1>3. VideoInv => StreamDecoded
  BY VideoInvStream
<1> QED
  BY <1>1, <1>2, <1>3, PTL DEF VideoSpec
=============================================================================
