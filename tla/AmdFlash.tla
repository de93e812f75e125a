------------------------------ MODULE AmdFlash ------------------------------
(***************************************************************************)
(* The flash chip (src/board/AmdFlash.cpp): every store to it is a cycle   *)
(* of the bus, and two unlock cycles and a command are what programs a     *)
(* word, erases a sector or the chip, or turns autoselect on.              *)
(*                                                                         *)
(* A cycle is the word it goes to, the low byte of its value (command) and *)
(* the bits of its value; a word is its set of ones.                       *)
(***************************************************************************)
EXTENDS Naturals, Sequences

CONSTANTS
  FlashWord,  \* words of the chip
  At555, At2aa, \* those that the unlock addresses decode to
  SectorOf,   \* [word -> sector]: sectorRange
  FlashBit,
  FlashCycles \* cycles on the bus: [word, command, bits]

ASSUME FlashAssumption ==
  /\ At555 \union At2aa \subseteq FlashWord /\ At555 \intersect At2aa = {}
  /\ DOMAIN SectorOf = FlashWord
  /\ \A c \in FlashCycles : c.word \in FlashWord /\ c.bits \subseteq FlashBit

VARIABLE
  flash  \* array: [word -> its ones]   cycle: unlock cycles seen
         \* erasePrefix, programNext, autoselect   recent: the last three cycles

\* initAmdFlash, over an image
FlashInit ==
  \E erased \in SUBSET FlashWord :
    flash = [array |-> [w \in FlashWord |-> IF w \in erased THEN FlashBit ELSE {}],
             cycle |-> 0, erasePrefix |-> FALSE, programNext |-> FALSE,
             autoselect |-> FALSE, recent |-> <<>>]

Unlocks(n, c) ==
  \/ n = 0 /\ c.command = "aa" /\ c.word \in At555
  \/ n = 1 /\ c.command = "55" /\ c.word \in At2aa

\* Autoselect maps a device without a write function over the chip.
StoreWords(s, words, value) ==
  IF s.autoselect THEN s
  ELSE [s EXCEPT !.array = [w \in FlashWord |-> IF w \in words THEN value[w] ELSE @[w]]]

Ones == [w \in FlashWord |-> FlashBit]

Program(s, c) ==
  LET kept == [w \in FlashWord |-> s.array[w] \intersect c.bits]
  IN  StoreWords([s EXCEPT !.programNext = FALSE], {c.word}, kept)

Reset(s) == [s EXCEPT !.cycle = 0, !.erasePrefix = FALSE, !.autoselect = FALSE]

\* The command after the unlock cycles; most only at the first unlock address.
Command(s, c) ==
  LET t == [s EXCEPT !.cycle = 0]
      whole == c.word \in At555
  IN  IF s.erasePrefix
      THEN LET u == [t EXCEPT !.erasePrefix = FALSE]
           IN  CASE c.command = "10" /\ whole -> StoreWords(u, FlashWord, Ones)
                 [] c.command = "30" ->
                      StoreWords(u, {w \in FlashWord : SectorOf[w] = SectorOf[c.word]}, Ones)
                 [] OTHER -> u
      ELSE CASE c.command = "90" /\ whole -> [t EXCEPT !.autoselect = TRUE]
             [] c.command = "a0" /\ whole -> [t EXCEPT !.programNext = TRUE]
             [] c.command = "80" /\ whole -> [t EXCEPT !.erasePrefix = TRUE]
             [] OTHER -> t

\* Mutant: a cycle that unlocks nothing does not begin the sequence anew.
KeepsCycle(s) == s
BeginsAnew(s) == [s EXCEPT !.cycle = 0]

flashWrite(s, c) ==
  CASE s.programNext -> Program(s, c)
    [] ~s.programNext /\ c.command = "f0" -> Reset(s)
    [] ~s.programNext /\ c.command # "f0" /\ s.cycle = 2 -> Command(s, c)
    [] OTHER -> IF Unlocks(s.cycle, c) THEN [s EXCEPT !.cycle = @ + 1] ELSE BeginsAnew(s)

LastThree(s) == IF Len(s) > 3 THEN Tail(s) ELSE s

FlashWrite ==
  \E c \in FlashCycles :
    flash' = [flashWrite(flash, c) EXCEPT !.recent = LastThree(Append(@, c))]

FlashNext == FlashWrite

FlashSpec == FlashInit /\ [][FlashNext]_flash
-----------------------------------------------------------------------------
(***************************************************************************)
(* Only a whole command changes the array: a word right after its program  *)
(* command, and never from 0 to 1; a sector, or the chip, as the third     *)
(* cycle of an unlock sequence, to ones.  Whatever else is written leaves  *)
(* it alone, as the comment at AmdFlash.cpp:11 says.                       *)
(***************************************************************************)
Unlocking(cycles) == Len(cycles) >= 2 /\ Unlocks(0, cycles[1]) /\ Unlocks(1, cycles[2])

ArrayChangesByCommand ==
  [][flash'.array # flash.array =>
       LET last == flash'.recent
           c == last[Len(last)]
           changed == {w \in FlashWord : flash'.array[w] # flash.array[w]}
       IN  \/ /\ Unlocking(flash.recent) /\ Len(flash.recent) = 3
              /\ flash.recent[3].command = "a0"
              /\ changed = {c.word} /\ flash'.array[c.word] \subseteq flash.array[c.word]
           \/ /\ Len(last) = 3 /\ Unlocking(last) /\ c.command \in {"10", "30"}
              /\ \A w \in changed : flash'.array[w] = FlashBit
              /\ c.command = "30" => \A w \in changed : SectorOf[w] = SectorOf[c.word]
    ]_flash
=============================================================================
