------------------------------ MODULE MCMachine ------------------------------
(***************************************************************************)
(* The arithmetic, the memory, the code caches, the devices and the main   *)
(* program, one of which works in a behaviour while the others keep their  *)
(* initial state.                                                          *)
(***************************************************************************)
EXTENDS MCArithmetic, CodeCache, AmdFlash, InterruptController, VideoDecoder, BatchLog, FreeRun

VARIABLE unit \* which of them: it never changes

deviceVars == <<flash, inc, video>>
hostVars == <<batch, host>>
vars == <<unit, calcVars, memoryVars, codeVars, deviceVars, hostVars>>

------------------------------------------------------------------------------
(* Memory: 16 bytes in four blocks, words of two bytes, a device at the end,  *)
(* two bytes whose stores are intercepted                                   *)

MCDevices == {[start |-> 12, end |-> 15, write |-> TRUE]}
Image(unwritten, value(_)) == [a \in Address |-> IF a \in unwritten THEN Unwritten ELSE value(a)]
Pairs(a) == (a \div 2) % 3
Cycling(a) == a % 3
MCImages == {Image({3, 10}, Pairs), Image({11}, Cycling)}

\* Every alignment against every other, overlaps either way, holes, the device, the end.
Row(op, source, destination, width) ==
  [op |-> op, source |-> source, destination |-> destination, width |-> width, rows |-> 1,
   sourceStride |-> 0, destinationStride |-> 0]
Rows(op, source, destination, width, stride) ==
  [Row(op, source, destination, width) EXCEPT !.rows = 2, !.sourceStride = stride,
                                              !.destinationStride = 3]
\* Of devmove, those whose words are intercepted whole or not at all.
MCMoves ==
  {Row("move", s, d, w) : s \in {0, 1, 9}, d \in 0 .. 15, w \in {3, 5}}
  \union {Row("devmove", s, d, w) : s \in {0, 1, 9}, d \in 0 .. 15 \ {1, 3, 5}, w \in {3, 5}}
  \union {Rows(op, s, d, w, t) : op \in {"All", "Nonzero", "Zero"}, s \in {1, 2, 7}, d \in 0 .. 7,
                                 w \in {1, 5}, t \in {1, 4}}
MCFirmware == {[start |-> a, bytes |-> <<1, 2, 1>>] : a \in {0, 5}}

(* Code: instructions of one, two and three bytes over two blocks, a store  *)
(* into the middle of an instruction, over two blocks and to the device     *)
ProgramBytes == <<1, 0, 2, 0, 1, 2, 0, 1>>
MCPrograms == {[a \in Address |-> IF a < 8 THEN ProgramBytes[a + 1] ELSE Unwritten]}
MCWrites == {[at |-> 2, bytes |-> <<1>>], [at |-> 3, bytes |-> <<2, 2>>], [at |-> 12, bytes |-> <<2>>]}

(* Flash: the two unlock addresses in one sector, a word in another         *)
Cycle(word, command, bits) == [word |-> word, command |-> command, bits |-> bits]
MCCycles ==
  {Cycle("u1", c, {"h"}) : c \in {"aa", "a0", "90", "80", "10", "30"}}
  \union {Cycle("u2", "55", {}), Cycle("x", "aa", {"h"}), Cycle("x", "30", {}),
          Cycle("x", "f0", {"h"}), Cycle("u1", "f0", {"h", "l"})}
MCSector == [w \in {"u1", "u2", "x"} |-> IF w = "x" THEN 2 ELSE 1]

MCTrigger == [l \in IrqLevel |-> CASE l = 1 -> "rising" [] l = 4 -> "any" [] OTHER -> "high"]

(* A stream with a picture before its first sequence header, a slice, and   *)
(* a code split by every boundary of the ring                               *)
MCStreams == {<<0,0,1,0, 0,0,1,3, 0,0,1,0, 0,0,1,4, 0,0,1,0, 0,0,1,5>>}
------------------------------------------------------------------------------
Init ==
  /\ unit \in {"arithmetic", "moves", "saves", "code", "flash", "inc", "video", "batch", "host"}
  /\ IF unit = "code" THEN CodeInit /\ moved = None /\ disk = None /\ loaded = None
     ELSE MemoryInit /\ iptr = 0 /\ next = NoInstr /\ decodeCache = <<>> /\ codeBlocks = <<>>
            /\ at = [slot |-> 0, index |-> 0] /\ quiescent = FALSE /\ state = "stopped"
  /\ FlashInit /\ (unit # "flash" => \A w \in FlashWord : flash.array[w] = FlashBit)
  /\ IncInit /\ VideoInit /\ BatchInit /\ HostInit
  /\ IF unit = "arithmetic" THEN CalcInit
     ELSE program = [name |-> "none", code |-> <<Op("nop")>>] /\ initial = Registers(0, 0, 0) /\ r = initial

Processor ==
  /\ unit = "arithmetic" /\ CalcNext
  /\ UNCHANGED <<unit, memoryVars, codeVars, deviceVars, hostVars>>

Machine ==
  /\ \/ unit = "moves" /\ MoveNext /\ UNCHANGED codeVars
     \/ unit = "saves" /\ SaveNext /\ UNCHANGED codeVars
     \/ unit = "code" /\ CodeNext /\ UNCHANGED <<moved, disk, loaded>>
  /\ UNCHANGED <<unit, calcVars, deviceVars, hostVars>>

Devices ==
  /\ \/ unit = "flash" /\ FlashNext /\ UNCHANGED <<inc, video>>
     \/ unit = "inc" /\ IncNext /\ UNCHANGED <<flash, video>>
     \/ unit = "video" /\ VideoNext /\ UNCHANGED <<flash, inc>>
  /\ UNCHANGED <<unit, calcVars, memoryVars, codeVars, hostVars>>

Main ==
  /\ \/ unit = "batch" /\ BatchNext /\ UNCHANGED host
     \/ unit = "host" /\ HostNext /\ UNCHANGED batch
  /\ UNCHANGED <<unit, calcVars, memoryVars, codeVars, deviceVars>>

Next == Processor \/ Machine \/ Devices \/ Main

Spec == Init /\ [][Next]_vars
==============================================================================
