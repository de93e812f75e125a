----------------------------- MODULE CodeCache -----------------------------
(***************************************************************************)
(* How decoded instructions are kept and run (src/core/cpu/st20.cpp):      *)
(* decodeNextInstr with its cache of single instructions, runInstructions  *)
(* with its cache of decoded runs, and the write versions of the memory    *)
(* blocks that tell both when memory has changed.                          *)
(*                                                                         *)
(* An instruction is the number of its prefixes and the byte that ends it. *)
(* Some leave the scheduler alone (Pure), some of these end a run (Ends);  *)
(* any may store to memory, and so may what is polled after it.            *)
(***************************************************************************)
EXTENDS Memory

CONSTANTS
  Pfix,       \* the byte of a prefix
  Pure,       \* leavesSchedulerAlone, of the last byte
  Ends,       \* endsBlock
  DecodeSlots, BlockSlots, \* slots of the two caches
  MaxRun,     \* instructions in a decoded run, 16
  MaxLength,  \* longest instruction that is cached
  Programs,   \* memories with code at the start
  Targets,    \* addresses that jumps go to
  Writes,     \* what running code, devices and the prompt store: [at, bytes]
  MaxWrites   \* bound of the model on the writes to code and beside it

ASSUME CodeAssumption ==
  /\ Pfix \in Byte /\ Pure \union Ends \subseteq Byte \ {Pfix}
  /\ {DecodeSlots, BlockSlots, MaxRun, MaxLength, MaxWrites} \subseteq Nat \ {0}
  /\ MaxLength <= BLKSIZE /\ BLKSIZE < AddressSpace
  /\ Targets \subseteq Address /\ Writes \subseteq [at : Address, bytes : Seq(Byte)]
  \* Code does not run on from memory into a device of its block.
  /\ \A d \in MemoryDevices : d.start % BLKSIZE = 0

VARIABLES
  iptr,
  next,        \* instrCode, operand and instrLength
  decodeCache, \* [slot -> the instruction of an address and a version]
  codeBlocks,  \* [slot -> a run, from an address and of a version]
  at,          \* the run being executed: its slot and the next index in it
  quiescent,
  state        \* of runInstructions: "pair", "quiet", "block" or "stopped"

codeVars == <<iptr, next, decodeCache, codeBlocks, at, quiescent, state>>

NoInstr == [length |-> 0]

ByteAt(s, a, k) == readBytes(s, Wrap(a + k - 1), 1)
GoesOn(read) == read.result = "ok" /\ read.bytes[1] = Pfix

(***************************************************************************)
(* decodeAt: the instruction at an address, byte by byte to the first that *)
(* is not a prefix; length 0 when it cannot be read in at most limit bytes.*)
(***************************************************************************)
decodeAt(s, a, limit) ==
  LET length == CHOOSE k \in 1 .. limit + 1 :
                  /\ k = limit + 1 \/ ~GoesOn(ByteAt(s, a, k))
                  /\ \A j \in 1 .. k - 1 : GoesOn(ByteAt(s, a, j))
      last == ByteAt(s, a, length)
  IN  IF length > limit \/ last.result # "ok" THEN NoInstr
      ELSE [length |-> length, code |-> last.bytes[1]]

Decoded(s, a) == decodeAt(s, a, AddressSpace)

DecodeHit(s, a) ==
  LET c == decodeCache[a % DecodeSlots]
  IN  c.instr.length # 0 /\ c.iptr = a /\ c.version = s.version[BlockOf(a)]

\* An instruction that goes on in the next block has two versions: not cached.
Cacheable(instr, a) ==
  /\ instr.length <= MaxLength
  /\ BlockOf(Wrap(a + instr.length - 1)) = BlockOf(a)
  /\ ~isMemoryDeviceAddress(a)

\* decodeNextInstr at a, with memory s: the run stops if there is none.
DecodeNext(s, a, then) ==
  LET instr == IF DecodeHit(s, a) THEN decodeCache[a % DecodeSlots].instr ELSE Decoded(s, a)
  IN  /\ next' = instr
      /\ decodeCache' =
           IF ~DecodeHit(s, a) /\ instr.length # 0 /\ Cacheable(instr, a)
           THEN [decodeCache EXCEPT ![a % DecodeSlots] =
                   [iptr |-> a, version |-> s.version[BlockOf(a)], instr |-> instr]]
           ELSE decodeCache
      /\ state' \in IF instr.length = 0 THEN {"stopped"} ELSE then

(***************************************************************************)
(* codeBlock: the run of instructions from a, to the end of its block.     *)
(***************************************************************************)
InBlock(s, x) == decodeAt(s, x, BLKSIZE - BlockOffset(x))

\* One more instruction, unless the last ends the run or none can be decoded.
Extended(s, b) ==
  LET instr == InBlock(s, b.next)
  IN  IF /\ b.run # <<>> => Last(b.run).code \in Pure \ Ends /\ BlockOffset(b.next) # 0
         /\ instr.length # 0
      THEN [run |-> Append(b.run, instr), next |-> b.next + instr.length]
      ELSE b

RunAt(s, a) ==
  LET upTo[n \in 0 .. MaxRun] ==
        IF n = 0 THEN [run |-> <<>>, next |-> a] ELSE Extended(s, upTo[n - 1])
  IN  upTo[MaxRun].run

CodeBlockHit(s, a) ==
  LET c == codeBlocks[a % BlockSlots]
  IN  c.run # <<>> /\ c.iptr = a /\ c.version = s.version[BlockOf(a)]

LookUp ==
  /\ state = "quiet"
  /\ LET slot == iptr % BlockSlots
         device == isMemoryDeviceAddress(iptr)
         run == IF CodeBlockHit(memory, iptr) THEN codeBlocks[slot].run
                ELSE IF device THEN <<>> ELSE RunAt(memory, iptr)
     IN  /\ codeBlocks' = [codeBlocks EXCEPT ![slot] =
                IF device THEN [@ EXCEPT !.run = <<>>]
                ELSE [iptr |-> iptr, version |-> memory.version[BlockOf(iptr)], run |-> run]]
         /\ IF run = <<>> THEN DecodeNext(memory, iptr, {"pair"}) /\ UNCHANGED at
            ELSE /\ state' = "block" /\ at' = [slot |-> slot, index |-> 1]
                 /\ UNCHANGED <<next, decodeCache>>
  /\ UNCHANGED <<iptr, quiescent, memory>>

(***************************************************************************)
(* What an instruction and the poll after it do to memory, to the address  *)
(* of the next instruction and to the quiet of the scheduler.              *)
(***************************************************************************)
Effect(instr) ==
  /\ \/ memory' = memory
     \/ /\ Stores(memory) < MaxWrites
        /\ \E w \in Writes : memory' = storeBytes(memory, w.at, w.bytes)
  /\ iptr' \in {Wrap(iptr + instr.length)} \union Targets

\* Where a run goes on: its caller may execute an instruction of its own.
Onward == IF quiescent' THEN {"quiet", "pair"} ELSE {"pair"}

\* execInstr and decodeNextInstr
ExecPair ==
  /\ state = "pair"
  /\ Effect(next)
  /\ quiescent' \in BOOLEAN
  /\ DecodeNext(memory', iptr', Onward)
  /\ UNCHANGED <<codeBlocks, at>>

RunGoesOn(s, block, instr) ==
  /\ at.index < Len(block.run)
  /\ iptr' = Wrap(iptr + instr.length)
  /\ s.version[BlockOf(block.iptr)] = block.version

\* execBlockInstr: quiescence lasts, or a poll after the instruction ends it.
ExecBlock ==
  /\ state = "block"
  /\ LET block == codeBlocks[at.slot]
         instr == block.run[at.index]
     IN  /\ Effect(instr)
         /\ quiescent' \in BOOLEAN
         /\ \/ /\ quiescent' /\ RunGoesOn(memory', block, instr)
               /\ at' = [at EXCEPT !.index = @ + 1]
               /\ UNCHANGED <<next, decodeCache, state>>
            \/ /\ quiescent' /\ ~RunGoesOn(memory', block, instr)
               /\ state' = "quiet"
               /\ UNCHANGED <<next, decodeCache, at>>
            \* the count is reached or the scheduler has work: back to pairs
            \/ DecodeNext(memory', iptr', Onward) /\ UNCHANGED at
  /\ UNCHANGED codeBlocks

\* Between runs, memory may be stored to from the prompt.
Prompt ==
  /\ state \in {"pair", "stopped"} /\ Stores(memory) < MaxWrites
  /\ \E w \in Writes : memory' = storeBytes(memory, w.at, w.bytes)
  /\ quiescent' = quiescent
  /\ DecodeNext(memory', iptr, Onward)
  /\ UNCHANGED <<iptr, codeBlocks, at>>

CodeInit ==
  /\ memory \in {[NoMemory EXCEPT !.byte = p] : p \in Programs}
  /\ iptr \in Targets
  /\ next = Decoded(memory, iptr) /\ next.length # 0
  /\ decodeCache = [i \in 0 .. DecodeSlots - 1 |-> [iptr |-> 0, version |-> 0, instr |-> NoInstr]]
  /\ codeBlocks = [i \in 0 .. BlockSlots - 1 |-> [iptr |-> 0, version |-> 0, run |-> <<>>]]
  /\ at = [slot |-> 0, index |-> 0]
  /\ quiescent = FALSE /\ state = "pair"

CodeNext == LookUp \/ ExecPair \/ ExecBlock \/ Prompt

CodeSpec == CodeInit /\ [][CodeNext]_<<memory, codeVars>>
-----------------------------------------------------------------------------
(***************************************************************************)
(* The instruction about to be executed, whether from a decoded run, from  *)
(* the cache or just decoded, is the one that memory holds at its address, *)
(* whatever the code, or a poll, has stored over it since it was decoded.  *)
(***************************************************************************)
ExecutesWhatMemoryHolds ==
  /\ state = "pair" => next = Decoded(memory, iptr)
  /\ state = "block" => codeBlocks[at.slot].run[at.index] = Decoded(memory, iptr)
=============================================================================
