------------------------------- MODULE Memory -------------------------------
(***************************************************************************)
(* The sparse memory (src/core/memory/memory.cpp): blocks of bytes of      *)
(* which each has been written or not, devices mapped over them, a range   *)
(* that reads as zero, stores that an interceptor takes, the write         *)
(* versions that decoded instructions are checked with, the block moves of *)
(* the processor, and saved memory.                                        *)
(*                                                                         *)
(* An operation is a function of the memory s; a word is a sequence of     *)
(* BytesPerWord bytes, the low one first.                                  *)
(***************************************************************************)
EXTENDS Naturals, FiniteSets, SequencesExt

CONSTANTS
  AddressSpace,  \* number of addresses, 2^32
  BLKSIZE,       \* bytes in a block
  BytesPerWord,
  MoveAlign,     \* 0x10, the alignment that lets move2d go by words
  WordSignBit,   \* the end of the memory a boot image is placed in
  Unwritten,     \* a byte never written
  Byte,          \* the values of a byte; 0 is the one move2d looks for
  MemoryDevices, \* the registered devices: [start, end, write]
  ZeroFill,      \* addresses that read as zero until written
  Intercepted,   \* addresses whose stores the interceptor consumes
  Peripherals,   \* the on-chip peripherals, closed to devmove
  InitWords,     \* where memoryInit stores a zero word
  Images,        \* raw images: what memory may hold at the start of a move
  Moves,         \* block moves to execute
  Firmware,      \* images of a file, at an address, loaded at the start
  Sites,         \* addresses stored at before and after a save
  MaxStores      \* bound of the model on the writes of a process

Address == 0 .. AddressSpace - 1
Block == 0 .. AddressSpace \div BLKSIZE - 1

ASSUME MemoryAssumption ==
  /\ BLKSIZE \in Nat \ {0} /\ AddressSpace \in Nat /\ AddressSpace % BLKSIZE = 0
  /\ BytesPerWord \in 1 .. BLKSIZE /\ AddressSpace % BytesPerWord = 0
  /\ MoveAlign \in Nat \ {0} /\ MoveAlign % BytesPerWord = 0
  /\ WordSignBit \in Address /\ Unwritten \notin Byte /\ 0 \in Byte
  /\ ZeroFill \union Intercepted \union Peripherals \union InitWords \subseteq Address
  /\ MemoryDevices \subseteq [start : Address, end : Address, write : BOOLEAN]

Wrap(a) == a % AddressSpace
BlockOf(a) == a \div BLKSIZE
BlockOffset(a) == a % BLKSIZE
AddressesOf(b) == b * BLKSIZE .. (b + 1) * BLKSIZE - 1

\* What a process holds before memoryInit.
NoMemory ==
  [byte |-> [a \in Address |-> Unwritten], blocks |-> {},
   version |-> [b \in Block |-> 0],
   register |-> [a \in Address |-> 0], result |-> "ok"]

\* registerMemoryDevice: a range overlaps no other.
ASSUME DevicesDisjoint ==
  \A d, e \in MemoryDevices :
    /\ d.start <= d.end
    /\ d # e => d.end < e.start \/ e.end < d.start

\* The interceptor is set for a range of words.  A move has the registers it
\* takes; devmove, which goes by words of any alignment, has none that is
\* intercepted in part.
ASSUME MovesAssumption ==
  /\ \A a \in Address : a \in Intercepted <=> a - (a % BytesPerWord) \in Intercepted
  /\ Moves \subseteq [op : {"move", "devmove", "All", "Nonzero", "Zero"}, source : Address,
                      destination : Address, width : Nat, rows : Nat, sourceStride : Nat,
                      destinationStride : Nat]
  /\ \A v \in Moves : v.op \in {"move", "devmove"} => v.rows = 1
  /\ \A v \in Moves : v.op = "devmove" =>
       \A i \in 0 .. v.width - 1 :
         v.destination + i \in Intercepted <=>
           v.destination + i - (i % BytesPerWord) \in Intercepted

\* What memory and files hold.
ASSUME ContentsAssumption ==
  /\ Images \subseteq [Address -> Byte \union {Unwritten}]
  /\ Firmware \subseteq [start : Address, bytes : Seq(Byte)]
  /\ Sites \subseteq Address /\ MaxStores \in Nat

isMemoryDeviceAddress(a) == \E d \in MemoryDevices : a \in d.start .. d.end

\* The devices that an access of n bytes touches; an access may wrap around.
Touched(a, n) ==
  LET end == a + n - 1
  IN  {d \in MemoryDevices :
         \/ a <= d.end /\ end >= d.start
         \/ end >= AddressSpace /\ Wrap(end) >= d.start}

deviceForAccess(a, n) ==
  LET touched == Touched(a, n)
  IN  CASE touched = {} -> "memory"
        [] \E d \in touched : a < d.start \/ a + n - 1 > d.end -> "crosses"
        [] OTHER -> "device"

ReadableByte(s, a) == IF s.byte[a] = Unwritten /\ a \in ZeroFill THEN 0 ELSE s.byte[a]

readBytes(s, a, n) ==
  LET bytes == [i \in 1 .. n |-> ReadableByte(s, Wrap(a + i - 1))]
      registers == [i \in 1 .. n |-> s.register[Wrap(a + i - 1)]]
      access == deviceForAccess(a, n)
  IN  CASE access = "crosses" -> [result |-> "INVALID_DEVICE_ACCESS"]
        [] access = "device" -> [result |-> "ok", bytes |-> registers]
        [] OTHER -> IF \E i \in 1 .. n : bytes[i] = Unwritten
                    THEN [result |-> "READ_UNUSED_MEM"]
                    ELSE [result |-> "ok", bytes |-> bytes]

(***************************************************************************)
(* storeBytes: the interceptor, a device, or the blocks, whose versions    *)
(* rise: once for bytes in one block, else once for each of the bytes.     *)
(***************************************************************************)
\* Mutant: a store over two blocks raises only the version of the first.
RaiseFirst(s, a, n) == [s.version EXCEPT ![BlockOf(a)] = @ + 1]

Raise(s, a, n) ==
  IF BlockOffset(a) + n <= BLKSIZE
  THEN [s.version EXCEPT ![BlockOf(a)] = @ + 1]
  ELSE [b \in Block |-> s.version[b]
          + Cardinality({i \in 0 .. n - 1 : BlockOf(Wrap(a + i)) = b})]

Put(s, a, bytes) ==
  LET written == {Wrap(a + i - 1) : i \in DOMAIN bytes}
  IN  [s EXCEPT
         !.byte = [x \in Address |-> IF x \in written THEN bytes[Wrap(x + AddressSpace - a) + 1]
                                     ELSE @[x]],
         !.blocks = @ \union {BlockOf(x) : x \in written},
         !.version = Raise(s, a, Len(bytes)),
         !.result = "ok"]

PutDevice(s, a, bytes) ==
  LET d == CHOOSE d \in MemoryDevices : a \in d.start .. d.end
  IN  IF ~d.write THEN [s EXCEPT !.result = "DEVICE_ACCESS_UNSUPPORTED"]
      ELSE [s EXCEPT !.register = [x \in Address |->
                        IF x \in a .. a + Len(bytes) - 1 THEN bytes[x - a + 1] ELSE @[x]],
                     !.result = "ok"]

storeBytes(s, a, bytes) ==
  LET access == deviceForAccess(a, Len(bytes))
  IN  CASE a \in Intercepted -> [s EXCEPT !.result = "ok"]
        [] a \notin Intercepted /\ access = "crosses" ->
             [s EXCEPT !.result = "INVALID_DEVICE_ACCESS"]
        [] a \notin Intercepted /\ access = "device" -> PutDevice(s, a, bytes)
        [] OTHER -> Put(s, a, bytes)

\* Before the devices are mapped.
memoryInit(s) ==
  FoldLeft(LAMBDA t, a : Put(t, a, [i \in 1 .. BytesPerWord |-> 0]),
           s, SetToSeq(InitWords))

(***************************************************************************)
(* Block moves.  A move is a sequence of chunks, each of some bytes at an  *)
(* offset from the source and the destination; it stops at the first       *)
(* chunk that cannot be read or stored.                                    *)
(***************************************************************************)
Chunk(source, destination, width) ==
  [from |-> Wrap(source), to |-> Wrap(destination), width |-> width]

CopyChunk(s, c) ==
  LET read == readBytes(s, c.from, c.width)
  IN  CASE s.result # "ok" -> s
        [] s.result = "ok" /\ read.result # "ok" -> [s EXCEPT !.result = read.result]
        [] OTHER -> storeBytes(s, c.to, read.bytes)

CopyChunks(s, chunks) == FoldLeft(CopyChunk, s, chunks)

Aligned(a) == a % BytesPerWord = 0

\* storeByteRange: words where both addresses allow them, else bytes.
RangeChunk(source, destination, n, o) ==
  LET word == /\ n - o >= BytesPerWord
              /\ Aligned(Wrap(source + o)) /\ Aligned(Wrap(destination + o))
  IN  Chunk(source + o, destination + o, IF word THEN BytesPerWord ELSE 1)

storeByteRange(s, source, destination, n) ==
  LET loop[i \in 0 .. n] ==
        IF i = 0 THEN [memory |-> s, offset |-> 0]
        ELSE LET last == loop[i - 1]
                 c == RangeChunk(source, destination, n, last.offset)
             IN  IF last.offset = n THEN last
                 ELSE [memory |-> CopyChunk(last.memory, c), offset |-> last.offset + c.width]
  IN  loop[n].memory

\* copyDeviceBytes: words whatever the alignment, of ranges that keep apart.
validateDeviceMoveRange(source, destination, n) ==
  CASE n = 0 -> "ok"
    [] n # 0 /\ (source + n > AddressSpace \/ destination + n > AddressSpace) ->
         "INVALID_DEVICE_MOVE_RANGE"
    [] n # 0 /\ source + n <= AddressSpace /\ destination + n <= AddressSpace ->
         IF \E i \in 0 .. n - 1 : {source + i, destination + i} \intersect Peripherals # {}
         THEN "DEVICE_MOVE_PERIPHERAL_UNSUPPORTED"
         ELSE IF source < destination + n /\ destination < source + n
         THEN "INVALID_DEVICE_MOVE_RANGE" ELSE "ok"

copyDeviceBytes(s, source, destination, n) ==
  LET valid == validateDeviceMoveRange(source, destination, n)
      words == n \div BytesPerWord
      At(i) == i * BytesPerWord
      chunks == [i \in 1 .. (n + BytesPerWord - 1) \div BytesPerWord |->
                   Chunk(source + At(i - 1), destination + At(i - 1),
                         IF i <= words THEN BytesPerWord ELSE n - At(words))]
  IN  IF valid = "ok" THEN CopyChunks(s, chunks) ELSE [s EXCEPT !.result = valid]

(***************************************************************************)
(* copy2d copies rows of bytes, or only those that are, or are not, zero:  *)
(* by words where source and destination are aligned alike.                *)
(***************************************************************************)
ShouldCopy(filter, b) ==
  filter = "All" \/ (filter = "Nonzero" /\ b # 0) \/ (filter = "Zero" /\ b = 0)

CopyByte(s, filter, c) ==
  LET read == readBytes(s, c.from, 1)
  IN  CASE s.result # "ok" -> s
        [] s.result = "ok" /\ read.result # "ok" -> [s EXCEPT !.result = read.result]
        [] OTHER -> IF ShouldCopy(filter, read.bytes[1]) THEN storeBytes(s, c.to, read.bytes)
                    ELSE s

CopyBytes(s, filter, chunks) == FoldLeft(LAMBDA t, c : CopyByte(t, filter, c), s, chunks)

BytesOf(c) == [i \in 1 .. c.width |-> Chunk(c.from + i - 1, c.to + i - 1, 1)]

\* Mutant: a word is copied whole when any of its bytes should be.
CopyWordWhole(s, filter, c) ==
  LET read == readBytes(s, c.from, BytesPerWord)
      Copied(b) == ShouldCopy(filter, b)
  IN  CASE s.result # "ok" -> s
        [] s.result = "ok" /\ read.result # "ok" -> [s EXCEPT !.result = read.result]
        [] OTHER -> IF \E i \in DOMAIN read.bytes : Copied(read.bytes[i])
                    THEN storeBytes(s, c.to, read.bytes) ELSE s

CopyWord(s, filter, c) ==
  LET read == readBytes(s, c.from, BytesPerWord)
      Copied(b) == ShouldCopy(filter, b)
  IN  CASE s.result # "ok" -> s
        [] s.result = "ok" /\ read.result # "ok" -> [s EXCEPT !.result = read.result]
        [] OTHER ->
             IF \A i \in DOMAIN read.bytes : Copied(read.bytes[i])
             THEN storeBytes(s, c.to, read.bytes)
             ELSE IF \A i \in DOMAIN read.bytes : ~Copied(read.bytes[i]) THEN s
             ELSE CopyBytes(s, filter, BytesOf(c))

CopyWords(s, filter, chunks) == FoldLeft(LAMBDA t, c : CopyWord(t, filter, c), s, chunks)

Prefix(a) == ((BytesPerWord + MoveAlign) - (a % MoveAlign)) % MoveAlign

FilterRow(s, filter, source, destination, width) ==
  LET alike == Prefix(source) = Prefix(destination)
      prefix == IF width < Prefix(source) THEN width ELSE Prefix(source)
      words == IF alike THEN (width - prefix) \div BytesPerWord ELSE 0
      body == IF alike THEN prefix ELSE 0
      tail == body + words * BytesPerWord
      ByteRun(first, last) == [i \in 1 .. last - first |->
                                 Chunk(source + first + i - 1, destination + first + i - 1, 1)]
      WordRun == [i \in 1 .. words |-> LET o == body + (i - 1) * BytesPerWord
                                       IN  Chunk(source + o, destination + o, BytesPerWord)]
      head == CopyBytes(s, filter, ByteRun(0, body))
      middle == CopyWords(head, filter, WordRun)
  IN  CopyBytes(middle, filter, ByteRun(tail, width))

\* A move of rows: [source, destination, width, rows, strides].
CopyRow(s, filter, v, r) ==
  LET source == Wrap(v.source + (r - 1) * v.sourceStride)
      destination == Wrap(v.destination + (r - 1) * v.destinationStride)
  IN  IF s.result # "ok" THEN s
      ELSE IF filter = "All" THEN storeByteRange(s, source, destination, v.width)
      ELSE FilterRow(s, filter, source, destination, v.width)

copy2d(s, filter, v) ==
  FoldLeft(LAMBDA t, r : CopyRow(t, filter, v, r), s, [r \in 1 .. v.rows |-> r])

(***************************************************************************)
(* Saved memory: adjacent blocks go to one file, named by its first block; *)
(* a byte is saved with whether it was written.  A file is loaded block by *)
(* block at the address of its name, and an image at address 0 is placed   *)
(* so that it ends at WordSignBit.                                         *)
(***************************************************************************)
FirstBlocks(s) == {b \in s.blocks : b = 0 \/ b - 1 \notin s.blocks}

\* Mutant: each file holds the first block of its run only.
FirstBlockOnly(s) ==
  {[start |-> b * BLKSIZE, bytes |-> [i \in 1 .. BLKSIZE |-> s.byte[b * BLKSIZE + i - 1]]] :
     b \in FirstBlocks(s)}

saveMemory(s) ==
  LET RunEnd(b) == CHOOSE e \in s.blocks : /\ b <= e /\ b .. e \subseteq s.blocks
                                           /\ e + 1 \notin s.blocks
      Length(b) == (RunEnd(b) - b + 1) * BLKSIZE
  IN  {[start |-> b * BLKSIZE,
        bytes |-> [i \in 1 .. Length(b) |-> s.byte[b * BLKSIZE + i - 1]]] : b \in FirstBlocks(s)}

bulkLoadBytes(s, file) ==
  LET n == Len(file.bytes)
      address == IF file.start = 0 THEN Wrap(WordSignBit + AddressSpace - n) ELSE file.start
      loaded == {Wrap(address + i) : i \in 0 .. n - 1}
      into == {BlockOf(a) : a \in loaded}
  IN  [s EXCEPT
         !.byte = [a \in Address |->
                     IF a \in loaded THEN file.bytes[Wrap(a + AddressSpace - address) + 1] ELSE @[a]],
         !.blocks = @ \union into,
         !.version = [b \in Block |-> IF b \in into THEN @[b] + 1 ELSE @[b]],
         !.result = "ok"]

\* The files come in the order of the directory, which is any order.
loadMemory(s, order) == FoldLeft(bulkLoadBytes, s, order)
-----------------------------------------------------------------------------
VARIABLES
  memory,  \* the memory of the process
  moved,   \* the block move just executed and the memory before it
  disk,    \* the directory of a saved state, and the memory when it was saved
  loaded   \* the memory before the load just done

memoryVars == <<memory, moved, disk, loaded>>

None == [none |-> TRUE]

MemoryInit ==
  /\ memory = memoryInit(NoMemory)
  /\ moved = None /\ disk = None /\ loaded = None

(***************************************************************************)
(* Moves, as the instructions execute them on their registers.             *)
(***************************************************************************)
Execute(s, v) ==
  CASE v.op = "move" -> storeByteRange(s, v.source, v.destination, v.width)
    [] v.op = "devmove" -> copyDeviceBytes(s, v.source, v.destination, v.width)
    [] OTHER -> copy2d(s, v.op, v)

FillMemory(image) ==
  /\ moved = None /\ disk = None /\ memory = memoryInit(NoMemory)
  /\ memory' = [memory EXCEPT !.byte = image]
  /\ moved' = [image |-> TRUE]
  /\ UNCHANGED <<disk, loaded>>

Move(v) ==
  /\ "image" \in DOMAIN moved
  /\ memory' = Execute(memory, v)
  /\ moved' = [move |-> v, before |-> memory]
  /\ UNCHANGED <<disk, loaded>>

MoveNext == (\E i \in Images : FillMemory(i)) \/ (\E v \in Moves : Move(v))

(***************************************************************************)
(* The life of a saved state: stores, save, another process, load.         *)
(***************************************************************************)
Stores(s) == FoldFunction(LAMBDA v, n : v + n, 0, s.version)

Store(a, bytes) ==
  /\ moved = None /\ Stores(memory) < MaxStores
  /\ memory' = storeBytes(memory, a, bytes)
  /\ loaded' = None
  /\ UNCHANGED <<moved, disk>>

LoadFirmware(file) ==
  /\ moved = None /\ disk = None /\ memory = memoryInit(NoMemory)
  /\ memory' = bulkLoadBytes(memory, file)
  /\ UNCHANGED <<moved, disk, loaded>>

\* A directory that exists is not saved to.
Save ==
  /\ moved = None /\ disk = None
  /\ disk' = [files |-> saveMemory(memory), image |-> memory]
  /\ UNCHANGED <<memory, moved, loaded>>

Restart ==
  /\ disk # None
  /\ memory' = memoryInit(NoMemory) /\ loaded' = None
  /\ UNCHANGED <<moved, disk>>

Load ==
  /\ disk # None /\ Stores(memory) < MaxStores
  /\ \E order \in SetToSeqs(disk.files) : memory' = loadMemory(memory, order)
  /\ loaded' = [before |-> memory]
  /\ UNCHANGED <<moved, disk>>

Words == {[i \in 1 .. BytesPerWord |-> b] : b \in Byte \ {0}}

SaveNext ==
  \/ \E a \in Sites, w \in Words : Store(a, w)
  \/ \E f \in Firmware : LoadFirmware(f)
  \/ Save \/ Restart \/ Load

MemorySpec == MemoryInit /\ [][MoveNext \/ SaveNext]_memoryVars
-----------------------------------------------------------------------------
(***************************************************************************)
(* Whatever its alignment, overlap or filter, a block move does what a     *)
(* loop over its bytes does; one that fails has moved the bytes before the *)
(* failure, perhaps not all of them, and no other byte.                    *)
(***************************************************************************)
MovedBytes(v) ==
  LET At(r, c) == Chunk(v.source + (r - 1) * v.sourceStride + c - 1,
                        v.destination + (r - 1) * v.destinationStride + c - 1, 1)
  IN  [i \in 1 .. v.rows * v.width |->
         At((i - 1) \div v.width + 1, ((i - 1) % v.width) + 1)]

ByteLoop(s, v, k) ==
  CopyBytes(s, IF v.op \in {"move", "devmove"} THEN "All" ELSE v.op,
            SubSeq(MovedBytes(v), 1, k))

MovesByteByByte ==
  "move" \in DOMAIN moved =>
    LET n == Len(MovedBytes(moved.move))
        Same(k) == LET t == ByteLoop(moved.before, moved.move, k)
                   IN  t.byte = memory.byte /\ t.register = memory.register
                         /\ (memory.result = "ok" => t.result = "ok")
    IN  IF memory.result = "ok" THEN Same(n) ELSE \E k \in 0 .. n : Same(k)

(***************************************************************************)
(* A load gives every saved byte back, written or not, in any order of the *)
(* files, and leaves the blocks that were not saved alone; unless the      *)
(* block at address 0 was saved: src/core/memory/memory.cpp:499 takes its  *)
(* file for a boot image and puts it below WordSignBit.                    *)
(***************************************************************************)
LoadReturnsBytes ==
  loaded # None /\ 0 \notin disk.image.blocks =>
    \A a \in Address :
      memory.byte[a] = IF BlockOf(a) \in disk.image.blocks
                       THEN disk.image.byte[a] ELSE loaded.before.byte[a]
==============================================================================
