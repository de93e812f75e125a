SPECIFICATION Spec
CONSTANTS
  AddressSpace = 16
  BLKSIZE = 4
  BytesPerWord = 2
  MoveAlign = 4
  WordSignBit = 8
  Unwritten = Unwritten
  Byte = {0, 1, 2}
  MemoryDevices <- MCDevices
  ZeroFill = {10}
  Intercepted = {4, 5}
  Peripherals = {14, 15}
  InitWords = {6}
  Images <- MCImages
  Moves <- MCMoves
  Firmware <- MCFirmware
  Sites = {2, 7, 9, 13}
  MaxStores = 4
  Pfix = 0
  Pure = {1}
  Ends = {}
  DecodeSlots = 2
  BlockSlots = 1
  MaxRun = 3
  MaxLength = 3
  Programs <- MCPrograms
  Targets = {0, 4, 12}
  Writes <- MCWrites
  MaxWrites = 2
  FlashWord = {"u1", "u2", "x"}
  At555 = {"u1"}
  At2aa = {"u2"}
  SectorOf <- MCSector
  FlashBit = {"h", "l"}
  FlashCycles <- MCCycles
  IrqLevel = {1, 4, 6}
  TriggerMode <- MCTrigger
  MaxEdges = 3
  Streams <- MCStreams
  RingSize = 5
  Capacity = 11
  DmaBurst = 4
  SequenceCode = 3
  PictureCode = 0
  EndCodes = {5}
  SliceCodes = {4}
  Skip = {0, 1}
  MaxResets = 1
  LOG_INTERVAL = 2
  MaxBatch = 9
  SERIAL_INTERVAL = 3
  KEY_POLL_INTERVAL = 5
  maxInstr = 9
  warnInstr = 4
  MaxSteps = 16
  W = 8
  E = 3
  Undefined = 173
  Calculations <- All
INVARIANTS
  MovesByteByByte
  LoadReturnsBytes
  ExecutesWhatMemoryHolds
  EdgesKept
  StreamDecoded
  LogIsTheRun
  LooksOnTime
  ExactOrError
  ProgramsCompute
  RoundsToNearest
PROPERTIES
  ArrayChangesByCommand
CHECK_DEADLOCK FALSE
