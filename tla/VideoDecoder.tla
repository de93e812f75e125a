----------------------------- MODULE VideoDecoder -----------------------------
(***************************************************************************)
(* The STi5512 video decoder and the DMA channel that feeds it             *)
(* (src/soc/sti5512/STi5512_VideoDecoder.cpp and STi5512_PtiDma.cpp): a    *)
(* stream goes through a ring in memory into the bit buffer, where the     *)
(* search for start codes reads ahead of the pipeline that consumes it.    *)
(*                                                                         *)
(* Bytes are those of the stream; a start code is 0, 0, 1 and its code.    *)
(***************************************************************************)
EXTENDS Naturals, Sequences

CONSTANTS
  Streams,      \* what the transport controller may deliver, of literal bytes
  RingSize,     \* of the ring between base and top
  Capacity,     \* of the bit buffer
  DmaBurst,     \* bytes per tick, at most
  SequenceCode, PictureCode, EndCodes, \* 0xb3; 0x00; sequence end and GOP
  SliceCodes,   \* 0x02 to 0xaf
  Skip,         \* VID_TIS.SKP, as firmware sets it
  MaxResets     \* bound of the model on resets

Codes == 0 .. 255
EndsPicture == {PictureCode, SequenceCode} \union EndCodes

ASSUME VideoAssumption ==
  /\ Streams \subseteq Seq(Codes) /\ EndsPicture \subseteq Codes \ SliceCodes
  /\ {RingSize, Capacity, DmaBurst} \subseteq Nat \ {0} /\ Skip \subseteq 0 .. 2

VARIABLE
  video  \* stream     produced, read: bytes written to and read from the ring
         \* ring: [0 .. RingSize - 1 -> byte]
         \* buffer, searchPosition, headerPosition: of the decoder
         \* searching, found, sequenceOnly: the search for a start code
         \* pipeline: "seek", "idle" or "decoding"    running: taskEnd is set
         \* stalled     execute, skip: VID_TIS    skips: of the task    enabled: VID_CTL.EDC
         \* fed, consumed: bytes of the stream that went in and out of the buffer
         \* hit: where in the stream the last start code was found    resets

VideoInit ==
  \E s \in Streams :
    video = [stream |-> s, produced |-> 0, read |-> 0, ring |-> [i \in 0 .. RingSize - 1 |-> 0],
             buffer |-> <<>>, searchPosition |-> 0, headerPosition |-> 0, searching |-> FALSE,
             found |-> FALSE, sequenceOnly |-> TRUE, pipeline |-> "seek", running |-> FALSE,
             stalled |-> FALSE, execute |-> FALSE, skip |-> 0, skips |-> 0, enabled |-> FALSE,
             fed |-> 0, consumed |-> 0, hit |-> 0, resets |-> 0]

\* Positions count from 0.
StartCode(b, i) ==
  /\ i + 3 < Len(b) /\ b[i + 1] = 0 /\ b[i + 2] = 0 /\ b[i + 3] = 1
Code(b, i) == b[i + 4]

First(b, from, codes) ==
  LET at == {i \in from .. Len(b) - 1 : StartCode(b, i) /\ Code(b, i) \in codes}
  IN  IF at = {} THEN [found |-> FALSE] ELSE [found |-> TRUE, at |-> CHOOSE i \in at : \A j \in at : i <= j]

(***************************************************************************)
(* runSearch, after each byte and at the start of a search.                *)
(***************************************************************************)
Resume(b, from) == IF Len(b) > from + 3 THEN Len(b) - 3 ELSE from

runSearch(s) ==
  LET searched == IF s.sequenceOnly THEN {SequenceCode} ELSE Codes \ SliceCodes
      hit == First(s.buffer, s.searchPosition, searched)
  IN  IF ~s.searching THEN s
      ELSE IF hit.found
      THEN [s EXCEPT !.sequenceOnly = @ /\ Code(s.buffer, hit.at) # SequenceCode,
                     !.headerPosition = hit.at + 3, !.searchPosition = hit.at + 4,
                     !.searching = FALSE, !.found = TRUE, !.hit = s.consumed + hit.at + 4]
      ELSE [s EXCEPT !.searchPosition = Resume(s.buffer, @)]

startSearch(s) == runSearch([s EXCEPT !.searching = TRUE, !.found = FALSE])

\* Mutant: the search does not move with the bytes that are consumed.
ConsumeUnderSearch(s, count) ==
  [s EXCEPT !.buffer = SubSeq(@, count + 1, Len(@)), !.consumed = @ + count]

Less(n, count) == IF n > count THEN n - count ELSE 0

consume(s, count) ==
  [s EXCEPT !.buffer = SubSeq(@, count + 1, Len(@)), !.consumed = @ + count,
            !.headerPosition = Less(@, count), !.searchPosition = Less(@, count)]

(***************************************************************************)
(* The pipeline: the first task after a reset goes to the first picture    *)
(* after a sequence header, a later one over one picture and those it      *)
(* skips.  A task that lacks data stalls until there is more.              *)
(***************************************************************************)
\* Where the task ends in the buffer.
TaskEnd(s) ==
  IF s.pipeline = "seek"
  THEN LET sequence == First(s.buffer, 0, {SequenceCode})
       IN  IF sequence.found THEN First(s.buffer, sequence.at + 4, {PictureCode}) ELSE sequence
  ELSE LET over[n \in 0 .. 2] == \* the end of the picture after n skipped ones
             LET from == IF n = 0 THEN First(s.buffer, 0, {PictureCode})
                         ELSE IF over[n - 1].found THEN First(s.buffer, over[n - 1].at, {PictureCode})
                         ELSE over[n - 1]
             IN  IF from.found THEN First(s.buffer, from.at + 4, EndsPicture) ELSE from
       IN  over[s.skips]

launchTask(s) ==
  IF ~s.enabled \/ s.running \/ ~s.execute THEN s
  ELSE startSearch([s EXCEPT !.execute = FALSE, !.running = TRUE, !.skips = s.skip,
                             !.pipeline = IF @ = "idle" THEN "decoding" ELSE @])

\* At a time past taskEnd.
tickDecoder(s) ==
  IF s.pipeline = "idle" \/ ~s.running \/ s.stalled THEN s
  ELSE IF TaskEnd(s).found
  THEN [consume(s, TaskEnd(s).at) EXCEPT !.pipeline = "idle", !.running = FALSE]
  ELSE [s EXCEPT !.stalled = TRUE]

\* taskEnd is kept.
softReset(s) ==
  [s EXCEPT !.buffer = <<>>, !.consumed = s.fed, !.stalled = FALSE, !.headerPosition = 0,
            !.searchPosition = 0, !.searching = FALSE, !.found = FALSE, !.sequenceOnly = TRUE,
            !.pipeline = "seek", !.execute = FALSE, !.skip = 0, !.skips = 0]

(***************************************************************************)
(* The DMA channel and sti5512VideoInput, which refuses a byte while the   *)
(* bit buffer is full.                                                     *)
(***************************************************************************)
Input(s, byte) ==
  runSearch([s EXCEPT !.buffer = Append(@, byte), !.fed = @ + 1, !.stalled = FALSE])

Full(s) == Len(s.buffer) >= Capacity

tickDma(s) ==
  LET moved[n \in 0 .. DmaBurst] ==
        IF n = 0 THEN s
        ELSE LET t == moved[n - 1]
             IN  IF t.read = t.produced \/ Full(t) THEN t
                 ELSE [Input(t, t.ring[t.read % RingSize]) EXCEPT !.read = @ + 1]
  IN  moved[DmaBurst]

\* The transport controller writes the ring, which it does not overrun.
Deliver ==
  /\ video.produced < Len(video.stream) /\ video.produced + 1 < video.read + RingSize
  /\ video' = [video EXCEPT !.produced = @ + 1,
                 !.ring[video.produced % RingSize] = video.stream[video.produced + 1]]

\* Firmware reads the header FIFO.
ReadHeader ==
  LET available == ~video.searching /\ video.headerPosition < Len(video.buffer)
  IN  video' = [video EXCEPT !.headerPosition = IF available THEN @ + 1 ELSE @, !.found = FALSE]

Dma == video' = tickDma(video)
Tick == video' = tickDecoder(video)
Vsync == video' = launchTask(video)
Search == video' = startSearch(video)

\* VID_TIS, with or without FIS.
WriteTask ==
  \E n \in Skip, force \in BOOLEAN :
    LET s == [video EXCEPT !.execute = TRUE, !.skip = n]
    IN  video' = IF force THEN launchTask(s) ELSE s

WriteControl == video' = [video EXCEPT !.enabled = ~@]

SoftReset ==
  /\ video.resets < MaxResets
  /\ video' = [softReset(video) EXCEPT !.resets = @ + 1]

PipeReset ==
  /\ video.pipeline = "decoding" /\ video.resets < MaxResets
  /\ video' = [video EXCEPT !.pipeline = "idle", !.resets = @ + 1]

VideoNext ==
  \/ Deliver \/ Dma \/ Tick \/ Vsync \/ Search \/ ReadHeader
  \/ WriteTask \/ WriteControl \/ SoftReset \/ PipeReset

VideoSpec == VideoInit /\ [][VideoNext]_video
-----------------------------------------------------------------------------
(***************************************************************************)
(* The bit buffer holds a piece of the stream without loss or repetition,  *)
(* though the buffer fills and the ring wraps; what the search found last  *)
(* is a start code of the stream, and it has passed over no picture or     *)
(* sequence header before it nor left one behind it; and a task that waits *)
(* for data could not end with what there is.                              *)
(***************************************************************************)
StreamDecoded ==
  /\ video.buffer = SubSeq(video.stream, video.consumed + 1, video.fed)
  /\ video.found => StartCode(video.stream, video.hit - 4)
  /\ video.searching /\ ~video.sequenceOnly =>
       \A i \in 0 .. Len(video.buffer) :
         StartCode(video.buffer, i) /\ Code(video.buffer, i) \in EndsPicture => video.consumed + i < video.hit
  /\ video.running /\ video.stalled /\ video.pipeline # "idle" => ~TaskEnd(video).found
=============================================================================
