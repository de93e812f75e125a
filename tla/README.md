# A TLA+ model of ST20Emu

ST20Emu interprets programs for the ST20 processor of STi5512 and STi5518 set-top
box chips, and emulates as much of those chips as the programs need. The ST20
schedules processes in hardware: queues, timers, semaphores, channels, preemption
and traps are instructions and microcode. In the emulator they are ordinary C++ in
`src/core/cpu/st20.cpp`. They, the memory and the caches under them, and the devices
and host threads that have a protocol of their own, are what this project models,
checks with TLC and proves with TLAPS. Paths below are relative to the emulator's
own source directory, except those of its documents.

## 1. The system

| Component | State | Operations | Correct when | Modelled in |
|---|---|---|---|---|
| Scheduler (`core/cpu/st20.cpp`) | current bank `cpuState`, low priority shadow bank, front and back registers of two ready queues, link words in the workspaces, semaphores | start, run, stop, timeslice, wait, signal, swap and insert queues, masks, dispatch | no process is lost or duplicated, lists keep their order, the right process runs, none starves | `Scheduler` |
| Channels and ALT | channel words, the `Pointer`/`State` word of a waiting process | in, out, resetch, alt, altwt, enb/dis, altend | a message goes to exactly one partner, an alternative wakes once and selects a ready guard | `Channels` |
| Timers and clocks | two time-ordered lists, alarm registers, clock registers and phases | tin, taltwt, enbt/dist, sttimer, swaptimer, clock advance | nobody wakes early, everybody due wakes, wraparound keeps the order | `TimerList` |
| Traps | trap frames, enables per priority, pending timer trap, queue of deferred low priority traps, "queue empty reported" flags | requestTrap, tret, pollTimers | a trap never enters a group whose handler runs, deferred traps are taken once, in order | `Traps` |
| Interrupts | interrupt frames, levels, INC pending and mask registers | serviceNativeInterrupt, iret, pollInc | nesting by level, the interrupted context comes back, no edge is lost | `Traps`, `InterruptController` |
| External channels | host-fed byte queues, waiter and alternative owner of each | feed, drain, in, out, poll | bytes in order, every waiter woken once | `ExternalChannels` |
| Execution loop | cycle count, lazily applied clocks, quiescence flag, decoded instruction and run caches | execInstr, runInstructions | the fast path does what the reference path does | `Scheduler`, `CodeCache` |
| Snapshots | a record of all of the above | saveCPUState, loadCPUState | what is saved is restored, what is reachable is accepted | `Snapshots` |
| Arithmetic (`core/cpu/instructions.cpp`) | evaluation stack, workspace, error flags | the instructions that compute | the result, or the error, of integer arithmetic | `Arithmetic` |
| Memory (`core/memory`) | blocks with versions, device regions | read, store, move, save, load | a move is its bytes, a load gives back what was saved, caches see every write | `Memory` |
| SoC devices | registers, FIFOs, shift registers | register access, poll | every started transfer ends, an interrupt per event | `VideoDecoder` (one of them) |
| Boards | flash command state, I2C slave, wiring | bus cycles | only whole command sequences change the flash | `AmdFlash` |
| Batch log writer (`main.cpp`) | bounded queue between emulation and writer thread | submit, write, finish | no record is lost, no thread waits for ever | `BatchLog` |
| Command line (`main.cpp`, `cli/`) | counters of the main loop, count of requests to stop | run, step, prompt | a long run is divided without skipping what has to be looked at | `FreeRun` |

The emulation itself is one thread. What makes it hard is that the emulated
processor is concurrent: an instruction ends in a poll (`pollTimers`) that may
release timers, finish external transfers, take traps and dispatch another process,
and a clock advance *before* every instruction may already have queued processes
without dispatching them (`executingInstruction` forbids it). Real threads exist in
the batch log writer and the line reader only.

Components meet in `cpuState`, the ready queues and the link words: channels,
timers, semaphores and traps all hand processes to `enqueueProcess`, and every
instruction ends in `dispatchProcess`. The Scheduler module is therefore the core,
and it is modelled down to the link words; the modules on top of it may take a queue
for a sequence, because the core shows that it is one.

## 2. Modules

| Module | What it is |
|---|---|
| `Scheduler` | the scheduler of the source: registers, banks, link words, semaphores |
| `PriorityScheduler` | what it promises: two first-in first-out queues with preemption |
| `SchedulerRefinement` | the mapping from the first to the second |
| `FairScheduler` | the scheduler with the fairness of the execution loop and of a well behaved program |
| `Channels` | internal channels and the untimed alternative of the source |
| `Rendezvous` | what they promise: a message once, when both want it, and one guard of several |
| `ChannelsRefinement` | the mapping from the one to the other |
| `TimerList` | the timer list of a priority, its alarm, and the timed alternative |
| `Traps` | scheduler traps, what is deferred, the poll, interrupts, a kernel in the handlers |
| `Snapshots` | saving and loading the state of `Traps` |
| `Arithmetic` | the computing instructions as functions of the registers, and programs of them |
| `Memory` | blocks, devices, interception, block moves, save and load |
| `CodeCache` | decoded instructions and runs over `Memory`, and the loop that executes them |
| `AmdFlash`, `InterruptController`, `VideoDecoder` | devices |
| `ExternalChannels` | endpoints fed and drained by the host |
| `BatchLog`, `FreeRun` | the log thread and the main loop of `main.cpp` |
| `SchedulerProofs`, `ChannelsProofs`, `TimerProofs`, `TrapsProofs`, `MemoryProofs`, `ExternalProofs` | of one component each: its inductive invariant, refinement and theorems |
| `MachineProofs` | those of the flash chip, the interrupt controller, the video decoder, the log writer and the main loop |
| `NumberLemmas` | lemmas about quotients, remainders and functions defined step by step |
| `MCScheduler`, `MCFair`, `MCChannels`, `MCTimer`, `MCTraps`, `MCArithmetic`, `MCExternal`, `MCMachine` | instances for TLC |

History variables are named as such where they are declared. What the modelled code
does never depends on one; `TimerList` and `FreeRun` use theirs to state the bounds
of the model. Mutants (`...KeepsBack`, `...Stale`, `NeverDeferred` and so on) are
defined beside the operator they distort; nothing uses them but a run that puts them
in its place to see a property fail.

### Scheduler

| Model | Code |
|---|---|
| `cpu`, `shadow` | `cpuState`; `lowPriorityShadow`, `NoShadow` while `lowPriorityShadowValid` is false |
| `fptr`, `bptr` | `omrState.ProcQueueFPtr`, `ProcQueueBPtr` |
| `link` | word `pw::Link` of every workspace, shared by ready queues (workspaces) and semaphores (descriptors) |
| `semaphore` | the three words of a semaphore |
| `asleep` | the processes on the timer lists |
| `chain` | a list a program took out of a queue with `swapqueue` |
| `enables` | `LP_PROCESS_INT_ENB` and `LP_TIMESLICE_ENB` in `omrState.Enables` |
| `phase` | "exec" between the clock advance of `execInstr` (or `prepareProcess`) and the instruction |
| `parked` | workspaces nobody lives in |
| `order`, `semOrder`, `chainOrder` | history variables: what was queued, in order |

`BeginStep` is the clock advance (`applyClockCycles`), `Release` one process
released by `releaseDueTimers`, and each further action is one instruction with the
poll and dispatch that end it. `IdlePoll` is `prepareProcess` on an idle processor.
The register contents other than those the scheduler reads, and the instruction
pointer, are left out. Semaphore counts stop at `MaxCount`, the only bound of the
model on the code's state; `ticks` is 0 or 1 because an instruction takes far less
than a millisecond.

Assumptions of this module: every trap is disabled, there are no interrupts (`Traps`
has both), and no memory access fails. The bank that an idle low priority leaves in
the invalid shadow is only read by scheduler traps and is not modelled. The program
starts only workspaces nobody lives in and hands `insertqueue` the list it took out
with `swapqueue`; the code does not check either, and a program that breaks the rule
corrupts its own lists on the chip as well. The store instructions of the queue
registers (`sthf` and its relatives), which can replace half of a queue, are left
out for the same reason, and so is `endp`.

### Channels

| Model | Code |
|---|---|
| `word` | the channel words in memory |
| `pointer` | word `pw::Pointer`, which is also `pw::State` during an alternative |
| `memory` | at "buffer" the message `pw::Pointer` addresses, at "temp" word `pw::Temp`: a scalar being output, or the branch selected |
| `turns` | how often a process is running or queued: `enqueueProcess` adds one, descheduling takes one |
| `pc`, `todo`, `guards`, `previous` | the program: where it is in an alternative, its guards, what `resetch` returned |
| `sent`, `received` | history variables: the last message output to and input from each channel |

`Output` and `Input` are `out`, `outbyte`, `outword` and `in` with all of
`transferChannel`; its three cases are `AwaitPeer`, `NotifyAlternative` and
`CompleteWith`. The case in which it returns `INVALID_CHANNEL` and the emulation
stops is the predicate `Rejected`. The instructions of the alternative are an action
each. `Pointer` and `Temp` are left as they are when an operation ends, as in the
code, so that each operation starts on what the one before left behind.

Messages are "even" and "odd" in turn, so a message lost, repeated or overtaken
shows without a counter; lengths and bytes are left out. Any ready process executes
the next instruction: every order the scheduler can choose, and more. A descriptor
stands for its process, as a process keeps its priority. The rules a program must
follow are parameters and guards: one sender and one receiver for each channel
(`Sender`, `Receiver`), the same protocol in each message (`ScalarChan`), guards
disabled that were enabled, an `in` in the branch selected, and `resetch` (by the
processes in `Resetter`) on channels no alternative has registered. The code and the
documents (`docs/instruction-status.md`) leave these to the program. A false guard
does nothing and is left out; traps and handlers are assumed away here and are what
`Traps` is about.

### TimerList

| Model | Code |
|---|---|
| `clock`, `alarms`, `tptr`, `tnext` | `ClockReg`, the `TIMER_ALRM_ENB` bit, `TptrReg` and `TnextReg` of one priority |
| `time`, `tlink`, `state`, `temp` | words `pw::Time`, `TLink`, `State`, `Temp` of a workspace |
| `held` | a list the program took out with `swaptimer` |
| `Sleep`, `Released`, `Detached` | `waitTimer`, `releaseDueTimers`, the removal in `disableAltTimer` |
| `Tick` | the clock advance, of one to `MaxTicks` ticks at once, as the lazily applied clocks bring |
| `left`, `sleepers` | history variables: true ticks until each time asked for; the list as a sequence |

Times are words that wrap; `left` is a plain integer, so that the comparisons modulo
the clock's range are checked against what they mean. They mean it only within half
the range: a program asks for times in `Distance`, and a process whose time has
passed acts within `MaxLag` ticks. In the code the range is 2^32 ticks, and nothing
checks that a program keeps within half of it. A timed alternative has its timer
guards, one channel with a sender that comes at any moment, and any order of
enabling and disabling. `stclock` is left out: it changes what the words mean for
the processes that sleep.

### Traps

The processor is one record `m` (banks, queues, masks, frames, the records the
handler sees, what is put off, what each process waits for), since traps are taken
in the middle of other operations. `requestTrap`, `dispatchProcess`,
`releaseTimers`, `pollTimers` and `schedulerQuiet` are functions of it with the
names of the code, and each action is an instruction with the poll that ends it.
`requestTrap` and the dispatch can set `error` to `TRAP_REENTRY`, where the
emulation stops.

The guest is a kernel: the handlers are entered, take the process out of the record
or the word they are given, keep it as a task, and hand it back with `tret`, `runp`
or in the record, in any order. Interrupts (`serviceNativeInterrupt`, `iret`) nest
by level, over processes, over trap handlers, and under them. `TrapDisable` is
`trapdis` of high priority, while a low priority trap is put off.

What waits is told apart only by the operation that wakes it, since `Channels` and
`TimerList` say how. Enables of interrupts in the scheduler (`LP_PROCESS_INT_ENB`)
are in `Scheduler`. The error and system groups, entered through the same
`requestTrap`, and `restart` are left out.

`schedulerQuiet` is the function on which the fast path relies to skip polls.
`NothingLeftUndone` says that the polls it skips would have done nothing, except in
one case, `RestDeferred`: several traps of low priority are deferred, and high
priority disables the first of them by `trapdis` before it is taken. The next poll
puts that process into the ready queue and returns, and `schedulerQuiet` then holds
although the others are still in `pendingLowTraps`, whether their traps are enabled
or not; they are taken when the fast path next stops. The comment at `st20.cpp:2469`
says that a poll has nothing to do then; the run `traps_quiet` states it without the
exception and reaches it. `RestDeferred` is as narrow as the case: low priority runs,
no handler is active, and its enables are no longer those the kernel set.

`Snapshots` extends `Traps`: `captureRuntime` picks the fields that a snapshot
holds, `validRuntime` is the check of `loadCPUState` and `restoreRuntime` what it
builds. Every state the traps reach is saved and loaded. Two kinds of state are
excluded from `SavedStateReturns`: with a trap deferred, which the snapshot has no
field for, and an interrupt on a low priority handler, which the run
`traps_snapshot` is about.

### Arithmetic

An operator per instruction, with the name of the function in `instructions.cpp`, on
words of `W` bits; halves, quarters and the fields of a float scale. `Perform` is one
instruction, a program is a sequence of them, and the state is its registers and memory.
Conversions are what they do: a cast is `Unsigned` or `Signed`, a float a sign, exponent
and fraction that are normalised, rounded and packed. `unpacksn` inserts the leading
bit of a normal float and gives an undefined word for an infinity or a NaN, as the
code does (`instructions.cpp:267`). `docs/instruction-status.md` says so on line 262
and the opposite on line 335: no leading bit, and the payload of a NaN kept. The half of
`RoundsToNearest` that takes floats apart and puts them together is about the code's
`unpacksn`: without the bit `norm` would rebuild another number. The constants (`ldinf`,
`lddevid`, `ldpi`, `ldpri`, `fptesterr`) and `nop` are left out.

### Memory and CodeCache

`Memory` has a byte for each address (or `Unwritten`), the registers of devices, the
set of allocated blocks and the write version of each. `readBytes` and `storeBytes`
are functions with the errors of the code (an access that crosses the edge of a
device, a read of what was never written, a device without a write function) and the
store that the board intercepts. A block move is the sequence of chunks in which the
code does it, with the alignment it looks for, and stops at the
first that fails; `MovesByteByByte` compares it with a loop over the bytes. The loop of
`storeByteRange` is a recursive function of the turns, as the width of a chunk decides
where the next one starts; a row of `copy2d` is `CopyRow`, and bytes, words, chunks and
rows follow each other in folds. A `devmove` with a word of which the board intercepts
one byte is left out (`MovesAssumption`), as the code's unit of interception is the
address of an access and the loop over the bytes would differ; a `move` or `copy2d` has
no such word, as its words are aligned and the range of a flash chip begins and ends
with a word. Save and load go through
files, one for each run of blocks, loaded in any order.

`CodeCache` has the two caches, of decoded instructions (by `Iptr` and the version
of the block) and of decoded runs, and the four states of the loop in
`runInstructions`. Any instruction may store anywhere, and so may a poll after it;
when the scheduler is quiescent is a free choice (what quiescence means is
`NothingLeftUndone` in `Traps`). An instruction is a number of prefixes and a last
byte. The write versions are numbers here and do not wrap at 2^32.

### Devices

`AmdFlash`: a store is a bus cycle, and the automaton is that of `flashWrite` with
the unlock cycles, the erase prefix and autoselect. A word is its set of ones, so
that programming is an intersection; `recent` is a history variable with the last
three cycles.

`InterruptController`: lines and trigger modes, `pollInc` with both kinds of pending
bits, masks, and the Exec bits that acceptance and return keep in step with the
processor. `Poll` models the offer to `serviceNativeInterrupt` as the processor
takes it; `raised` is a history variable with the edges that were seen.

`VideoDecoder`: the ring in memory that the transport controller fills, the DMA of
the PTI, the bit buffer, the search for start codes that reads ahead, and the tasks
that consume. `fed`, `consumed` and `hit` place everything in the stream; they are
history variables. Status bits, interrupts, display and the SOS bit (`sliceStop`)
are left out. In the model, as in the code, a pipe reset in the middle of a task
leaves the end of that task set, so that no task is launched until a soft reset; no
document says what should happen, and no property is stated.

### ExternalChannels

| Model | Code |
|---|---|
| `channel` | the descriptors in `externalChannels`, with the numbers of bytes for the bytes |
| `trap`, `handlerTrap` | the bit `EXTERNALCH_TRAPENB` of the enables of low priority; of the Enables word of the scheduler group's handler |
| `handler`, `interrupt` | the process that the kernel is told of while its handler runs; whether an interrupt handler is active |
| `ready`, `running` | the low priority queue and process |
| `word`, `guards`, `phase`, `chosen`, `canceled` | `pw::State` of an alternative, its guards, where it is, the branch selected, what `resetch` returned |
| `fed`, `sent` | history variables: bytes fed less those asked for, sent less those drained |

Every action ends in `pollTimers`: an interrupt may come first, then
`pollExternalChannels` goes over the endpoints, then the dispatch.
`releaseExternalOwner` has its three outcomes. With the trap disabled it queues the
owner. With it enabled it takes the trap, or, while a trap or interrupt handler is
active, puts the release off to the next poll. What is enabled is looked at each time:
processes change the mask (`changeTrapMask`), and taking the trap leaves of the
enables those that the handler's Enables have too, until the kernel returns
(`ExternalKernel`). A kernel that masks its trap, the normal one by
`docs/instruction-status.md:381`, therefore finds the next owner put into the ready
queue past it; a kernel that does not mask it finds the release put off until it
returns. Init chooses between the two. `TransfersOnce` holds for both;
`external_bypass` shows what the first does.

Processes and the kernel are of low priority, and no other trap is enabled. The
program keeps to one user of a channel at a time, and resets a channel only while the
transfer is not done. What `resetch` returns afterwards, a process that is queued
already, `docs/instruction-status.md:83` calls canceled all the same, and a program
that runs it queues it twice; the model leaves open what it should mean.

### BatchLog and FreeRun

`BatchLog` has both threads of a batch run. A thread is `asleep` in a condition
variable until a notification; a step is what a thread does between two points where
it gives up the mutex. A write can fail after any number of records.

`FreeRun` is the main loop: how it counts instructions when `runInstructions` takes
many at once and single ones between them, with errors, watches and commands that
come at any point. `done`, `sinceGo`, `serial`, `looked` and `warned` are history
variables.

`MCMachine` composes `Memory`, `CodeCache`, the devices and host parts above and the
programs of `Arithmetic`.
Those that do not interact are units of it: `unit` is chosen in Init, and in a
behaviour only that unit takes steps. Code and memory do interact, and share the
variable `memory`.

## 3. Runs

| Run | Instance | Shows |
|---|---|---|
| `sched_core` | 3 workspaces, 1 semaphore, count up to 1; 141,756 states | list, place, bank and dispatch invariants; an interruption ends only by its return; the scheduler implements `PriorityScheduler` |
| `sched_fair` | the same without symmetry, queue surgery and mask changes; 22,140 states | no ready process starves, and the interrupted process itself comes back once high priority stops waking |
| `alt_merge` | 2 senders, 1 receiver, 2 channels; 274,472 states | no wakeup of an alternative is lost or doubled and its selection is ready; it implements `Rendezvous` |
| `alt_duplex` | 2 processes that send to each other; 19,896 states | `INVALID_CHANNEL` never comes up, output is synchronous, alternatives are served |
| `timer_list` | 3 sleepers, or a sleeper and a timed alternative with 2 timers and a channel; clock of 6; 851,760 states | the list is in the order of the true times, nobody due sleeps, nobody wakes early, the branch selected is ready |
| `traps` | 2 low and 1 high priority process, 2 levels, 4 set-ups of the traps; 1,123,435 states | every process in one place, no handler re-entered, masks come back, a poll leaves nothing undone but what `RestDeferred` says, saved states return |
| `machine` | words of 8 bits, memory of 16 addresses, see below; 1,053,153 states | each instruction gives the result or the error of integer arithmetic, programs of several words compute, rounding is to nearest; moves, save and load, caches, flash, interrupt controller, video decoder, log, main loop |
| `external` | 2 processes, 2 channels of capacity 2; 1,373,472 states | each process is in one place and each byte is moved once, whatever masks, puts off or interrupts a release |
| `traps_bypass` | as `traps` | a pending timer trap can be decided with the masks of the QueueEmpty handler |
| `traps_snapshot` | as `traps` | a state that is saved does not load |
| `traps_quiet` | as `traps` | the scheduler is called quiet while low priority traps are still deferred |
| `external_bypass` | as `external` | a release goes to the ready queue past a kernel that masks its trap |

Three workspaces are the least with which a process runs, another is interrupted and
a third is queued or waits in front of the end of a list; every list operation
distinguishes an empty list, a list of one and longer ones, and a list of three
occurs when all are asleep and are released. (Four workspaces pass as well, with 1.9
million states.) One semaphore suffices for the link words, which a semaphore shares
with the ready queues; a count of 1 gives a count and its absence. Symmetry permutes
the workspaces other than the boot process, which Init singles out.

Two channels are the least an alternative can choose between, with a sender each,
and with skip they give it ready guards of both kinds; three processes let two
senders find one alternative in any of its states. In the second instance each
process is sender and receiver in turn, which one-way channels never show: there a
left-over word of one role is read in the other. One of the channels is scalar, so
that both addresses of a message occur.

`timer_list`: a list of three has a front, a middle and an end to insert at and
release; on a clock of six, with one tick of lag and advances of up to two ticks,
deadlines lie on both sides of the wraparound at all distances the comparison
allows, and equal deadlines occur. The second program has an alternative whose two
timers and channel become ready in every order and between any two of its steps.

`traps`: with two low priority processes one can be trapped, or in the hands of the
kernel, while another is queued; one high priority process preempts them. Of the two
interrupt levels, one interrupts low priority only and one both. The set-ups are a
kernel for low priority with both levels, one for both priorities with one level,
none (interrupts alone), and one with two traps, RUN and SIGNAL, of which the first is
disabled while it may be put off, so that the second outlives it. In them
every trap cause occurs, handlers nest in interrupts and interrupts in handlers.

Arithmetic, in `machine`: every unary instruction on all words, others on the edges of the range
and values between (0, 1, 2, the ends of each sign, shifts of and beyond the word);
every float is taken to its parts and put together again, and numbers of two words
are packed into floats. A carry, a borrow, an overflow and a product of two words do
not depend on the width; the constants of the code that do (bit fields of a float)
are scaled by `W` and `E`.

`machine`: the units and their states are arithmetic 468,713, moves 927, saves 49,613, code 93,594,
flash 68,042, interrupt controller about 77,000, video 308,832, batch 1,189, host
803. Memory has four blocks of four bytes and words of
two, so that accesses are aligned and not, cross blocks, wrap around and touch the
device at the end. Code is eight bytes in two blocks, with instructions of one to
three bytes, a decode cache of two slots and one run slot, so that entries collide
and are overwritten; two stores are enough to decode, store and decode again. The
flash has a word for each unlock address and one in another sector. Three interrupt
levels, two of edges and one of a level, nest. The ring of five bytes wraps several
times in a stream of 24 and is smaller than a start code and its neighbour; the bit
buffer of eleven fills. A log interval of two and nine instructions make more chunks
than the queue holds. The intervals of the main loop (3, 5, 4, limit 9) meet in
every order within 16 steps.

`external`: two processes and two endpoints of capacity two let transfers wait for
more bytes than there are, let both processes use one endpoint in turn, and let both
wait, so that one poll releases two owners or a second is ready while the kernel runs
for the first. One order of the map stands for both, as the endpoints are alike. There
is no bound on the length of a behaviour.

`CHECK_DEADLOCK FALSE`: processes that wait for each other on channels are stuck for
good, as on the chip; with nothing ready, asleep or running, `prepareProcess`
returns `CPU_IDLE` and the processor really stops; a program of `Arithmetic` ends;
and the units of `machine` stop at their bounds, or when the run they model is over.

### Findings

Four runs end in a counterexample; each shows that the code differs from what a
comment or a document says of it.

* `traps_bypass` (`st20.cpp:984`): when nothing runs and high priority is idle, the
  poll dispatches first, and the dispatch may take the low priority QueueEmpty trap.
  A pending timer trap is then decided with the enables of that handler and the
  process goes to the ready queue, which `docs/instruction-status.md:377` says it
  does not.
* `traps_snapshot` (`st20.cpp:336`): an interrupt taken in a low priority trap
  handler leaves a state that `save` writes and `load` refuses.
* `traps_quiet` (`st20.cpp:2471`): `schedulerQuiet` does not look at
  `pendingLowTraps`, and calls a state quiet in which the next poll takes a deferred
  trap; the comments at lines 2469 and 2558 say that there is nothing to do.
* `external_bypass` (`st20.cpp:446`): the kernel is told of one process and masks its
  trap; the host feeds the channel of another, and the poll puts that one into the
  ready queue. `docs/instruction-status.md:81` leaves enqueueing to the kernel.

Three more divergences concern one step each. They are modelled as the code does them
and have no run of their own:

* `core/cpu/instructions.cpp:268`: `unpacksn` inserts the leading bit and gives an
  undefined word for a NaN; `docs/instruction-status.md:335` says that it does neither,
  line 262 agrees with the code. `RoundsToNearest` is about the code's `unpacksn`.
* `core/memory/memory.cpp:499`: the loader takes address 0 for a boot image, and loads
  a block saved there at the end of memory instead. `LoadReturnsBytes` excepts it.
* `st20.cpp:1127`: bit 31 of the trapped status is cleared for an idle priority only,
  but a process that was dispatched has no such bit in its status (line 624), so the
  bit does not tell, as the comment at line 1124 says, whether a process was running.
  No property reads that bit.

Hazards without a property: a transfer to an alternative leaves the sender's disable
state in the bank (`st20.cpp:1568`: `Channels` has no such state, `Traps` no
alternatives), `resetch` after a transfer is done (`st20.cpp:1628`), and the pipe
reset above. In the infrared blaster, which is not modelled, `lastSymbolQueued`
stays set when the pulses of the next frame arrive before the last pair is read
(`soc/sti5518/STi5518_Irb.cpp:37`).

### Fairness

`Execution`: the loop in `runInstructions` executes one instruction after another
(weak fairness of the clock advance, of an instruction and of the idle poll), and
every instruction adds cycles, so millisecond ticks recur (strong fairness of a step
with a tick: single steps may be without one).

`Program`: the liveness is conditional on programs that cooperate as the hardware
asks. A computing low priority process comes to a `j`, the documented timeslicing
point, while its quantum has expired; one that disabled interrupts enables them; a
high priority process ends its turn. They are strong fairness conditions because
preemption may take the processor away in between. `LowServed` further assumes that
low priority gets to run again and again, as high priority may starve it by design.
`InterruptedServed` assumes that high priority wakes only finitely often: from then on
the process in the shadow bank comes to run, itself and not another one, which takes
that the high priority queue drains, and that the bank survives until it has.

`FairSpec` of `Channels` assumes that a process in an alternative goes on while it
is ready: that is what the scheduler's fairness comes to, and a program between
`alt` and `altend` has no choice.

## 4. Proofs

### Scheduler

For any set of workspaces and semaphores, from `SchedulerAssumption` alone (the end
of a list is no process or descriptor, `NoShadow` is no bank, the boot workspace is
one of the workspaces):

| Theorem | States |
|---|---|
| `InvCorrect` | `Spec => []Inv`, the inductive invariant |
| `TypeCorrect` | `Spec => []TypeOK` |
| `ReadyListsCorrect`, `WaitersCorrect` | the linked lists are the queued and waiting processes, in order |
| `PlaceCorrect` | every process is in exactly one place, once |
| `ShadowCorrect`, `InterruptedCorrect` | one shadow bank is enough, and the interrupted process comes back first and unchanged |
| `RightProcessCorrect` | after every instruction the right process has the processor |
| `WakeupCorrect` | no semaphore has both a count and a waiter |

None of these is inductive alone. A write to a link word can break any list, so that
lists stay intact follows only from every process being in one place; and that, in
turn, needs the lists (a dequeue takes what the link words say). The invariant
therefore has a function from processes to places and says of every place that it
holds, in its list, set or bank, exactly the processes the function sends there
(`Consistent`). It is stated of values rather than of the variables, so that a
handler can be followed operation by operation: between two operations the process
in hand is `Nowhere`. Each operation (enqueue, dequeue, suspend, wait, signal, swap,
splice and so on) has a lemma; `OthersLinked` says once that a write to a link word
of a process in one place leaves the lists of all other places alone; `DispatchInv`
closes every instruction; and `NextInv` has one lemma for each action.

The second part of `SchedulerProofs`, from the same assumption, has

| Theorem | States |
|---|---|
| `SchedulerImplementsQueues` | `Spec => ImplementsPriorityScheduler`: every step is a step of two first-in first-out queues with preemption, or a stutter |

The mapping reads the abstract queues off the history variable `order`, which the
invariant ties to the link words. Each operation of the code becomes one on a
sequence (what `dequeueProcess` takes by its front register is the head of the queue,
and so on), `DispatchSimulates` maps the dispatch that ends an instruction to the
abstract choice of who runs, and `StepSimulates` has one case for each action.

### Channels

For any processes, channels, senders and receivers, any choice of scalar channels
and of processes that reset, from `ChannelsAssumption` alone (a channel's ends are
two processes, `NoProcess` is none, and no guard is taken for a message):

| Theorem | States |
|---|---|
| `InvCorrect` | `Spec => []Inv`, the inductive invariant |
| `TypeCorrect` | `Spec => []TypeOK` |
| `WordsCorrect` | a channel word holds nobody or a process with business there |
| `SleepersCorrect`, `ReadyOnceCorrect` | no wakeup is lost, none is doubled |
| `SelectionCorrect` | an alternative selects a guard whose sender waits until the branch inputs |
| `NeverInvalidCorrect` | `INVALID_CHANNEL` is never met |
| `SynchronousCorrect` | a message outstanding means its sender sleeps in the channel |
| `RefinementCorrect` | `Spec => ImplementsRendezvous` |

Of a channel word, `WordInv` says whom it can hold and, for each, whether a message
is outstanding. That a process is woken at most once needs that it is in one word
only (`OnceInWords`) and, when `resetch` has taken it out, in none (`PreviousInv`);
that it is woken at all needs the converse, `SleepInv`. The state word of an
alternative is a summary of its channels that is written by two parties: `AltInv`
says of what, at each point of the alternative. While it enables, `ALT_ENABLING`
means that every guard so far is registered and `ALT_READY` that a sender waits at
one of them; asleep, every guard is registered; and while it disables, the selected
guard, or one that is still to be disabled, has its sender waiting. A sender that
comes between two of these steps finds one of the states and keeps the sentence
true, which is the whole of why the protocol works. `OtherWord` and `OtherAlt` say
once what a step leaves alone; `AwaitInv`, `CompleteInv`, `NotifyInv` and
`AltStepInv` are the operations that `out`, `in` and the alternative share;
`NextInv` has one lemma for each action. `NextSimulates` then matches each action
with one of `Rendezvous`.

### Devices

In `MachineProofs`, for any chip, cycles, levels and trigger modes, and any streams,
sizes of the ring and the bit buffer, bursts and tasks, from `FlashAssumption` (the
unlock addresses are two words of the chip), `IncAssumption` and `VideoAssumption`
(streams are sequences of codes, the sizes are positive, and a code that ends a
picture is none of a slice):

| Theorem | States |
|---|---|
| `FlashCorrect` | `FlashSpec => ArrayChangesByCommand` |
| `EdgesKeptCorrect` | `IncSpec => []EdgesKept` |
| `StreamDecodedCorrect` | `VideoSpec => []StreamDecoded` |

The array changes in the cycle after the last of a command, so what a cycle may do
depends on a history the automaton holds in a few flags. `FlashInv` ties them to it:
the unlock cycles counted are the last on the bus, a word to be programmed follows a
whole program command, and an erase prefix needs an unlock sequence of its own. For
the interrupt controller, `IncInv` adds to the property that no level-triggered
request is remembered as an edge, and that the handlers in the processor have rising
levels, which is what makes "clear the highest Exec bit" clear that of the handler
that returns.

The video decoder has three positions in one stream: what the transport controller
has produced, what the DMA has read, and what the tasks have consumed. `VideoInv`
says that the ring holds the stream between the first two (`Ringed`) and the bit
buffer what is between the last two (`Piece`). The search for a start code has a
position in the buffer, which consuming moves back under it and a refill outruns.
`Passed` says where it can be: at 0, three bytes or more before the end, so that a
code of which only the beginning has arrived is seen again, or not beyond the last
hit; and the codes before it that end a picture are behind that hit. A search that
still goes on has looked at all there is (`Searched`), so a stalled task (`Waits`)
really has no end to run to. The search and the end of a task
are functions defined step by step over the buffer; `NumberLemmas` says of such
functions that each step is what the definition says, which gives what they return
(the first code of its kind from a position on) without induction over data.

### Timers

In `TimerProofs`, for any finite set of processes, any programs of sleepers and timed
alternatives, any even range of the clock and any bounds on guards and ticks, from
`TimerAssumption` alone. That assumption says that times asked for, the lag of a
process and one tick together stay within half the range of the clock
(`MaxLag + 1 < Half` and the range of `Distance`), which is what comparing times
modulo the range needs and what a program has to keep to:

| Theorem | States |
|---|---|
| `TimerInvariant` | `Spec => []TimerInv`, the inductive invariant |
| `ListInOrderCorrect` | the list is linked, each sleeper once, in the order of the true times |
| `DueAreAwakeCorrect` | nobody who is due sleeps on, while alarms are on and the list is in its place |
| `SelectionReadyCorrect` | an alternative selects a guard that is ready, and never ends without one |
| `NeverEarlyCorrect` | `Spec => NeverEarly`: nobody goes on from `tin` before the time asked for |

The clock, the deadlines and the alarm are words that wrap. `Asks` ties each time
asked for to the ticks that are left until it, a plain integer that grows smaller as
the clock advances. Within half the range a word and such a number say the same
(`WithinHalf`, `AfterIs`, `DueIs`), and everything else is argued in ticks. `TimerInv`
then has three parts that depend on each other:

* `Fine`, of one process: its workspace words are those its place in its program and
  in the list call for. One that sleeps has its first deadline in `pw::Time`, which is
  one more than the time asked for; while guards are enabled the word holds the
  earliest of them; and once it is awake the word holds the clock of the moment at
  which it became ready (`Recorded`), with which the guards are compared when they are
  disabled, so that there is still one to select (`Promise`);
* `Listed`, of the list: its links from the front, wherever the front is (`swaptimer`
  may have put it in a register), are the sleepers, each once, in the order of the
  ticks left, and the alarm is the first deadline;
* `Awake`: with alarms on and the list in its place, nobody in it is due. It is what
  the release at the end of a step leaves, and what `DueAreAwake` rests on.

An insertion and a removal follow the links of the list and stop at the first process
that meets a condition. `WalkIs` and `FirstPlaceIs` say that the walk gives the
elements of the list and that it stops where it should; `InsertedLinked`,
`WithoutLinked` and `RestLinked`, with `InsertedInOrder` and its like, that a list with
one more, with one less, or from a place on is a list in order again, whatever the
link words of processes outside it hold. `ReleaseGood` shows that the release takes
off exactly those who are due: in a list in order they are the first ones. It closes
every action that may make one due, and the other actions change the words of one
process only (`WordsStep`). `NeverEarly` comes with the same cases: only a release
makes a sleeper in `tin` go on, and what it takes off is due (`WokenDue`).

### Traps

In `TrapsProofs`, for any processes of the two priorities, any
levels of interrupts and any set-ups of the masks, from `TrapsAssumption` alone
(handlers and interrupt vectors are no processes and differ from each other, and a
set-up is a record of masks):

| Theorem | States |
|---|---|
| `AlwaysGood` | `Spec => []Inv`, the inductive invariant |
| `TypeCorrect` | `Spec => []TypeOK` |
| `HandlersNeverReentered` | a handler that masks its own group is never asked to run twice |
| `EnablesAreRestored` | outside its handlers a priority has the enables the program set |
| `LowTrapsTrapLow` | a low priority trap about its own tasks never traps high priority |
| `NothingIsLeftUndone` | an idle processor has nothing to do, and a poll that is skipped would do nothing |
| `SavedStatesReturn` | a saved state is accepted and restored as it was |
| `EveryoneInOnePlace` | every process is in exactly one of the places the processor, the lists, the traps and the kernel have |

The invariant is `Good`, a predicate of the processor record rather than of the
variable, since a trap is taken in the middle of other operations and each function
of the code (`requestTrap`, `dispatchProcess`, `releaseTimers`, `pollTimers`) has to
take a good record to a good one, whoever calls it. Its parts:

* `ListsByPriority`: a ready queue, or a list of due processes, holds processes of its
  priority, so that a dispatch puts the right one on the processor;
* `Stack`: the trap and interrupt frames and the current bank form one stack. There is
  one handler of each priority at most, interrupts have rising levels, the caller in
  each frame is what ran below it, and on top is what runs now. Without it nothing is
  known of what a `tret` or an `iret` brings back;
* `PutAside`: what the shadow bank holds is a low priority process that high priority
  preempted below all handlers, and an interrupt that needs the shadow for itself
  keeps the old one in its frame;
* `Records`: the process in a handler's record is the one it will return to, unless
  the kernel has put another of the same priority there, and a handler that is not
  active has no word left;
* `Masks`: while a handler of a priority is active, its record has the enables the
  program set, otherwise the priority itself has; a trap that is put off was enabled
  when it was. `Masked`: an active handler that masks its group runs with all of it
  masked, which is why nothing enters it again;
* `OwnTraps`: the property of `LowTrapsTrapLow`.

`NothingIsLeftUndone` is an argument about how every instruction ends, not an
invariant of the operations: between them there is work left, and the last poll does
it. `Polled` is what that poll establishes from any good record, and `QuietPoll` that
it does nothing more when `schedulerQuiet` holds.

`EveryoneInOnePlace` is a count. A place is an element of a list, a frame, a bank or
a word, and a process could be twice in one list as well as in two, so the proof adds
up numbers of occurrences: `Total = Listed + InBanks + Held`. Of each operation it
shows that it conserves the total of every process, or (an `enqueue` and a trap on a
process in hand) adds one place for one process (`Conserves`, `Adds`); where a
process is dequeued and handed to a trap, the two steps cancel. That what an operation
takes away was there needs `Good`. `Placed` then follows for every instruction, each
closed by the poll and the dispatch that end it.

### Main program

In `MachineProofs`, for a run of any length, any intervals of the main loop and a log
interval of any size, from `BatchAssumption` and
`FreeRunAssumption` (the intervals and limits are positive):

| Theorem | States |
|---|---|
| `LogIsTheRunCorrect` | `BatchSpec => []LogIsTheRun` |
| `LooksOnTimeCorrect` | `HostSpec => []LooksOnTime` |

The records are in four hands: written, being written, queued, and in the chunk of
the emulation. `BatchInv` says that, in this order, they are the run so far, until a
write fails, after which the log is the run's first records; and where each thread
can be when it sleeps, which is what shows that a notification cannot be missed:
every step that ends the reason to sleep wakes all sleepers.

The main loop counts the instructions done, those since the last `go`, and down to the
next progress message, and steps the counters in different places: all at once for a
run of the fast path, one at a time for an instruction after which the loop has to
look, and only some of them for one that fails. `HostShape` says how the counters and
the last of each kind of look are related at the head of the loop, and `Ahead` how
they are while an instruction is done and not yet counted. The fast path is given less
than the least distance to the next multiple of any interval (`LeastOfFour`), so it
stops before an instruction that has to be looked at (`RunKeeps`), and the single step
that follows meets it (`SerialOutputKeeps`, `LimitsKeep`).

### Code caches

In `MemoryProofs`, for memories, blocks and devices of any size, any programs, stores
and jumps, and caches with any number of slots, from `MemoryAssumption` and
`CodeAssumption` (an instruction that is cached is no longer
than a block, of which there are two at least, and no device begins inside a block
of memory):

| Theorem | States |
|---|---|
| `CachesCorrect` | `CodeSpec => []CodeInv`, the inductive invariant |
| `ExecutesWhatMemoryHoldsCorrect` | `CodeSpec => []ExecutesWhatMemoryHolds` |

A slot is checked with one number, the version of the block its address is in, when
it is used and not when memory changes. So `SlotHolds` and `BlockHolds` speak of
slots that are behind as well: their version has never been ahead of their block's,
and one that equals it vouches for the bytes. That takes three arguments. A store
tells every block it writes to (`StoreAdvances`): bytes in one block raise its
version once, bytes over several raise the version of each, also when they wrap
around the address space. An instruction that is cached lies in the block of its
address, whatever its prefixes (`CacheableInBounds`; an instruction that wraps into
the same block would break this, which is what the two blocks are for), and so does
each of a run (`ExtendedIsRun`). And decoding depends on the bytes of the instruction
only, not on how far it might have read (`DecodeEnds`, `InstructionRemains`), so
that the run decoded up to the end of a block, and the single instruction decoded
without that limit, agree. While a run is executed its instructions may store over
it: `Executing` relates the index in the run to `iptr` by the positions of the
instructions, and is kept because the version is looked at after each of them.

### Memory

Also in `MemoryProofs`, for address spaces, blocks, words, alignments, devices,
zero-filled and intercepted ranges of any size, from `MemoryAssumption` (blocks and words
fill the address space, a word fits in a block, the alignment of `copy2d` is one of
words), `DevicesDisjoint` (what `registerMemoryDevice` checks), `MovesAssumption` (which
registers a move takes, and what of it is intercepted) and `ContentsAssumption` (what
memory and files hold):

| Theorem | States |
|---|---|
| `SavedCorrect` | `MemorySpec => []SavedInv`, the inductive invariant of a saved state |
| `LoadReturnsBytesCorrect` | `MemorySpec => []LoadReturnsBytes` |
| `MovesByteByByteCorrect` | `MemorySpec => []MovesByteByByte` |

Folds first. `FoldLeft` of the community modules is defined by a recursive function over
the sets of places, and no lemma about it can be stated once, since it would take the
folded operator as a parameter. `FoldSteps` and `FoldExists` are therefore about
functions: a function that is defined as the fold is has the states of its loop as a
sequence, one turn after the other. Each of the six folds of `Memory` has a lemma
(`LoadSteps`, `InitSteps`, `ChunkSteps`, `ByteSteps`, `WordSteps`, `RowSteps`) that unfolds
its definition and cites these two; from there on a fold is a sequence of states, and
what it computes is an invariant of its turns (`UpTo`).

Saves. A file holds the blocks from one whose predecessor is not allocated to the last
that follows without a gap (`RunEnds`, `FileHolds`), so every allocated block is in a file (`RunOfBlock`) and no
other block is, and a file that starts above address 0 is loaded where it was saved,
without wrapping around. `LoadIs` is the induction over the files of a
directory in any order: the blocks of the files loaded so far are as they were saved,
everything else as before. `SavedInv` adds to the property that the directory is what
`saveMemory` makes of the memory that was saved, which stores and restarts after the
save do not change, and that memory which moves is never saved. The exception in the
property, an allocated block at address 0, is loaded below `WordSignBit`
(`memory.cpp:499`).

Moves. The bytes of a move are numbered as the loop of the property takes them, and
`At` says of a memory that it is where the loop is after k of them, or failed at some
point of it. A byte of an access reads and goes where it would as an access of its own
(`ReadIs`, `StoreIs`, `AccessOfByte`, `TargetOfByte`), provided the access does not fail, and
`ChunkCopied` is the induction over the bytes of one chunk. It needs that none of the
bytes read later has been overwritten by one stored before (`Apart`) and that the
interceptor takes all of the chunk or none (`Whole`). Each path gives both for its own
reason: an aligned word either is its destination or does not meet it (`AlignedChunk`),
a single byte is never in its own way, and the ranges of `devmove` have no byte in
common (`ValidIs`). A failing chunk leaves memory as it was before the chunk, which is
a state of the loop. Then `AtRange`, `AtRow`, `AtDevice` and `AtRows` say that each path
cuts its range into chunks that follow each other and ends with all of them behind it;
for a row with a filter `PrefixIs` shows that source and destination are both aligned
after the prefix when their prefixes are equal. `MovedInv` is `SavedInv` with the type of
the memory before a move.

### External channels

In `ExternalProofs`, for any finite set of processes, any endpoints in any order of the
map, capacities and lengths, from `ExternalAssumption` (no transfer is longer than a
FIFO, and the map has each endpoint once):

| Theorem | States |
|---|---|
| `ExternalInvariantCorrect` | `ExtSpec => []ExtInvariant`, the inductive invariant |
| `TransfersOnceCorrect` | `ExtSpec => []TransfersOnce` |

The bookkeeping of one wait is spread over the descriptor of the endpoint (waiter,
length, queued, the three words of the alternative), the state word of the process,
the ready queue and the trap handler, and the poll and `finishExternalWait` take parts
of it away at different times. `ExtGood` says what the parts mean for each other: the
waiter of a channel sleeps until it is `queued`, then has nothing left to transfer and
stays known to the channel until it runs (`WaitOk`); the guards of an alternative are
the endpoints that name it as their owner, and one that is to wake it (`Waked`) is the
only one, has input, and finds it asleep (`AltOk`); and whoever sleeps is known to
what is to wake it (`SleepOk`). `Books` is the account of each FIFO.

`ExtGood` holds at every point of an action: after an instruction has changed the
state, after each endpoint of a poll (`PollStepGood`), and after the dispatch. That
nothing is left which a poll could do, `Quiet`, holds only at its end: it is what makes
a sleeper sleep rightly. The order matters, since a release for one endpoint can
activate the trap handler: with a kernel that does not mask the trap the releases of
the endpoints after it are put off, with one that does they go to the queue. `AllPolled`
shows that one pass is enough either way: a later endpoint makes none ready that came
before it (`QuietKept`), because a poll adds no input and no room, and because it never
makes a release possible that it put off before: a trap taken in the poll leaves the
next releases possible if its handler masks it, and puts them off if it does not.
Between polls anything goes: a process changes the mask, an interrupt or the kernel
returns, and the poll that ends the same action makes up for it. `PolledAndDispatched`
closes each action; before it stands one lemma for each, most of them by `NearGood`,
which says what a step of one process on one channel has to show.

### What is only model-checked

* Liveness, `AltServed` of `Channels` and the properties of `FairScheduler`, which is
  out of the prover's reach.
* `ExactOrError`, `ProgramsCompute` and `RoundsToNearest` of `Arithmetic`. The module
  uses the bit operations of a community module that is recursive, and such a module
  cannot be proved about.

All other invariants and action properties of the runs that pass, and the two
refinements, are proved for all values of the constants.

## 5. Not modelled

* `endp`, the store instructions of the queue registers, `stclock`, `restart`, the
  error and system trap groups, and the timed alternative on an external channel.
  The first three give a program direct access to the words that the modules above
  prove consistent; the next two add entries to the same mechanism.
* The register blocks of the chips (SSC, ASC, PWM, PIO, display, front end) and the
  STi5518's own devices: they hold what is written to them, with little control of
  their own. The bit-banged I2C slave and the infrared blaster have some, and are
  the next to be modelled.
* Boards, which are configuration; parsing and printing of commands; file formats,
  except for what save and load do with them; the line reader, whose only shared
  state is a counter.
* That the lazily applied clocks give the same interleaving as ticks applied at
  once: `Scheduler` and `TimerList` let any number of ticks come at an instruction,
  which covers both.
