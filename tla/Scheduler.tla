------------------------------ MODULE Scheduler ------------------------------
(***************************************************************************)
(* The process scheduler of the ST20 core (src/core/cpu/st20.cpp): two     *)
(* priorities, a ready queue each, kept as a list linked through the       *)
(* processes' workspaces, preemption of low priority into a shadow bank,   *)
(* semaphores, and the instructions that start, stop, rotate, mask and     *)
(* splice processes.                                                       *)
(*                                                                         *)
(* An instruction takes two steps, as execInstr does: BeginStep advances   *)
(* the clocks (phase "exec"), which may release sleeping processes into    *)
(* the queues without a dispatch; then the instruction runs and, in the    *)
(* same step, the scheduler poll that follows it dispatches.               *)
(*                                                                         *)
(* Here every trap is disabled, no interrupt is raised and every word      *)
(* access succeeds.  What a program must do is part of the model: it only  *)
(* starts a workspace no process lives in (parked).                        *)
(***************************************************************************)
EXTENDS Integers, Sequences

CONSTANTS
  Proc,         \* the workspaces processes live in
  Sem,          \* the semaphores
  NoProcess,    \* NO_PROCESS, the end of every list
  NoShadow,     \* the shadow bank while lowPriorityShadowValid is false
  BootProcess,  \* the workspace initCPUState starts in
  MaxCount      \* bound of the model on a semaphore's count

HIGH_PRIORITY == 0
LOW_PRIORITY  == 1
Priority      == {HIGH_PRIORITY, LOW_PRIORITY}

\* A process descriptor: the workspace and, in bit 0, the priority.
Descriptor == [wptr : Proc, priority : Priority]

\* The part of a register bank the scheduler reads.
Context == [wptr : Proc, priority : Priority, running : BOOLEAN,
            interruptsDisabled : BOOLEAN, timesliceEnable : BOOLEAN,
            timeslicePeriods : 0 .. 2]

\* LP_PROCESS_ENABLE and LP_TIMESLICE_ENABLE, the global enables used here.
Enable == {"lpProcess", "lpTimeslice"}

ASSUME SchedulerAssumption ==
  /\ NoProcess \notin Proc \union Descriptor
  /\ NoShadow \notin Context
  /\ BootProcess \in Proc
  /\ MaxCount \in Nat

VARIABLES
  cpu,        \* cpuState
  shadow,     \* lowPriorityShadow, NoShadow unless lowPriorityShadowValid
  enables,    \* the global enables of omrState.Enables
  fptr,       \* omrState.ProcQueueFPtr
  bptr,       \* omrState.ProcQueueBPtr
  link,       \* the pw::Link word of every workspace
  semaphore,  \* count, front and back words of every semaphore
  asleep,     \* descriptors on a timer list, released when their time comes
  chain,      \* a list a program holds in its registers after swapqueue
  phase,      \* "poll" between instructions, "exec" once the clocks advanced
  parked,     \* workspaces no process lives in: the program may start them
  order,      \* history: workspaces queued at each priority, oldest first
  semOrder,   \* history: descriptors waiting on each semaphore, oldest first
  chainOrder  \* history: the workspaces of chain, first one first

history == <<order, semOrder, chainOrder>>
vars == <<cpu, shadow, enables, fptr, bptr, link, semaphore, asleep, chain,
          phase, parked, order, semOrder, chainOrder>>

------------------------------------------------------------------------------
(* Ready queues.  The operators work on a record of the queue registers,   *)
(* the link words and the history, so that a handler can chain them.       *)

Ready == [fptr |-> fptr, bptr |-> bptr, link |-> link, order |-> order]

\* Mutant of Enqueue: the back register follows only the first of a list.
EnqueueKeepsBack(q, w, p) ==
  [fptr  |-> [q.fptr EXCEPT ![p] = IF @ = NoProcess THEN w ELSE @],
   bptr  |-> [q.bptr EXCEPT ![p] = IF q.fptr[p] = NoProcess THEN w ELSE @],
   link  |-> IF q.fptr[p] = NoProcess
             THEN [q.link EXCEPT ![w] = NoProcess]
             ELSE [q.link EXCEPT ![w] = NoProcess, ![q.bptr[p]] = w],
   order |-> [q.order EXCEPT ![p] = Append(@, w)]]

\* enqueueProcess: workspace w joins the back of the list of priority p.
Enqueue(q, w, p) ==
  LET cleared == [q.link EXCEPT ![w] = NoProcess] IN
  [fptr  |-> [q.fptr EXCEPT ![p] = IF @ = NoProcess THEN w ELSE @],
   bptr  |-> [q.bptr EXCEPT ![p] = w],
   link  |-> IF q.fptr[p] = NoProcess
             THEN cleared ELSE [cleared EXCEPT ![q.bptr[p]] = w],
   order |-> [q.order EXCEPT ![p] = Append(@, w)]]

\* dispatchProcess takes the front of the list of priority p off it.
Dequeue(q, p) ==
  LET next == q.link[q.fptr[p]] IN
  [fptr  |-> [q.fptr EXCEPT ![p] = next],
   bptr  |-> [q.bptr EXCEPT ![p] = IF next = NoProcess THEN NoProcess ELSE @],
   link  |-> q.link,
   order |-> [q.order EXCEPT ![p] = Tail(@)]]

SetReady(q) ==
  /\ fptr' = q.fptr
  /\ bptr' = q.bptr
  /\ link' = q.link
  /\ order' = q.order

------------------------------------------------------------------------------
(* Dispatch *)

\* The bank dispatchProcess loads for a process that was ready.
Fresh(w, p) ==
  [wptr |-> w, priority |-> p, running |-> TRUE, interruptsDisabled |-> FALSE,
   timesliceEnable |-> TRUE, timeslicePeriods |-> 0]

\* Mutant of Suspended: the bank still counts as running.
SuspendedRunning(c) == Fresh(c.wptr, c.priority)

\* What suspendSavedProcess and timesliceProcess leave of a descheduled bank.
Suspended(c) == [Fresh(c.wptr, c.priority) EXCEPT !.running = FALSE]

\* Mutant of Preempts: a process that disabled interrupts is preempted too.
PreemptsMasked(c, q) ==
  /\ c.priority = LOW_PRIORITY
  /\ q.fptr[HIGH_PRIORITY] # NoProcess
  /\ enables'.lpProcess

\* Mutant of Preempts: the enable as it was before the instruction.
PreemptsStaleEnable(c, q) ==
  /\ c.priority = LOW_PRIORITY
  /\ q.fptr[HIGH_PRIORITY] # NoProcess
  /\ ~c.interruptsDisabled
  /\ enables.lpProcess

\* A running low priority process gives way to high priority.
Preempts(c, q) ==
  /\ c.priority = LOW_PRIORITY
  /\ q.fptr[HIGH_PRIORITY] # NoProcess
  /\ ~c.interruptsDisabled
  /\ enables'.lpProcess

\* Mutant of Resumes: the interrupted process waits for those that are ready.
ResumesLast(q) ==
  /\ \A p \in Priority : q.fptr[p] = NoProcess
  /\ shadow # NoShadow

\* With no high priority process ready, the interrupted one comes back.
Resumes(q) ==
  /\ q.fptr[HIGH_PRIORITY] = NoProcess
  /\ shadow # NoShadow

\* dispatchProcess, from the bank c and the queues q an instruction left.
Dispatch(c, q) ==
  LET p == IF q.fptr[HIGH_PRIORITY] # NoProcess
           THEN HIGH_PRIORITY ELSE LOW_PRIORITY
  IN
  \/ /\ c.running /\ ~Preempts(c, q)
     /\ cpu' = c
     /\ SetReady(q)
     /\ UNCHANGED shadow
  \/ /\ c.running /\ Preempts(c, q)
     /\ cpu' = Fresh(q.fptr[HIGH_PRIORITY], HIGH_PRIORITY)
     /\ shadow' = c
     /\ SetReady(Dequeue(q, HIGH_PRIORITY))
  \/ /\ ~c.running /\ Resumes(q)
     /\ cpu' = shadow
     /\ shadow' = NoShadow
     /\ SetReady(q)
  \/ /\ ~c.running /\ ~Resumes(q)
     /\ q.fptr[p] # NoProcess
     /\ cpu' = Fresh(q.fptr[p], p)
     /\ SetReady(Dequeue(q, p))
     /\ UNCHANGED shadow
  \/ /\ ~c.running /\ ~Resumes(q)
     /\ q.fptr[p] = NoProcess
     /\ cpu' = c
     /\ SetReady(q)
     /\ UNCHANGED shadow

------------------------------------------------------------------------------
\* initCPUState, once the global enables hold e: a reset clears them all.
InitWith(e) ==
  /\ cpu = Fresh(BootProcess, LOW_PRIORITY)
  /\ shadow = NoShadow
  /\ enables = e
  /\ fptr = [p \in Priority |-> NoProcess]
  /\ bptr = [p \in Priority |-> NoProcess]
  /\ link = [w \in Proc |-> NoProcess]
  /\ semaphore = [s \in Sem |->
                    [count |-> 0, front |-> NoProcess, back |-> NoProcess]]
  /\ asleep = {}
  /\ chain = [front |-> NoProcess, back |-> NoProcess]
  /\ phase = "poll"
  /\ parked = Proc \ {BootProcess}
  /\ order = [p \in Priority |-> <<>>]
  /\ semOrder = [s \in Sem |-> <<>>]
  /\ chainOrder = <<>>

Init == InitWith([e \in Enable |-> FALSE])

------------------------------------------------------------------------------
(* Time *)

\* Mutant of Aged: the count starts over.
AgedOver(c, ticks) ==
  IF c.running /\ c.priority = LOW_PRIORITY
  THEN [c EXCEPT !.timeslicePeriods = (@ + ticks) % 3]
  ELSE c

\* ageQuantum: a millisecond tick counts against running low priority only.
Aged(c, ticks) ==
  IF c.running /\ c.priority = LOW_PRIORITY /\ c.timeslicePeriods + ticks <= 2
  THEN [c EXCEPT !.timeslicePeriods = @ + ticks]
  ELSE c

\* The clocks advance before an instruction, or while the processor is idle
\* with a process asleep; with nothing asleep an idle processor stops.
BeginStep(ticks) ==
  /\ phase = "poll"
  /\ cpu.running \/ asleep # {}
  /\ phase' = "exec"
  /\ cpu' = Aged(cpu, ticks)
  /\ shadow' = IF shadow = NoShadow THEN shadow ELSE Aged(shadow, ticks)
  /\ UNCHANGED <<enables, fptr, bptr, link, semaphore, asleep, chain, parked,
                 history>>

\* releaseDueTimers: a sleeper whose time has come is queued, not dispatched.
Release(d) ==
  /\ phase = "exec"
  /\ d \in asleep
  /\ asleep' = asleep \ {d}
  /\ SetReady(Enqueue(Ready, d.wptr, d.priority))
  /\ UNCHANGED <<cpu, shadow, enables, semaphore, chain, phase, parked,
                 semOrder, chainOrder>>

\* prepareProcess: an idle processor polls after every advance of the clocks.
IdlePoll ==
  /\ phase = "exec"
  /\ ~cpu.running
  /\ phase' = "poll"
  /\ UNCHANGED enables
  /\ Dispatch(cpu, Ready)
  /\ UNCHANGED <<semaphore, asleep, chain, parked, semOrder, chainOrder>>

------------------------------------------------------------------------------
(* Instructions.  Each runs on the clock-advanced state and ends with the  *)
(* dispatch of the poll that follows it.                                   *)

Executing ==
  /\ phase = "exec"
  /\ cpu.running
  /\ phase' = "poll"

Self == [wptr |-> cpu.wptr, priority |-> cpu.priority]

\* Any instruction that leaves the scheduler alone.
Compute ==
  /\ Executing
  /\ UNCHANGED enables
  /\ Dispatch(cpu, Ready)
  /\ UNCHANGED <<semaphore, asleep, chain, parked, semOrder, chainOrder>>

\* startp: a new process at the priority of the one that starts it.
StartP(w) ==
  /\ Executing
  /\ w \in parked
  /\ parked' = parked \ {w}
  /\ UNCHANGED enables
  /\ Dispatch(cpu, Enqueue(Ready, w, cpu.priority))
  /\ UNCHANGED <<semaphore, asleep, chain, semOrder, chainOrder>>

\* runp: a stopped process, at the priority its descriptor names.
RunP(d) ==
  /\ Executing
  /\ d.wptr \in parked
  /\ parked' = parked \ {d.wptr}
  /\ UNCHANGED enables
  /\ Dispatch(cpu, Enqueue(Ready, d.wptr, d.priority))
  /\ UNCHANGED <<semaphore, asleep, chain, semOrder, chainOrder>>

StopP ==
  /\ Executing
  /\ parked' = parked \union {cpu.wptr}
  /\ UNCHANGED enables
  /\ Dispatch(Suspended(cpu), Ready)
  /\ UNCHANGED <<semaphore, asleep, chain, semOrder, chainOrder>>

\* tin: the caller joins the timer list of its priority.
Tin ==
  /\ Executing
  /\ asleep' = asleep \union {Self}
  /\ UNCHANGED enables
  /\ Dispatch(Suspended(cpu), Ready)
  /\ UNCHANGED <<semaphore, chain, parked, semOrder, chainOrder>>

\* Mutant of Rotate: the caller keeps its place.
RotateInPlace == Dispatch(cpu, Ready)

\* timesliceProcess: the caller goes to the back of its queue, unless empty.
Rotate ==
  \/ /\ fptr[cpu.priority] = NoProcess
     /\ Dispatch(cpu, Ready)
  \/ /\ fptr[cpu.priority] # NoProcess
     /\ Dispatch(Suspended(cpu), Enqueue(Ready, cpu.wptr, cpu.priority))

Timeslice ==
  /\ Executing
  /\ UNCHANGED enables
  /\ Rotate
  /\ UNCHANGED <<semaphore, asleep, chain, parked, semOrder, chainOrder>>

\* checkPeriodicTimeslice, at j: the quantum has expired and may be taken.
QuantumExpired ==
  /\ cpu.priority = LOW_PRIORITY
  /\ cpu.timeslicePeriods = 2
  /\ ~cpu.interruptsDisabled
  /\ cpu.timesliceEnable
  /\ enables.lpTimeslice
  /\ fptr[HIGH_PRIORITY] = NoProcess \/ ~enables.lpProcess

Jump ==
  /\ Executing
  /\ UNCHANGED enables
  /\ \/ QuantumExpired /\ Rotate
     \/ ~QuantumExpired /\ Dispatch(cpu, Ready)
  /\ UNCHANGED <<semaphore, asleep, chain, parked, semOrder, chainOrder>>

\* intdis and intenb: no effect at high priority.
SetInterruptsDisabled(b) ==
  /\ Executing
  /\ UNCHANGED enables
  /\ Dispatch([cpu EXCEPT !.interruptsDisabled =
                 IF cpu.priority = LOW_PRIORITY THEN b ELSE @], Ready)
  /\ UNCHANGED <<semaphore, asleep, chain, parked, semOrder, chainOrder>>

\* settimeslice: no effect at high priority.
SetTimeslice(b) ==
  /\ Executing
  /\ UNCHANGED enables
  /\ Dispatch([cpu EXCEPT !.timesliceEnable =
                 IF cpu.priority = LOW_PRIORITY THEN b ELSE @], Ready)
  /\ UNCHANGED <<semaphore, asleep, chain, parked, semOrder, chainOrder>>

\* gintdis and gintenb: clear or set any selection of the global enables.
SetGlobalEnables(mask, b) ==
  /\ Executing
  /\ enables' = [e \in Enable |->
                   IF e \in mask THEN b ELSE enables[e]]
  /\ Dispatch(cpu, Ready)
  /\ UNCHANGED <<semaphore, asleep, chain, parked, semOrder, chainOrder>>

------------------------------------------------------------------------------
(* Semaphores.  Waiters are descriptors linked through the same word the   *)
(* ready queues use.                                                       *)

\* waitSemaphore takes a count ...
TakeCount(s) ==
  /\ semaphore[s].count # 0
  /\ semaphore' = [semaphore EXCEPT ![s].count = @ - 1]
  /\ Dispatch(cpu, Ready)
  /\ UNCHANGED semOrder

\* Mutant of WaiterLinks: the link word of the new waiter is not cleared.
WaiterLinksStale(s) ==
  IF semaphore[s].front = NoProcess
  THEN link
  ELSE [link EXCEPT ![semaphore[s].back.wptr] = Self]

\* The link words once the caller is the last waiter.
WaiterLinks(s) ==
  LET cleared == [link EXCEPT ![cpu.wptr] = NoProcess] IN
  IF semaphore[s].front = NoProcess
  THEN cleared
  ELSE [cleared EXCEPT ![semaphore[s].back.wptr] = Self]

\* ... or the caller takes a place at the back.
JoinWaiters(s) ==
  /\ semaphore[s].count = 0
  /\ semaphore' =
       [semaphore EXCEPT
          ![s] = [count |-> @.count,
                  front |-> IF @.front = NoProcess THEN Self ELSE @.front,
                  back |-> Self]]
  /\ Dispatch(Suspended(cpu), [Ready EXCEPT !.link = WaiterLinks(s)])
  /\ semOrder' = [semOrder EXCEPT ![s] = Append(@, Self)]

Wait(s) ==
  /\ Executing
  /\ UNCHANGED enables
  /\ TakeCount(s) \/ JoinWaiters(s)
  /\ UNCHANGED <<asleep, chain, parked, chainOrder>>

\* Mutant of AddCount: the count grows although a process waits for it.
AddCountAlways(s) ==
  /\ semaphore[s].count < MaxCount
  /\ semaphore' = [semaphore EXCEPT ![s].count = @ + 1]
  /\ Dispatch(cpu, Ready)
  /\ UNCHANGED semOrder

\* signalSemaphore adds a count when nobody waits ...
AddCount(s) ==
  /\ semaphore[s].front = NoProcess
  /\ semaphore[s].count < MaxCount
  /\ semaphore' = [semaphore EXCEPT ![s].count = @ + 1]
  /\ Dispatch(cpu, Ready)
  /\ UNCHANGED semOrder

\* ... and makes the longest waiter ready otherwise.
WakeWaiter(s) ==
  LET front == semaphore[s].front
      next == link[front.wptr]
  IN
  /\ front # NoProcess
  /\ semaphore' =
       [semaphore EXCEPT
          ![s] = [count |-> @.count,
                  front |-> next,
                  back |-> IF next = NoProcess THEN NoProcess ELSE @.back]]
  /\ Dispatch(cpu, Enqueue(Ready, front.wptr, front.priority))
  /\ semOrder' = [semOrder EXCEPT ![s] = Tail(@)]

Signal(s) ==
  /\ Executing
  /\ UNCHANGED enables
  /\ AddCount(s) \/ WakeWaiter(s)
  /\ UNCHANGED <<asleep, chain, parked, chainOrder>>

------------------------------------------------------------------------------
(* Lists moved by the program, as its kernel does to hold a queue. *)

\* swapqueue: the program's list and the ready list change places.
SwapQueue(p) ==
  /\ Executing
  /\ UNCHANGED enables
  /\ chain' = [front |-> fptr[p], back |-> bptr[p]]
  /\ chainOrder' = order[p]
  /\ Dispatch(cpu, [fptr  |-> [fptr EXCEPT ![p] = chain.front],
                    bptr  |-> [bptr EXCEPT ![p] = chain.back],
                    link  |-> link,
                    order |-> [order EXCEPT ![p] = chainOrder]])
  /\ UNCHANGED <<semaphore, asleep, parked, semOrder>>

\* insertReadyQueue: the program's list goes in front of the ready list.
Spliced(p) ==
  [fptr  |-> [fptr EXCEPT ![p] = chain.front],
   bptr  |-> [bptr EXCEPT ![p] = IF fptr[p] = NoProcess THEN chain.back ELSE @],
   link  |-> IF fptr[p] = NoProcess
             THEN link ELSE [link EXCEPT ![chain.back] = fptr[p]],
   order |-> [order EXCEPT ![p] = chainOrder \o @]]

InsertQueue(p) ==
  /\ Executing
  /\ UNCHANGED enables
  /\ chain.front # NoProcess
  /\ chain' = [front |-> NoProcess, back |-> NoProcess]
  /\ chainOrder' = <<>>
  /\ Dispatch(cpu, Spliced(p))
  /\ UNCHANGED <<semaphore, asleep, parked, semOrder>>

------------------------------------------------------------------------------
Next ==
  \/ \E ticks \in 0 .. 1 : BeginStep(ticks)
  \/ \E d \in Descriptor : Release(d)
  \/ IdlePoll
  \/ Compute
  \/ \E w \in Proc : StartP(w)
  \/ \E d \in Descriptor : RunP(d)
  \/ StopP
  \/ Tin
  \/ Timeslice
  \/ Jump
  \/ \E b \in BOOLEAN : SetInterruptsDisabled(b)
  \/ \E b \in BOOLEAN : SetTimeslice(b)
  \/ \E mask \in SUBSET Enable, b \in BOOLEAN :
        SetGlobalEnables(mask, b)
  \/ \E s \in Sem : Wait(s)
  \/ \E s \in Sem : Signal(s)
  \/ \E p \in Priority : SwapQueue(p)
  \/ \E p \in Priority : InsertQueue(p)

Spec == Init /\ [][Next]_vars

------------------------------------------------------------------------------
(* Properties *)

\* Every variable keeps its type: in particular a link word is the end of a
\* list, a workspace (ready queues) or a descriptor (semaphores).
TypeOK ==
  /\ cpu \in Context
  /\ shadow \in Context \union {NoShadow}
  /\ enables \in [Enable -> BOOLEAN]
  /\ fptr \in [Priority -> Proc \union {NoProcess}]
  /\ bptr \in [Priority -> Proc \union {NoProcess}]
  /\ link \in [Proc -> Proc \union Descriptor \union {NoProcess}]
  /\ semaphore \in [Sem -> [count : Nat,
                             front : Descriptor \union {NoProcess},
                             back : Descriptor \union {NoProcess}]]
  /\ asleep \in SUBSET Descriptor
  /\ chain \in [front : Proc \union {NoProcess}, back : Proc \union {NoProcess}]
  /\ phase \in {"poll", "exec"}
  /\ parked \in SUBSET Proc
  /\ order \in [Priority -> Seq(Proc)]
  /\ semOrder \in [Sem -> Seq(Descriptor)]
  /\ chainOrder \in Seq(Proc)

\* Front, back and the link words lk spell out the workspaces ws.
Lists(lk, front, back, ws) ==
  /\ front = IF ws = <<>> THEN NoProcess ELSE ws[1]
  /\ back = IF ws = <<>> THEN NoProcess ELSE ws[Len(ws)]
  /\ \A i \in 1 .. Len(ws) :
       lk[ws[i]] = IF i = Len(ws) THEN NoProcess ELSE ws[i + 1]

\* The same for the waiters ds of a semaphore, linked by their descriptors.
ListsWaiters(lk, front, back, ds) ==
  /\ front = IF ds = <<>> THEN NoProcess ELSE ds[1]
  /\ back = IF ds = <<>> THEN NoProcess ELSE ds[Len(ds)]
  /\ \A i \in 1 .. Len(ds) :
       lk[ds[i].wptr] = IF i = Len(ds) THEN NoProcess ELSE ds[i + 1]

\* The linked ready queues, and a list a program took out of one, hold the
\* processes queued and not yet dispatched, in the order they were queued: no
\* enqueue, splice, semaphore operation or dispatch breaks or reorders a list
\* through the link words they all share.
ReadyListsInOrder ==
  /\ \A p \in Priority : Lists(link, fptr[p], bptr[p], order[p])
  /\ Lists(link, chain.front, chain.back, chainOrder)

\* A semaphore's list holds its waiters in the order they came.
WaitersInOrder ==
  \A s \in Sem :
    ListsWaiters(link, semaphore[s].front, semaphore[s].back, semOrder[s])

\* The places a process can be in, and the workspaces in each.
Place ==
  [kind : {"parked", "running", "preempted", "asleep", "chain"}, at : {NoProcess}]
    \union [kind : {"ready"}, at : Priority]
    \union [kind : {"waiting"}, at : Sem]

Held(place) ==
  CASE place.kind = "parked"    -> parked
    [] place.kind = "running"   -> {w \in Proc : cpu.running /\ cpu.wptr = w}
    [] place.kind = "preempted" -> {w \in Proc : shadow # NoShadow /\ shadow.wptr = w}
    [] place.kind = "asleep"    -> {d.wptr : d \in asleep}
    [] place.kind = "chain"     -> {chainOrder[i] : i \in 1 .. Len(chainOrder)}
    [] place.kind = "ready"     -> {order[place.at][i] : i \in 1 .. Len(order[place.at])}
    [] place.kind = "waiting"   -> {semOrder[place.at][i].wptr : i \in 1 .. Len(semOrder[place.at])}

NoRepeats(ws) == \A i, j \in 1 .. Len(ws) : ws[i] = ws[j] => i = j

\* No process is ever lost or duplicated: every workspace is in exactly one
\* place, and in it once, across starts, preemptions, rotations, semaphore
\* hand-overs, timer releases and list surgery.
ExactlyOnePlace ==
  /\ \A w \in Proc : \E place \in Place :
       /\ w \in Held(place)
       /\ \A other \in Place \ {place} : w \notin Held(other)
  /\ \A p \in Priority : NoRepeats(order[p])
  /\ NoRepeats(chainOrder)
  /\ \A s \in Sem : \A i, j \in 1 .. Len(semOrder[s]) :
       semOrder[s][i].wptr = semOrder[s][j].wptr => i = j
  /\ \A d, e \in asleep : d.wptr = e.wptr => d = e

\* The single shadow bank is enough: it is occupied only while a high priority
\* process runs, by a low priority process that allowed interruption, so no
\* preemption overwrites it and its process is never forgotten.
ShadowIsInterrupted ==
  shadow # NoShadow =>
    /\ cpu.running /\ cpu.priority = HIGH_PRIORITY
    /\ shadow.running /\ shadow.priority = LOW_PRIORITY
    /\ ~shadow.interruptsDisabled

\* Between instructions the processor is with the process that deserves it: a
\* ready high priority process waits only behind another or behind a low one
\* that shut it out, and the processor is idle only if nothing can run.
RightProcessRuns ==
  phase = "poll" =>
    /\ cpu.running /\ cpu.priority = LOW_PRIORITY /\ fptr[HIGH_PRIORITY] # NoProcess
         => cpu.interruptsDisabled \/ ~enables.lpProcess
    /\ ~cpu.running => /\ \A p \in Priority : fptr[p] = NoProcess
                      /\ shadow = NoShadow

\* No wakeup is lost or stored while it is owed: a semaphore with a waiter has
\* no count.
NoWaiterWithCount ==
  \A s \in Sem : semaphore[s].front # NoProcess => semaphore[s].count = 0

\* The interrupted process gets the processor back before any other low
\* priority process, with the bank it was interrupted with and the time its
\* quantum has run since (docs/instruction-status.md: an expired quantum
\* remains pending across the interruption).
InterruptedResumesFirst ==
  [][shadow # NoShadow =>
       \/ /\ shadow' # NoShadow
          /\ shadow'.timeslicePeriods >= shadow.timeslicePeriods
          /\ shadow' = [shadow EXCEPT !.timeslicePeriods = shadow'.timeslicePeriods]
          /\ cpu'.priority = HIGH_PRIORITY
       \/ /\ shadow' = NoShadow
          /\ cpu' = shadow]_vars
==============================================================================
