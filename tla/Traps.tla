------------------------------- MODULE Traps -------------------------------
(***************************************************************************)
(* Scheduler traps and external interrupts (src/core/cpu/st20.cpp): the    *)
(* handlers an operating system's kernel installs to schedule its own      *)
(* tasks, the traps put off until they can be taken, and the interrupts    *)
(* that come in between.                                                   *)
(*                                                                         *)
(* The processor is one record, m, because a trap is taken in the middle   *)
(* of other operations: requestTrap, dispatchProcess and pollTimers are    *)
(* functions of it, and one step of the specification is one instruction   *)
(* with the poll that ends it.  Waiting processes are not told apart       *)
(* further than the operation that wakes them; PriorityScheduler, Channels *)
(* and TimerList say how they wait.                                        *)
(***************************************************************************)
EXTENDS Naturals, Sequences, FiniteSets, SequencesExt

CONSTANTS
  High, Low,      \* HIGH_PRIORITY and LOW_PRIORITY
  Proc,           \* the processes
  LowProc,        \* those of low priority
  First,          \* the process that runs at the start
  NoProc,         \* NO_PROCESS
  Handler,        \* the workspace of the scheduler trap handler of a priority
  Level,          \* the interrupt levels in use
  Vector,         \* the workspace of the interrupt handler of a level
  LowOnly,        \* levels whose handler only interrupts low priority
  Kernels,        \* ways to set up the traps: masks, the handler's masks, the
                  \* low priority traps that high priority disables, and the
                  \* interrupt levels that ask for service
  MaxCount        \* bound of the model on the count of the semaphore

Causes == {"RUN", "SIGNAL", "TIMER", "TIMESLICE", "INTERNALCH", "PROCESS",
           "QUEUE_EMPTY"}
Priority == {High, Low}
PriorityOf(q) == IF q \in LowProc THEN Low ELSE High
Workspace == Proc \union {Handler[p] : p \in Priority}
                  \union {Vector[l] : l \in Level} \union {NoProc}

ASSUME TrapsAssumption ==
  /\ High # Low /\ LowProc \subseteq Proc /\ First \in LowProc
  /\ NoProc \notin Proc /\ Level \subseteq Nat /\ MaxCount \in Nat \ {0}
  /\ Handler[High] # Handler[Low]
  /\ \A p \in Priority : Handler[p] \notin Proc \union {NoProc}
  /\ \A l \in Level :
       /\ Vector[l] \notin Proc \union {NoProc}
       /\ \A p \in Priority : Vector[l] # Handler[p]
       /\ \A k \in Level : Vector[l] = Vector[k] => l = k
  /\ Kernels \subseteq [mask : [Priority -> SUBSET Causes],
                        handlerMask : [Priority -> SUBSET Causes],
                        cleared : SUBSET Causes,
                        levels : SUBSET Level]

VARIABLES
  kernel, \* the set up of the traps, which stays the same
  m       \* the processor, its lists, and the tasks the kernel keeps

vars == <<kernel, m>>

Bank == [wptr : Workspace, prio : Priority, running : BOOLEAN,
         valid : BOOLEAN, intdis : BOOLEAN]

Idle(p) == [wptr |-> NoProc, prio |-> p, running |-> FALSE, valid |-> FALSE,
            intdis |-> FALSE]
Running(w, p) == [wptr |-> w, prio |-> p, running |-> TRUE, valid |-> FALSE,
                  intdis |-> FALSE]

(***************************************************************************)
(* valid is bit 31 of the status word; mask is trapEnableMask; shadow and  *)
(* shadowValid are lowPriorityShadow; record is the trapped process record *)
(* in memory, word the descriptor in word 0 of the handler's workspace;    *)
(* asleep, late, channel, waiters and tasks are the processes in the timer *)
(* list, those of it that are due, in a channel, at the semaphore, and in  *)
(* the hands of the kernel; stopped are in nobody's.                       *)
(***************************************************************************)
Init ==
  /\ kernel \in Kernels
  /\ m = [cpu |-> [Running(First, Low) EXCEPT !.valid = TRUE],
          shadow |-> Idle(Low), shadowValid |-> FALSE,
          queue |-> [p \in Priority |-> <<>>],
          mask |-> kernel.mask,
          frames |-> <<>>,
          record |-> [p \in Priority |->
                        [mask |-> {}, wptr |-> NoProc, valid |-> FALSE]],
          word |-> [p \in Priority |-> NoProc],
          reported |-> [p \in Priority |-> FALSE],
          pendingTimer |-> NoProc, pendingLow |-> <<>>,
          irqs |-> <<>>,
          asleep |-> {}, late |-> [p \in Priority |-> <<>>],
          channel |-> {}, waiters |-> <<>>, count |-> 0,
          tasks |-> {}, stopped |-> Proc \ {First}, error |-> "none"]

trapHandlerActive(s) == s.frames # <<>>
interruptHandlerActive(s) == s.irqs # <<>>
HandlersActive(s) == trapHandlerActive(s) \/ interruptHandlerActive(s)

enqueueProcess(s, q) ==
  LET p == PriorityOf(q)
  IN  [s EXCEPT !.queue[p] = Append(@, q), !.reported[p] = FALSE]

(***************************************************************************)
(* requestTrap: a trap enters the handler of priority p, with the          *)
(* descriptor of process q in its workspace, unless one is active already. *)
(* A low priority run or signal trap raised at high priority waits.        *)
(***************************************************************************)
\* Mutant: the trap is taken at once, while high priority runs.
NeverDeferred(s, cause, p) == FALSE

Deferred(s, cause, p) == cause \in {"RUN", "SIGNAL"} /\ p = Low /\ s.cpu.prio = High

\* Mutant: the handler runs with the enables of the trapped process.
EnterUnmasked(s, cause, p, q) ==
  [s EXCEPT
     !.record[p] = [mask |-> s.mask[p], wptr |-> s.cpu.wptr,
                    valid |-> s.cpu.valid /\ s.cpu.running],
     !.word[p] = IF q = NoProc THEN @ ELSE q,
     !.frames = Append(@, [cause |-> cause, prio |-> p, caller |-> s.cpu]),
     !.cpu = [@ EXCEPT !.wptr = Handler[p], !.prio = p, !.running = TRUE]]

EnterTrap(s, cause, p, q) ==
  [s EXCEPT
     !.record[p] = [mask |-> s.mask[p], wptr |-> s.cpu.wptr,
                    valid |-> s.cpu.valid /\ s.cpu.running],
     !.word[p] = IF q = NoProc THEN @ ELSE q,
     !.frames = Append(@, [cause |-> cause, prio |-> p, caller |-> s.cpu]),
     !.mask[p] = @ \intersect kernel.handlerMask[p],
     !.cpu = [@ EXCEPT !.wptr = Handler[p], !.prio = p, !.running = TRUE,
                       !.valid = FALSE]]

requestTrap(s, cause, p, q) ==
  CASE cause \notin s.mask[p] -> s
    [] cause \in s.mask[p] /\ \E i \in DOMAIN s.frames : s.frames[i].prio = p ->
         [s EXCEPT !.error = "TRAP_REENTRY"]
    [] OTHER ->
         IF Deferred(s, cause, p)
         THEN [s EXCEPT !.pendingLow = Append(@, [cause |-> cause, proc |-> q])]
         ELSE EnterTrap(s, cause, p, q)

\* A process becomes ready: its trap if that is enabled, else the ready queue.
TrapOrEnqueue(s, cause, q) ==
  IF cause \in s.mask[PriorityOf(q)]
  THEN requestTrap(s, cause, PriorityOf(q), q)
  ELSE enqueueProcess(s, q)

(***************************************************************************)
(* dispatchProcess: report an empty queue, drop from an idle high priority *)
(* to low to report that one's, or run the next process.                   *)
(***************************************************************************)
ReportEmpty(s, p) ==
  LET t == requestTrap(s, "QUEUE_EMPTY", p, NoProc)
  IN  IF t.error = "none" THEN [t EXCEPT !.reported[p] = TRUE] ELSE t

MayReport(s, p) == "QUEUE_EMPTY" \in s.mask[p] /\ ~s.reported[p]

OwnQueueEmpty(s) ==
  /\ ~s.cpu.running
  /\ s.queue[s.cpu.prio] = <<>> /\ s.queue[High] = <<>>
  /\ MayReport(s, s.cpu.prio)

BothQueuesEmpty(s) ==
  /\ ~s.cpu.running /\ s.cpu.prio = High /\ ~s.shadowValid
  /\ s.queue[High] = <<>> /\ s.queue[Low] = <<>>
  /\ MayReport(s, Low)

\* The registers of low priority, as they were left, with nothing running.
IdleBank(s) == [s.shadow EXCEPT !.prio = Low, !.running = FALSE]

Switch(s, p) ==
  LET q == Head(s.queue[p])
      interrupted == s.cpu.running
      t == [s EXCEPT
              !.shadow = IF s.cpu.running \/ s.cpu.prio = Low THEN s.cpu ELSE @,
              !.shadowValid = @ \/ s.cpu.running,
              !.queue[p] = Tail(@),
              !.cpu = Running(q, p),
              !.reported[p] = FALSE]
  IN  IF interrupted THEN requestTrap(t, "PROCESS", p, q) ELSE t

ResumeShadow(s) ==
  [s EXCEPT !.cpu = s.shadow, !.shadowValid = FALSE, !.reported[Low] = FALSE]

dispatchProcess(s) ==
  LET next == IF s.queue[High] # <<>> THEN High ELSE Low
  IN  CASE HandlersActive(s) -> s
        [] ~HandlersActive(s) /\ OwnQueueEmpty(s) -> ReportEmpty(s, s.cpu.prio)
        [] ~HandlersActive(s) /\ ~OwnQueueEmpty(s) /\ BothQueuesEmpty(s) ->
             ReportEmpty([s EXCEPT !.cpu = IdleBank(s)], Low)
        [] OTHER ->
             IF s.cpu.running
                  /\ (s.cpu.prio = High \/ next = Low \/ s.cpu.intdis)
             THEN s
             ELSE IF ~s.cpu.running /\ next = Low /\ s.shadowValid
             THEN ResumeShadow(s)
             ELSE IF s.queue[next] = <<>> THEN s ELSE Switch(s, next)

(***************************************************************************)
(* releaseDueTimers: the due processes of high, then of low priority wake, *)
(* until one of them needs a timer trap, which becomes the pending one.    *)
(* Its enables are those that a running handler's return will restore.     *)
(***************************************************************************)
EnablesAfterReturn(s, p) ==
  IF \E i \in DOMAIN s.frames : s.frames[i].prio = p
  THEN s.record[p].mask ELSE s.mask[p]

ReleaseDue(s, p) ==
  CASE s.pendingTimer # NoProc \/ s.late[p] = <<>> -> s
    [] s.pendingTimer = NoProc /\ s.late[p] # <<>> /\ "TIMER" \in EnablesAfterReturn(s, p) ->
         [s EXCEPT !.late[p] = Tail(@), !.pendingTimer = Head(s.late[p])]
    [] OTHER ->
         [s EXCEPT !.late[p] = <<>>, !.queue[p] = @ \o s.late[p], !.reported[p] = FALSE]

releaseTimers(s) == ReleaseDue(ReleaseDue(s, High), Low)

(***************************************************************************)
(* pollTimers: between two instructions, a trap that was put off is taken  *)
(* when low priority has the processor, or high priority has no use of it. *)
(***************************************************************************)
TakeDeferred(s) ==
  LET t == IF s.cpu.prio = Low THEN s
           ELSE [s EXCEPT !.cpu = [s.shadow EXCEPT !.prio = Low,
                                                   !.running = s.shadowValid],
                          !.shadowValid = FALSE]
      u == [t EXCEPT !.cpu.valid = @ \/ t.cpu.running, !.pendingLow = Tail(@)]
      trap == Head(s.pendingLow)
  IN  IF trap.cause \in u.mask[Low]
      THEN requestTrap(u, trap.cause, Low, trap.proc)
      ELSE dispatchProcess(enqueueProcess(u, trap.proc))

TakeTimerNow(s) ==
  LET q == s.pendingTimer
      trapped == "TIMER" \in s.mask[PriorityOf(q)]
      t == TrapOrEnqueue(s, "TIMER", q)
      u == [t EXCEPT !.pendingTimer = NoProc]
  IN  IF t.error # "none" THEN t
      ELSE IF trapped THEN u ELSE dispatchProcess(u)

TakeTimer(s) ==
  LET p == PriorityOf(s.pendingTimer)
      below == p = Low /\ s.cpu.prio = High
      t == dispatchProcess(s)
  IN  CASE \/ s.cpu.running /\ s.cpu.prio = Low /\ s.cpu.intdis /\ p = High
           \/ below /\ s.cpu.running -> t
        [] below /\ ~s.cpu.running ->
             IF t.error # "none" THEN t
             ELSE IF t.cpu.prio = Low THEN TakeTimerNow(t)
             ELSE IF t.cpu.running \/ t.queue[High] # <<>> THEN t
             ELSE TakeTimerNow([t EXCEPT !.cpu = IdleBank(t)])
        [] OTHER -> TakeTimerNow(s)

\* Mutant: a deferred trap waits for low priority to run by itself.
LowRuns(s) == s.cpu.prio = Low

LowMayTrap(s) ==
  s.cpu.prio = Low \/ (~s.cpu.running /\ s.queue[High] = <<>>)

pollTimers(s) ==
  LET t == releaseTimers(s)
  IN  CASE s.error # "none" -> s
        [] s.error = "none" /\ HandlersActive(t) -> t
        [] OTHER ->
             IF t.pendingLow # <<>> /\ LowMayTrap(t) THEN TakeDeferred(t)
             ELSE IF t.pendingTimer # NoProc THEN TakeTimer(t)
             ELSE dispatchProcess(t)

Preemptable(s) ==
  ~HandlersActive(s) /\ s.cpu.prio = Low /\ s.queue[High] # <<>> /\ ~s.cpu.intdis

\* schedulerQuiet: the instructions that follow need no poll.
schedulerQuiet(s) ==
  /\ s.cpu.running /\ s.pendingTimer = NoProc
  /\ ~Preemptable(s)
  /\ s.late = [p \in Priority |-> <<>>]

(***************************************************************************)
(* Instructions.  The clock advances at the end of each, and may reach the *)
(* deadline of one more sleeper; then the processor is polled.             *)
(***************************************************************************)
Finish(s) ==
  \E q \in s.asleep \union {NoProc} :
    m' = IF q = NoProc THEN pollTimers(s)
         ELSE pollTimers([s EXCEPT !.asleep = @ \ {q},
                                   !.late[PriorityOf(q)] = Append(@, q)])

Current == m.cpu.wptr

\* A process of the program, and not a handler, executes.
Executing ==
  /\ m.error = "none" /\ m.cpu.running /\ Current \in Proc
  /\ UNCHANGED kernel

suspendProcess(s) == [s EXCEPT !.cpu.running = FALSE, !.cpu.intdis = FALSE,
                               !.cpu.valid = FALSE]

\* runp, startp
Run(q) ==
  /\ Executing /\ q \in m.stopped
  /\ Finish(TrapOrEnqueue([m EXCEPT !.stopped = @ \ {q}], "RUN", q))

Stop ==
  /\ Executing
  /\ Finish(suspendProcess([m EXCEPT !.stopped = @ \union {Current}]))

Sleep ==
  /\ Executing
  /\ Finish(suspendProcess([m EXCEPT !.asleep = @ \union {Current}]))

AwaitChannel ==
  /\ Executing
  /\ Finish(suspendProcess([m EXCEPT !.channel = @ \union {Current}]))

\* in or out, with the partner q already in the channel
Communicate(q) ==
  /\ Executing /\ q \in m.channel
  /\ Finish(TrapOrEnqueue([m EXCEPT !.channel = @ \ {q}], "INTERNALCH", q))

Wait ==
  /\ Executing
  /\ IF m.count # 0 THEN Finish([m EXCEPT !.count = @ - 1])
     ELSE Finish(suspendProcess([m EXCEPT !.waiters = Append(@, Current)]))

signalSemaphore(s) ==
  IF s.waiters = <<>> THEN [s EXCEPT !.count = @ + 1]
  ELSE TrapOrEnqueue([s EXCEPT !.waiters = Tail(@)], "SIGNAL", Head(s.waiters))

MaySignal == m.waiters # <<>> \/ m.count < MaxCount

Signal == Executing /\ MaySignal /\ Finish(signalSemaphore(m))

\* timesliceProcess, by the timeslice instruction or by checkPeriodicTimeslice
Timeslice ==
  /\ Executing /\ m.queue[m.cpu.prio] # <<>>
  /\ LET q == Current
         s == [m EXCEPT !.cpu.running = FALSE, !.cpu.intdis = FALSE]
     IN  IF "TIMESLICE" \in m.mask[m.cpu.prio]
         THEN Finish(requestTrap(s, "TIMESLICE", m.cpu.prio, q))
         ELSE Finish(enqueueProcess(s, q))

IntDis == Executing /\ m.cpu.prio = Low /\ ~m.cpu.intdis /\ Finish([m EXCEPT !.cpu.intdis = TRUE])
IntEnb == Executing /\ m.cpu.prio = Low /\ m.cpu.intdis /\ Finish([m EXCEPT !.cpu.intdis = FALSE])

\* trapdis of low priority traps, at high priority
TrapDisable ==
  /\ Executing /\ m.cpu.prio = High
  /\ m.mask[Low] \intersect kernel.cleared # {}
  /\ Finish([m EXCEPT !.mask[Low] = @ \ kernel.cleared])

\* prepareProcess: nothing runs, and the clock goes on to the next deadline.
Advance ==
  /\ m.error = "none" /\ ~m.cpu.running /\ m.asleep # {}
  /\ Finish(m)
  /\ UNCHANGED kernel

(***************************************************************************)
(* The kernel, in the handler of priority p: it takes the process it is    *)
(* told of, may put a task it keeps in the place of the trapped process    *)
(* (which it then keeps), or in a ready queue, and returns.  It switches   *)
(* tasks only, never an interrupt handler that signalled.                  *)
(***************************************************************************)
Handling(p) ==
  /\ m.error = "none" /\ m.cpu.running /\ Current = Handler[p]
  /\ UNCHANGED kernel

\* What the trap return will run in the place of the trapped process.
Resumes(s, p, caller) ==
  \/ s.record[p].valid
  \/ caller.running
  \/ s.record[p].wptr # caller.wptr

Keep(p) ==
  /\ Handling(p) /\ m.word[p] # NoProc
  /\ Finish([m EXCEPT !.word[p] = NoProc,
                      !.tasks = IF Last(m.frames).cause = "PROCESS" THEN @
                                ELSE @ \union {m.word[p]}])

SwitchTask(p, q) ==
  LET caller == Last(m.frames).caller IN
  /\ Handling(p) /\ m.word[p] = NoProc
  /\ q \in m.tasks /\ PriorityOf(q) = p /\ caller.prio = p
  /\ caller.wptr \in Proc \union {NoProc}
  /\ Finish([m EXCEPT
               !.record[p].wptr = q, !.record[p].valid = TRUE,
               !.tasks = (@ \ {q}) \union
                  (IF Resumes(m, p, caller) THEN {m.record[p].wptr} ELSE {})])

\* insertReadyQueue puts it at the front.
InsertQueue(p, q) ==
  /\ Handling(p) /\ q \in m.tasks /\ PriorityOf(q) = High
  /\ Finish([m EXCEPT !.tasks = @ \ {q}, !.queue[High] = <<q>> \o @,
                      !.reported[High] = FALSE])

\* Mutant: the enables go to the priority returned to.
ReturnToCaller(s) ==
  LET frame == Last(s.frames)
      caller == frame.caller
  IN  [s EXCEPT !.mask[caller.prio] = s.record[frame.prio].mask,
                !.cpu = caller, !.frames = Front(@)]

returnFromTrap(s) ==
  LET frame == Last(s.frames)
      p == frame.prio
      caller == frame.caller
      cpu == IF caller.prio # p THEN caller
             ELSE [caller EXCEPT !.wptr = s.record[p].wptr,
                                 !.valid = s.record[p].valid,
                                 !.running = Resumes(s, p, caller)]
  IN  [s EXCEPT !.mask[p] = s.record[p].mask,
                !.cpu = cpu,
                !.frames = Front(@),
                !.reported = [x \in Priority |->
                   @[x] /\ ~(cpu.running /\ x = cpu.prio)
                        /\ ~(frame.cause # "QUEUE_EMPTY" /\ x = p)]]

Tret(p) ==
  /\ Handling(p) /\ m.word[p] = NoProc
  /\ interruptHandlerActive(m) => Len(m.frames) > Last(m.irqs).depth
  /\ Finish(returnFromTrap(m))

(***************************************************************************)
(* serviceNativeInterrupt, from the poll of the interrupt controller; an   *)
(* interrupt handler may signal, and returns with iret.                    *)
(***************************************************************************)
Accepted(l) ==
  /\ interruptHandlerActive(m) => l > Last(m.irqs).level
  /\ ~(m.cpu.prio = Low /\ m.cpu.intdis)
  /\ ~(m.cpu.running /\ m.cpu.prio = High /\ ~interruptHandlerActive(m)
         /\ l \in LowOnly)

enterExternalInterrupt(s, l) ==
  LET replace == s.cpu.running /\ s.cpu.prio = Low
  IN  [s EXCEPT
         !.irqs = Append(@, [level |-> l, replaced |-> replace, depth |-> Len(s.frames),
                             previous |-> s.shadow, wasValid |-> s.shadowValid,
                             caller |-> s.cpu]),
         !.shadow = IF replace THEN s.cpu ELSE @,
         !.shadowValid = @ \/ replace,
         !.cpu = Running(Vector[l], High)]

Interrupt(l) ==
  /\ m.error = "none" /\ l \in kernel.levels /\ Accepted(l)
  /\ m' = pollTimers(enterExternalInterrupt(m, l))
  /\ UNCHANGED kernel

InInterrupt ==
  /\ m.error = "none" /\ interruptHandlerActive(m) /\ m.cpu.running
  /\ Current = Vector[Last(m.irqs).level]
  /\ UNCHANGED kernel

InterruptSignal == InInterrupt /\ MaySignal /\ Finish(signalSemaphore(m))

ResumeBank(s, frame) ==
  CASE frame.caller.running /\ frame.caller.prio = High ->
         [s EXCEPT !.cpu = [frame.caller EXCEPT !.valid = TRUE, !.intdis = FALSE]]
    [] ~(frame.caller.running /\ frame.caller.prio = High) /\ s.shadowValid ->
         [s EXCEPT !.cpu = s.shadow, !.shadowValid = FALSE]
    [] OTHER ->
         [s EXCEPT !.cpu = IF frame.caller.prio = Low THEN frame.caller ELSE Idle(Low)]

\* Mutant: the process preempted before the interrupt is forgotten.
ForgetShadow(s) == [ResumeBank(s, Last(s.irqs)) EXCEPT !.irqs = Front(@)]

returnFromInterrupt(s) ==
  LET frame == Last(s.irqs)
      t == ResumeBank(s, frame)
  IN  [t EXCEPT !.irqs = Front(@),
                !.shadow = IF frame.replaced THEN frame.previous ELSE @,
                !.shadowValid = IF frame.replaced THEN frame.wasValid ELSE @]

Iret ==
  /\ InInterrupt /\ Len(m.frames) = Last(m.irqs).depth
  /\ Finish(returnFromInterrupt(m))

Next ==
  \/ \E q \in Proc : Run(q) \/ Communicate(q)
  \/ Stop \/ Sleep \/ AwaitChannel \/ Wait \/ Signal \/ Timeslice
  \/ IntDis \/ IntEnb \/ TrapDisable \/ Advance
  \/ \E p \in Priority : Keep(p) \/ Tret(p)
  \/ \E p \in Priority, q \in Proc : SwitchTask(p, q) \/ InsertQueue(p, q)
  \/ \E l \in Level : Interrupt(l)
  \/ InterruptSignal \/ Iret

Spec == Init /\ [][Next]_vars
-----------------------------------------------------------------------------
TypeOK ==
  /\ kernel \in Kernels
  /\ m.cpu \in Bank /\ m.shadow \in Bank /\ m.shadowValid \in BOOLEAN
  /\ m.queue \in [Priority -> Seq(Proc)] /\ m.late \in [Priority -> Seq(Proc)]
  /\ m.mask \in [Priority -> SUBSET Causes]
  /\ m.word \in [Priority -> Proc \union {NoProc}]
  /\ m.reported \in [Priority -> BOOLEAN]
  /\ m.pendingTimer \in Proc \union {NoProc}
  /\ m.asleep \union m.channel \union m.tasks \union m.stopped \subseteq Proc
  /\ m.waiters \in Seq(Proc) /\ m.count \in 0 .. MaxCount

(***************************************************************************)
(* No process is lost or runs twice: however traps defer, preempt, nest in *)
(* interrupts and switch tasks, each is in exactly one place.              *)
(***************************************************************************)
Times(q, s) == Cardinality({i \in DOMAIN s : s[i] = q})
One(b) == IF b THEN 1 ELSE 0

\* The process of a frame is where its return will find it.
InFrame(s, q, frame) ==
  IF frame.caller.prio # frame.prio
  THEN frame.caller.running /\ frame.caller.wptr = q
  ELSE Resumes(s, frame.prio, frame.caller) /\ s.record[frame.prio].wptr = q

InIrq(q, irq) ==
  \/ irq.caller.running /\ irq.caller.prio = High /\ irq.caller.wptr = q
  \/ irq.replaced /\ irq.wasValid /\ irq.previous.wptr = q

\* The descriptor of a PROCESS trap names the trapped process itself.
InWord(s, q, p) ==
  /\ s.word[p] = q
  /\ \A i \in DOMAIN s.frames :
       s.frames[i].prio = p => s.frames[i].cause # "PROCESS"

Places(s, q) ==
  One(s.cpu.running /\ s.cpu.wptr = q) + One(s.shadowValid /\ s.shadow.wptr = q)
  + Times(q, s.queue[PriorityOf(q)]) + Times(q, s.late[PriorityOf(q)])
  + Times(q, s.waiters) + One(s.pendingTimer = q)
  + Cardinality({i \in DOMAIN s.pendingLow : s.pendingLow[i].proc = q})
  + Cardinality({i \in DOMAIN s.frames : InFrame(s, q, s.frames[i])})
  + Cardinality({i \in DOMAIN s.irqs : InIrq(q, s.irqs[i])})
  + Cardinality({p \in Priority : InWord(s, q, p)})
  + One(q \in s.asleep) + One(q \in s.channel) + One(q \in s.tasks)
  + One(q \in s.stopped)

ExactlyOnePlace ==
  /\ TypeOK
  /\ m.error = "none" => \A q \in Proc : Places(m, q) = 1

(***************************************************************************)
(* With a handler that masks its own group, no operation, no deferred trap *)
(* and no interrupt asks for a trap whose handler is active.               *)
(***************************************************************************)
NeverReentered ==
  (\A p \in Priority : kernel.handlerMask[p] = {}) => m.error = "none"

(***************************************************************************)
(* The enables of a priority are what the program set whenever none of its *)
(* handlers is active, whichever priority was trapped and whatever came in *)
(* between.                                                                *)
(***************************************************************************)
MasksRestored ==
  \A p \in Priority :
    (\A i \in DOMAIN m.frames : m.frames[i].prio # p) =>
      m.mask[p] \in {kernel.mask[p],
                     IF p = Low THEN kernel.mask[p] \ kernel.cleared ELSE kernel.mask[p]}

(***************************************************************************)
(* A scheduler trap of low priority that is about its own tasks traps low  *)
(* priority: the kernel would lose what high priority was doing.           *)
(***************************************************************************)
OwnTrapsAtOwnPriority ==
  \A i \in DOMAIN m.frames :
    m.frames[i].prio = Low /\ m.frames[i].cause # "INTERNALCH" =>
      m.frames[i].caller.prio = Low

(***************************************************************************)
(* A poll leaves nothing undone.  When the processor has nothing to run    *)
(* between two instructions, nothing is ready, preempted, put off or due,  *)
(* and an enabled QueueEmpty trap has been taken.  And when schedulerQuiet *)
(* lets the fast path skip the polls up to the next deadline, the only     *)
(* thing they could have done is to take what is left of several deferred  *)
(* traps: low priority already runs, no handler is active, and high        *)
(* priority has changed the enables since the first was put off.           *)
(***************************************************************************)
RestDeferred ==
  /\ m.pendingLow # <<>> /\ m.mask[Low] # kernel.mask[Low]
  /\ m.cpu.running /\ m.cpu.prio = Low /\ ~HandlersActive(m)

NothingLeftUndone ==
  m.error = "none" =>
    /\ ~m.cpu.running =>
         /\ m.queue[High] = <<>> /\ m.queue[Low] = <<>> /\ ~m.shadowValid
         /\ m.pendingLow = <<>> /\ m.pendingTimer = NoProc
         /\ m.late[High] = <<>> /\ m.late[Low] = <<>>
         /\ ~MayReport(m, Low) /\ ~MayReport(m, m.cpu.prio)
    /\ schedulerQuiet(m) /\ pollTimers(m) # m => RestDeferred

(***************************************************************************)
(* What the comment at src/core/cpu/st20.cpp:2469 says of schedulerQuiet:  *)
(* it is "the scheduler state in which pollTimers has nothing to do".      *)
(***************************************************************************)
QuietHasNothingToDo ==
  m.error = "none" /\ schedulerQuiet(m) => pollTimers(m) = m

(***************************************************************************)
(* What docs/instruction-status.md:377 says of a timer trap: while the     *)
(* handler runs it "stays set and is taken after its return", "instead of  *)
(* bypassing the kernel through the ready queue".                          *)
(***************************************************************************)
TimerTrapNeverBypassed ==
  [][\A q \in LowProc :
       m.pendingTimer = q /\ "TIMER" \in kernel.mask[Low] =>
         Times(q, m'.queue[Low]) = 0]_vars
==============================================================================
