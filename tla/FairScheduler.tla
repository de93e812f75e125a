---------------------------- MODULE FairScheduler ----------------------------
(***************************************************************************)
(* Scheduler under the fairness its execution loop and a well behaved      *)
(* program give it, for the progress it promises.                          *)
(*                                                                         *)
(* The program has enabled preemption and timeslicing (gintenb), leaves    *)
(* both enabled, and does not move queues about.  It may disable           *)
(* interrupts, and then enables them again.                                *)
(***************************************************************************)
EXTENDS Scheduler

FairInit == InitWith([e \in Enable |-> TRUE])

Instruction ==
  \/ Compute
  \/ \E d \in Descriptor : RunP(d)
  \/ StopP
  \/ Tin
  \/ Timeslice
  \/ Jump
  \/ \E b \in BOOLEAN : SetInterruptsDisabled(b)
  \/ \E s \in Sem : Wait(s) \/ Signal(s)

FairNext ==
  \/ \E ticks \in 0 .. 1 : BeginStep(ticks)
  \/ \E d \in Descriptor : Release(d)
  \/ IdlePoll
  \/ Instruction

\* runInstructions executes one instruction after another, and every one adds
\* cycles to the clocks, so the millisecond ticks keep coming.
Execution ==
  /\ WF_vars(\E ticks \in 0 .. 1 : BeginStep(ticks))
  /\ WF_vars(Instruction)
  /\ WF_vars(IdlePoll)
  /\ SF_vars(BeginStep(1))

\* A low priority process that goes on computing comes to a j, the timeslicing
\* point of a loop, when no high priority process has just been released; one
\* that disabled interrupts enables them; a high priority process ends its turn.
Program ==
  /\ SF_vars(QuantumExpired /\ Jump)
  /\ SF_vars(SetInterruptsDisabled(FALSE))
  /\ SF_vars(cpu.priority = HIGH_PRIORITY /\ (Tin \/ StopP))

FairSpec == FairInit /\ [][FairNext]_vars /\ Execution /\ Program

------------------------------------------------------------------------------
Runs(w, p) == cpu.running /\ cpu.wptr = w /\ cpu.priority = p

Waits(w, p) == \E i \in 1 .. Len(order[p]) : order[p][i] = w

\* Every ready high priority process gets the processor, past any others that
\* were ready before it and any low priority process.
HighServed ==
  \A w \in Proc : Waits(w, HIGH_PRIORITY) ~> Runs(w, HIGH_PRIORITY)

\* Timeslicing shares the low priority: if high priority keeps leaving time
\* for low priority, every ready low priority process gets the processor.
LowServed ==
  []<>(cpu.running /\ cpu.priority = LOW_PRIORITY)
    => \A w \in Proc : Waits(w, LOW_PRIORITY) ~> Runs(w, LOW_PRIORITY)

\* The processes that high priority has in hand.
HighAwake ==
  {w \in Proc : Waits(w, HIGH_PRIORITY) \/ Runs(w, HIGH_PRIORITY)}

\* Once no more processes become ready at high priority, those that are end their
\* turns, however they rotate, and the process that was interrupted gets the
\* processor: no other low priority process takes its place for good.
InterruptedServed ==
  <>[][HighAwake' \subseteq HighAwake]_vars
    => \A w \in Proc :
         (shadow # NoShadow /\ shadow.wptr = w) ~> Runs(w, LOW_PRIORITY)
==============================================================================
