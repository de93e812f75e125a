----------------------------- MODULE TrapsProofs -----------------------------
(***************************************************************************)
(* Proofs about Traps and Snapshots, for any number of processes and any   *)
(* levels of interrupts, and every way to set up the traps.                *)
(*                                                                         *)
(* The inductive invariant Good describes the processor between two        *)
(* operations: the handlers form one stack, in which every frame says what *)
(* ran below it (Stack), the process that high priority preempted is put   *)
(* aside beneath it (PutAside), and the record and the enables of each     *)
(* active handler are those its return needs (Records, Masks, Masked).     *)
(* Every operation keeps it, and every step ends with a poll, of which     *)
(* Polled says more: it has left nothing undone.                           *)
(***************************************************************************)
EXTENDS Snapshots, SequenceTheorems, FiniteSetTheorems, Integers, TLAPS

\* The processes of a priority.
Of(p) == {q \in Proc : PriorityOf(q) = p}

\* What pushing a trap handler or an interrupt handler saves.
Frame == [cause : Causes, prio : Priority, caller : Bank]
Irq == [level : Level, replaced : BOOLEAN, depth : Nat, previous : Bank,
        wasValid : BOOLEAN, caller : Bank]

\* The types of the processor's fields, the empty list of deferred traps included.
Processor ==
  [cpu : Bank, shadow : Bank, shadowValid : BOOLEAN,
   queue : [Priority -> Seq(Proc)], mask : [Priority -> SUBSET Causes],
   frames : Seq(Frame),
   record : [Priority -> [mask : SUBSET Causes, wptr : Workspace, valid : BOOLEAN]],
   word : [Priority -> Proc \union {NoProc}], reported : [Priority -> BOOLEAN],
   pendingTimer : Proc \union {NoProc},
   pendingLow : Seq([cause : {"RUN", "SIGNAL"}, proc : LowProc]),
   irqs : Seq(Irq),
   asleep : SUBSET Proc, late : [Priority -> Seq(Proc)],
   channel : SUBSET Proc, waiters : Seq(Proc), count : 0 .. MaxCount,
   tasks : SUBSET Proc, stopped : SUBSET Proc, error : {"none", "TRAP_REENTRY"}]

\* A ready queue and a list of due processes hold processes of their own priority.
ListsByPriority(s) ==
  \A p \in Priority : s.queue[p] \in Seq(Of(p)) /\ s.late[p] \in Seq(Of(p))

\* A process, or nothing, and no handler.
OfProgram(c) ==
  /\ c.wptr \in Proc \union {NoProc}
  /\ c.running => c.wptr \in Of(c.prio)

\* What runs when f trap frames and n interrupt frames are there.
OnTop(frames, irqs, f, n, c) ==
  IF n > 0 /\ irqs[n].depth = f
  THEN c.running /\ c.prio = High /\ c.wptr = Vector[irqs[n].level]
  ELSE IF f > 0
  THEN c.running /\ c.prio = frames[f].prio /\ c.wptr = Handler[frames[f].prio]
  ELSE OfProgram(c)

\* One trap handler for each priority; interrupts of rising levels, each over the trap
\* handlers that were there; over an interrupt, trap handlers of high priority only.
Nested(frames, irqs) ==
  /\ \A i, j \in 1 .. Len(frames) : i # j => frames[i].prio # frames[j].prio
  /\ \A i \in 1 .. Len(irqs) : irqs[i].depth <= Len(frames)
  /\ \A i, j \in 1 .. Len(irqs) :
       i < j => irqs[i].level < irqs[j].level /\ irqs[i].depth <= irqs[j].depth
  /\ \A i \in 1 .. Len(frames), j \in 1 .. Len(irqs) :
       irqs[j].depth < i => frames[i].prio = High

\* Each frame's caller is what ran when the frame was pushed.
Callers(frames, irqs) ==
  /\ \A i \in 1 .. Len(irqs) : OnTop(frames, irqs, irqs[i].depth, i - 1, irqs[i].caller)
  /\ \A i \in 1 .. Len(frames), n \in 0 .. Len(irqs) :
       /\ n > 0 => irqs[n].depth < i
       /\ n < Len(irqs) => irqs[n + 1].depth >= i
       => OnTop(frames, irqs, i - 1, n, frames[i].caller)

\* The handlers form one stack, with what runs on top of it.
Stack(s) ==
  /\ Nested(s.frames, s.irqs) /\ Callers(s.frames, s.irqs)
  /\ OnTop(s.frames, s.irqs, Len(s.frames), Len(s.irqs), s.cpu)

\* The process at the bottom, below all handlers.
Bottom(s) ==
  IF s.irqs # <<>> /\ s.irqs[1].depth = 0 THEN s.irqs[1].caller
  ELSE IF s.frames # <<>> THEN s.frames[1].caller ELSE s.cpu

\* An interrupt that came in on low priority keeps its bank in the shadow.
Replaced(s) == s.irqs # <<>> /\ s.irqs[1].replaced

\* The registers of low priority, behind an interrupt that has replaced them.
LowBank(s) == IF Replaced(s) THEN s.irqs[1].previous ELSE s.shadow
LowBankValid(s) == IF Replaced(s) THEN s.irqs[1].wasValid ELSE s.shadowValid

\* What is put aside is a low priority process that high priority preempted, below all
\* handlers, and an interrupt of low priority keeps it in its frame.
PutAside(s) ==
  /\ LowBank(s).prio = Low /\ OfProgram(LowBank(s))
  /\ LowBankValid(s) => LowBank(s).running /\ Bottom(s).prio = High
  /\ \A i \in 1 .. Len(s.irqs) :
       s.irqs[i].replaced <=> s.irqs[i].caller.running /\ s.irqs[i].caller.prio = Low
  /\ Replaced(s) => s.shadowValid /\ s.shadow = s.irqs[1].caller

\* Restored is what the return from frame f makes of its caller.
RecordOf(f, r) ==
  \/ r.wptr = f.caller.wptr /\ (r.valid => f.caller.running)
  \/ f.caller.prio = f.prio /\ OfProgram(f.caller) /\ r.valid /\ r.wptr \in Of(f.prio)

\* A trap handler of priority p is active.
Active(s, p) == \E i \in 1 .. Len(s.frames) : s.frames[i].prio = p

\* The trapped process records of the active handlers; no handler, no descriptor left.
Records(s) ==
  /\ \A i \in 1 .. Len(s.frames) : RecordOf(s.frames[i], s.record[s.frames[i].prio])
  /\ \A p \in Priority : ~Active(s, p) => s.word[p] = NoProc

\* The enables that a program can have set.
Enables(k, p) == {k.mask[p], IF p = Low THEN k.mask[p] \ k.cleared ELSE k.mask[p]}

\* A handler's record holds what the program set; a trap is put off when it is enabled.
Masks(k, s) ==
  /\ \A p \in Priority :
       IF Active(s, p) THEN s.record[p].mask \in Enables(k, p) ELSE s.mask[p] \in Enables(k, p)
  /\ \A i \in 1 .. Len(s.pendingLow) : s.pendingLow[i].cause \in k.mask[Low]

\* Handlers that mask their own group run with all of it masked.
Masked(k, s) ==
  (\A p \in Priority : k.handlerMask[p] = {}) =>
    /\ s.error = "none"
    /\ \A p \in Priority : Active(s, p) => s.mask[p] = {}

\* Of the frames, what OwnTrapsAtOwnPriority says.
OwnTraps(s) ==
  \A i \in 1 .. Len(s.frames) :
    s.frames[i].prio = Low /\ s.frames[i].cause # "INTERNALCH" => s.frames[i].caller.prio = Low

\* The inductive invariant, of a kernel k and a processor s.
Good(k, s) ==
  /\ s \in Processor /\ ListsByPriority(s) /\ Stack(s) /\ PutAside(s) /\ Records(s)
  /\ Masks(k, s) /\ Masked(k, s) /\ OwnTraps(s)

-----------------------------------------------------------------------------
\* The last of a sequence, and the rest.
LEMMA FrontAndLast ==
  ASSUME NEW S, NEW q \in Seq(S), q # <<>>
  PROVE  /\ Len(q) \in Nat /\ Len(q) > 0
         /\ Last(q) = q[Len(q)] /\ Last(q) \in S
         /\ Front(q) \in Seq(S) /\ Len(Front(q)) = Len(q) - 1
         /\ \A i \in 1 .. (Len(q) - 1) : Front(q)[i] = q[i]
<1>1. Len(q) \in Nat /\ Len(q) > 0
  BY EmptySeq, LenProperties
<1>2. Last(q) = q[Len(q)] /\ Last(q) \in S
  <2>1. Len(q) \in 1 .. Len(q)
    BY <1>1
  <2> QED BY <2>1, ElementOfSeq DEF Last
<1>3. 1 \in 1 .. Len(q) + 1 /\ Len(q) - 1 \in 1 - 1 .. Len(q)
  BY <1>1
<1>4. /\ Front(q) \in Seq(S)
      /\ Len(Front(q)) = IF 1 <= Len(q) - 1 THEN (Len(q) - 1) - 1 + 1 ELSE 0
      /\ \A i \in 1 .. (Len(q) - 1) - 1 + 1 : Front(q)[i] = q[1 + i - 1]
  BY <1>3, SubSeqProperties DEF Front
<1>5. Len(Front(q)) = Len(q) - 1
  <2> DEFINE n == Len(q)
             f == Len(Front(q))
  <2>1. n \in Nat /\ n > 0 /\ f = IF 1 <= n - 1 THEN (n - 1) - 1 + 1 ELSE 0
    BY <1>1, <1>4
  <2> HIDE DEF n, f
  <2>2. f = n - 1
    BY <2>1, SMT
  <2> QED BY <2>2 DEF n, f
<1>6. ASSUME NEW i \in 1 .. (Len(q) - 1) PROVE Front(q)[i] = q[i]
  <2>1. i \in 1 .. (Len(q) - 1) - 1 + 1 /\ 1 + i - 1 = i
    BY <1>1
  <2> QED BY <1>4, <2>1
<1> QED BY <1>1, <1>2, <1>4, <1>5, <1>6

\* The trap frames and interrupt frames are those of the sequence types.
LEMMA FrameTypes ==
  ASSUME NEW s \in Processor
  PROVE  /\ s.frames \in Seq(Frame) /\ s.irqs \in Seq(Irq)
         /\ Len(s.frames) \in Nat /\ Len(s.irqs) \in Nat
         /\ s.frames = <<>> <=> Len(s.frames) = 0
         /\ s.irqs = <<>> <=> Len(s.irqs) = 0
         /\ DOMAIN s.frames = 1 .. Len(s.frames) /\ DOMAIN s.irqs = 1 .. Len(s.irqs)
         /\ \A i \in 1 .. Len(s.frames) : s.frames[i] \in Frame
         /\ \A i \in 1 .. Len(s.irqs) : s.irqs[i] \in Irq
<1>1. s.frames \in Seq(Frame) /\ s.irqs \in Seq(Irq)
  BY DEF Processor
<1>2. /\ Len(s.frames) \in Nat /\ (s.frames = <<>> <=> Len(s.frames) = 0)
      /\ DOMAIN s.frames = 1 .. Len(s.frames)
      /\ \A i \in 1 .. Len(s.frames) : s.frames[i] \in Frame
  BY <1>1, EmptySeq, LenProperties, ElementOfSeq
<1>3. /\ Len(s.irqs) \in Nat /\ (s.irqs = <<>> <=> Len(s.irqs) = 0)
      /\ DOMAIN s.irqs = 1 .. Len(s.irqs)
      /\ \A i \in 1 .. Len(s.irqs) : s.irqs[i] \in Irq
  BY <1>1, EmptySeq, LenProperties, ElementOfSeq
<1> QED BY <1>1, <1>2, <1>3

\* What has to do with handlers.
SameHandlers(s, t) ==
  /\ t.frames = s.frames /\ t.irqs = s.irqs /\ t.record = s.record /\ t.word = s.word
  /\ t.mask = s.mask /\ t.pendingLow = s.pendingLow /\ t.error = s.error

\* The banks stay.
SameBanks(s, t) == t.cpu = s.cpu /\ t.shadow = s.shadow /\ t.shadowValid = s.shadowValid

\* An operation that only moves processes between the lists keeps the invariant.
LEMMA ListsChange ==
  ASSUME NEW s, Good(kernel, s), NEW t \in Processor, ListsByPriority(t),
         SameHandlers(s, t), SameBanks(s, t)
  PROVE  Good(kernel, t)
  BY DEF Good, SameHandlers, SameBanks, Stack, PutAside, Records, Masks, Masked, OwnTraps,
         Active, Bottom, Replaced, LowBank, LowBankValid

\* So does one that, below all handlers, changes what runs and what is put aside.
LEMMA BanksChange ==
  ASSUME NEW s, Good(kernel, s), s.frames = <<>>, s.irqs = <<>>,
         NEW t \in Processor, ListsByPriority(t), SameHandlers(s, t),
         OfProgram(t.cpu), OfProgram(t.shadow), t.shadow.prio = Low,
         t.shadowValid => t.shadow.running /\ t.cpu.prio = High
  PROVE  Good(kernel, t)
<1>1. /\ t.frames = <<>> /\ t.irqs = <<>> /\ Len(t.frames) = 0 /\ Len(t.irqs) = 0
      /\ 1 .. Len(t.frames) = {} /\ 1 .. Len(t.irqs) = {}
  BY EmptySeq DEF SameHandlers
<1>2. Stack(t)
  BY <1>1 DEF Good, Stack, Nested, Callers, OnTop, SameHandlers
<1>3. PutAside(t)
  BY <1>1 DEF PutAside, Bottom, Replaced, LowBank, LowBankValid
<1> QED BY <1>2, <1>3 DEF Good, SameHandlers, Records, Masks, Masked, OwnTraps, Active

\* A process joins a list of its priority.
LEMMA EnqueueKeeps ==
  ASSUME NEW s, Good(kernel, s), NEW q \in Proc
  PROVE  /\ Good(kernel, enqueueProcess(s, q))
         /\ SameHandlers(s, enqueueProcess(s, q)) /\ SameBanks(s, enqueueProcess(s, q))
<1> DEFINE p == PriorityOf(q)
           t == enqueueProcess(s, q)
<1>1. s \in Processor /\ p \in Priority /\ q \in Of(p)
  BY DEF Good, PriorityOf, Priority, Of
<1>2. s.queue[p] \in Seq(Of(p)) /\ s.queue[p] \in Seq(Proc)
  BY <1>1 DEF Good, ListsByPriority, Processor
<1>3. Append(s.queue[p], q) \in Seq(Of(p)) /\ Append(s.queue[p], q) \in Seq(Proc)
  BY <1>1, <1>2, AppendProperties
<1>4. t = [s EXCEPT !.queue[p] = Append(@, q), !.reported[p] = FALSE]
  BY DEF enqueueProcess
<1> HIDE DEF p, t
<1>5. /\ t \in Processor /\ SameHandlers(s, t) /\ SameBanks(s, t)
      /\ t.queue = [s.queue EXCEPT ![p] = Append(@, q)] /\ t.late = s.late
  BY <1>1, <1>3, <1>4 DEF Processor, SameHandlers, SameBanks
<1>6. ListsByPriority(t)
  BY <1>1, <1>3, <1>5 DEF ListsByPriority, Good, Processor
<1>7. Good(kernel, t)
  BY <1>5, <1>6, ListsChange
<1> QED BY <1>5, <1>7 DEF t

-----------------------------------------------------------------------------
\* An interrupt handler, and the trap handler over it, run at high priority.
LEMMA InterruptsAreHigh ==
  ASSUME NEW s, Good(kernel, s), s.irqs # <<>>
  PROVE  s.cpu.prio = High /\ s.cpu.running
<1> DEFINE f == Len(s.frames)
           n == Len(s.irqs)
<1>1. /\ s \in Processor /\ f \in Nat /\ n \in Nat /\ n > 0
      /\ OnTop(s.frames, s.irqs, f, n, s.cpu)
      /\ s.irqs[n].depth <= f /\ s.irqs[n].depth \in Nat
      /\ \A i \in 1 .. f : s.irqs[n].depth < i => s.frames[i].prio = High
  <2>1. s \in Processor /\ Stack(s)
    BY DEF Good
  <2>2. /\ f \in Nat /\ n \in Nat /\ n > 0 /\ n \in 1 .. n /\ s.irqs[n] \in Irq
    BY <2>1, FrameTypes
  <2> HIDE DEF f, n
  <2> QED BY <2>1, <2>2 DEF Stack, Nested, f, n, Irq
<1> HIDE DEF f, n
<1>2. CASE s.irqs[n].depth = f
  BY <1>1, <1>2 DEF OnTop
<1>3. CASE s.irqs[n].depth < f
  BY <1>1, <1>3 DEF OnTop
<1> QED BY <1>1, <1>2, <1>3

\* The handler of a trap is put on top of what runs.
LEMMA PushFrame ==
  ASSUME NEW s \in Processor, Stack(s), NEW f \in Frame, f.caller = s.cpu,
         ~Active(s, f.prio), f.prio = Low => s.irqs = <<>>,
         NEW frames, frames = Append(s.frames, f),
         NEW c, c.running, c.prio = f.prio, c.wptr = Handler[f.prio]
  PROVE  /\ Nested(frames, s.irqs) /\ Callers(frames, s.irqs)
         /\ OnTop(frames, s.irqs, Len(frames), Len(s.irqs), c)
<1> DEFINE n == Len(s.frames)
           r == Len(s.irqs)
<1>1. /\ n \in Nat /\ r \in Nat /\ frames \in Seq(Frame) /\ Len(frames) = n + 1
      /\ \A i \in 1 .. n : frames[i] = s.frames[i] /\ frames[i] \in Frame
      /\ frames[n + 1] = f
      /\ \A i \in 1 .. r : s.irqs[i].depth \in Nat
      /\ s.irqs = <<>> <=> r = 0
  BY FrameTypes, AppendProperties DEF Irq
<1>2. Nested(s.frames, s.irqs) /\ Callers(s.frames, s.irqs)
      /\ OnTop(s.frames, s.irqs, n, r, s.cpu)
  BY DEF Stack
<1>3. \A i \in 1 .. n : frames[i].prio # f.prio
  BY <1>1 DEF Active
<1>4. f.prio = Low => r = 0
  BY <1>1
<1>5. f.prio \in {High, Low}
  BY DEF Frame, Priority
<1>6. ASSUME NEW g \in 0 .. n, NEW k \in 0 .. r, NEW b
      PROVE  OnTop(frames, s.irqs, g, k, b) <=> OnTop(s.frames, s.irqs, g, k, b)
  BY <1>1 DEF OnTop
<1> HIDE DEF n, r
<1>7. Nested(frames, s.irqs)
  <2>1. \A i, j \in 1 .. n + 1 : i # j => frames[i].prio # frames[j].prio
    <3>1. \A i \in 1 .. n + 1 : i \in 1 .. n \/ i = n + 1
      BY <1>1
    <3>2. \A i, j \in 1 .. n : i # j => frames[i].prio # frames[j].prio
      BY <1>1, <1>2 DEF Nested, n
    <3> QED BY <1>1, <1>3, <3>1, <3>2
  <2>2. \A i \in 1 .. r : s.irqs[i].depth <= n + 1
    BY <1>1, <1>2 DEF Nested, n, r
  <2>3. \A i \in 1 .. n + 1, j \in 1 .. r : s.irqs[j].depth < i => frames[i].prio = High
    <3>1. \A i \in 1 .. n, j \in 1 .. r : s.irqs[j].depth < i => frames[i].prio = High
      BY <1>1, <1>2 DEF Nested, n, r
    <3>2. r # 0 => f.prio = High
      BY <1>4, <1>5
    <3>3. \A i \in 1 .. n + 1 : i \in 1 .. n \/ i = n + 1
      BY <1>1
    <3>4. \A j \in 1 .. r : r # 0
      BY <1>1
    <3> QED BY <1>1, <3>1, <3>2, <3>3, <3>4
  <2> QED BY <1>1, <1>2, <2>1, <2>2, <2>3 DEF Nested, n, r
<1>8. Callers(frames, s.irqs)
  <2>1. ASSUME NEW i \in 1 .. r
        PROVE  OnTop(frames, s.irqs, s.irqs[i].depth, i - 1, s.irqs[i].caller)
    <3>1. OnTop(s.frames, s.irqs, s.irqs[i].depth, i - 1, s.irqs[i].caller)
      BY <1>2 DEF Callers, r
    <3>2. s.irqs[i].depth \in 0 .. n /\ i - 1 \in 0 .. r
      BY <1>1, <1>2 DEF Nested, n, r
    <3> QED BY <1>6, <3>1, <3>2
  <2>2. ASSUME NEW i \in 1 .. n + 1, NEW k \in 0 .. r,
               k > 0 => s.irqs[k].depth < i,
               k < r => s.irqs[k + 1].depth >= i
        PROVE  OnTop(frames, s.irqs, i - 1, k, frames[i].caller)
    <3>1. CASE i \in 1 .. n
      <4>1. OnTop(s.frames, s.irqs, i - 1, k, s.frames[i].caller)
        BY <1>2, <2>2, <3>1 DEF Callers, n, r
      <4>2. i - 1 \in 0 .. n
        BY <1>1, <3>1
      <4> QED BY <1>1, <1>6, <3>1, <4>1, <4>2
    <3>2. CASE i = n + 1
      <4>1. k = r
        <5>1. SUFFICES ASSUME k < r PROVE FALSE
          BY <1>1
        <5>2. k + 1 \in 1 .. r
          BY <1>1, <5>1
        <5>3. s.irqs[k + 1].depth <= n
          BY <5>2, <1>2 DEF Nested, n, r
        <5> QED BY <1>1, <2>2, <3>2, <5>1, <5>2, <5>3
      <4>2. n \in 0 .. n /\ r \in 0 .. r /\ i - 1 = n
        BY <1>1, <3>2
      <4>3. OnTop(frames, s.irqs, n, r, s.cpu)
        BY <1>2, <1>6, <4>2
      <4> QED BY <1>1, <3>2, <4>1, <4>2, <4>3
    <3>3. i \in 1 .. n \/ i = n + 1
      BY <1>1
    <3> QED BY <3>1, <3>2, <3>3
  <2> QED BY <1>1, <2>1, <2>2 DEF Callers, r
<1>9. OnTop(frames, s.irqs, n + 1, r, c)
  <2>1. r > 0 => s.irqs[r].depth <= n /\ s.irqs[r].depth \in Nat
    <3>1. r > 0 => r \in 1 .. r
      BY <1>1
    <3> QED BY <3>1, <1>1, <1>2 DEF Nested, n, r
  <2> QED BY <1>1, <2>1 DEF OnTop
<1> QED BY <1>1, <1>7, <1>8, <1>9 DEF n, r

\* What a handler needs to be entered for a cause: low priority is not trapped over
\* an interrupt, nor high priority trapped for what low priority has done.
MayEnter(s, cause, p) ==
  /\ ~Active(s, p)
  /\ p = Low => s.irqs = <<>>
  /\ p = Low /\ cause # "INTERNALCH" => s.cpu.prio = Low

\* The frame, record, descriptor and enables of a trap that is entered.
TrapFrame(s, cause, p) == [cause |-> cause, prio |-> p, caller |-> s.cpu]
TrapRecord(s, p) ==
  [mask |-> s.mask[p], wptr |-> s.cpu.wptr, valid |-> s.cpu.valid /\ s.cpu.running]
TrapWord(s, p, q) == IF q = NoProc THEN s.word[p] ELSE q
TrapMask(s, p) == s.mask[p] \intersect kernel.handlerMask[p]

\* What the operations of a process at the semaphore, in a list and in a channel are on.
SamePlaces(s, t) ==
  /\ t.late = s.late /\ t.pendingTimer = s.pendingTimer /\ t.asleep = s.asleep
  /\ t.channel = s.channel /\ t.waiters = s.waiters /\ t.count = s.count
  /\ t.tasks = s.tasks /\ t.stopped = s.stopped

\* What the entry to a handler changes.
Entered(s, cause, p, q, t) ==
  LET f == TrapFrame(s, cause, p)
  IN  /\ t \in Processor /\ f \in Frame
      /\ t.record = [s.record EXCEPT ![p] = TrapRecord(s, p)]
      /\ t.word = [s.word EXCEPT ![p] = TrapWord(s, p, q)]
      /\ t.frames = Append(s.frames, f) /\ Len(t.frames) = Len(s.frames) + 1
      /\ \A i \in 1 .. Len(s.frames) : t.frames[i] = s.frames[i]
      /\ t.frames[Len(s.frames) + 1] = f
      /\ t.mask = [s.mask EXCEPT ![p] = TrapMask(s, p)]
      /\ t.cpu.wptr = Handler[p] /\ t.cpu.prio = p /\ t.cpu.running
      /\ t.irqs = s.irqs /\ t.shadow = s.shadow /\ t.shadowValid = s.shadowValid
      /\ t.queue = s.queue /\ t.pendingLow = s.pendingLow /\ t.error = s.error
      /\ t.reported = s.reported /\ SamePlaces(s, t)

\* EnterTrap, field by field.
LEMMA EnterTrapIs ==
  ASSUME NEW s \in Processor, NEW cause \in Causes, NEW p \in Priority,
         NEW q \in Proc \union {NoProc}
  PROVE  Entered(s, cause, p, q, EnterTrap(s, cause, p, q))
<1> DEFINE t == EnterTrap(s, cause, p, q)
           f == TrapFrame(s, cause, p)
           n == Len(s.frames)
<1>1. /\ s.cpu \in Bank /\ f \in Frame /\ Handler[p] \in Workspace
      /\ s.frames \in Seq(Frame) /\ n \in Nat
  <2>1. s.cpu \in Bank
    BY DEF Processor
  <2>2. n \in Nat /\ s.frames \in Seq(Frame)
    BY FrameTypes
  <2> QED BY <2>1, <2>2 DEF Frame, Workspace, TrapFrame
<1>2. /\ Append(s.frames, f) \in Seq(Frame) /\ Len(Append(s.frames, f)) = n + 1
      /\ \A i \in 1 .. n : Append(s.frames, f)[i] = s.frames[i]
      /\ Append(s.frames, f)[n + 1] = f
  BY <1>1, AppendProperties
<1> DEFINE c == [s.cpu EXCEPT !.wptr = Handler[p], !.prio = p, !.running = TRUE, !.valid = FALSE]
           r == TrapRecord(s, p)
           w == TrapWord(s, p, q)
           e == TrapMask(s, p)
<1>3. c \in Bank /\ c.wptr = Handler[p] /\ c.prio = p /\ c.running
  BY <1>1 DEF Bank
<1>4. r \in [mask : SUBSET Causes, wptr : Workspace, valid : BOOLEAN]
  BY <1>1 DEF Processor, Bank, TrapRecord
<1>5. w \in Proc \union {NoProc} /\ e \in SUBSET Causes
  BY <1>1 DEF Processor, TrapWord, TrapMask
<1>6. t = [s EXCEPT !.record[p] = r, !.word[p] = w, !.frames = Append(s.frames, f),
                    !.mask[p] = e, !.cpu = c]
  BY <1>1 DEF EnterTrap, Processor, TrapRecord, TrapWord, TrapMask, TrapFrame
<1> HIDE DEF t, c, r, w, e, f, n
<1>7. /\ t \in Processor
      /\ t.record = [s.record EXCEPT ![p] = r] /\ t.word = [s.word EXCEPT ![p] = w]
      /\ t.frames = Append(s.frames, f) /\ t.mask = [s.mask EXCEPT ![p] = e] /\ t.cpu = c
      /\ t.irqs = s.irqs /\ t.shadow = s.shadow /\ t.shadowValid = s.shadowValid
      /\ t.queue = s.queue /\ t.pendingLow = s.pendingLow /\ t.error = s.error
      /\ t.reported = s.reported
  BY <1>1, <1>2, <1>3, <1>4, <1>5, <1>6 DEF Processor
<1>8. SamePlaces(s, t)
  BY <1>1, <1>6 DEF Processor, SamePlaces
<1>9. Entered(s, cause, p, q, t)
  BY <1>1, <1>2, <1>3, <1>7, <1>8 DEF c, r, w, e, f, n, Entered
<1> QED BY <1>9 DEF t

\* A handler is entered.
LEMMA EnterTrapKeeps ==
  ASSUME NEW s, Good(kernel, s), NEW cause \in Causes, NEW p \in Priority,
         NEW q \in Proc \union {NoProc}, MayEnter(s, cause, p)
  PROVE  Good(kernel, EnterTrap(s, cause, p, q))
<1> DEFINE t == EnterTrap(s, cause, p, q)
           f == TrapFrame(s, cause, p)
           n == Len(s.frames)
           c == t.cpu
           r == TrapRecord(s, p)
           w == TrapWord(s, p, q)
           e == TrapMask(s, p)
<1>1. s \in Processor /\ s.frames \in Seq(Frame) /\ n \in Nat
  BY FrameTypes DEF Good
<1>2. Entered(s, cause, p, q, t)
  BY <1>1, EnterTrapIs
<1> HIDE DEF t
<1>3. c.wptr = Handler[p] /\ c.prio = p /\ c.running /\ f \in Frame
  BY <1>2 DEF Entered
<1>4. r.mask = s.mask[p] /\ r.wptr = s.cpu.wptr /\ (r.valid => s.cpu.running)
  BY DEF TrapRecord
<1>7. /\ t \in Processor
      /\ t.record = [s.record EXCEPT ![p] = r] /\ t.word = [s.word EXCEPT ![p] = w]
      /\ t.frames = Append(s.frames, f) /\ t.mask = [s.mask EXCEPT ![p] = e] /\ t.cpu = c
      /\ t.irqs = s.irqs /\ t.shadow = s.shadow /\ t.shadowValid = s.shadowValid
      /\ t.queue = s.queue /\ t.late = s.late /\ t.pendingLow = s.pendingLow
      /\ t.error = s.error
  BY <1>2 DEF Entered, SamePlaces
<1>8. /\ Len(t.frames) = n + 1 /\ \A i \in 1 .. n : t.frames[i] = s.frames[i]
      /\ t.frames[n + 1] = f /\ f.prio = p /\ f.caller = s.cpu /\ f.cause = cause
      /\ \A i \in 1 .. n + 1 : i \in 1 .. n \/ i = n + 1
  BY <1>1, <1>2 DEF Entered, TrapFrame
<1> HIDE DEF c, r, w, e, f, n
<1>9. ListsByPriority(t)
  BY <1>7 DEF Good, ListsByPriority
<1>10. Stack(t)
  <2>1. Stack(s) /\ ~Active(s, f.prio) /\ (f.prio = Low => s.irqs = <<>>)
    BY <1>8 DEF Good, MayEnter
  <2>2. t.cpu.running /\ t.cpu.prio = f.prio /\ t.cpu.wptr = Handler[f.prio]
    BY <1>3, <1>7, <1>8
  <2>3. f \in Frame /\ s \in Processor /\ t.frames = Append(s.frames, f) /\ f.caller = s.cpu
    BY <1>1, <1>3, <1>7, <1>8
  <2> HIDE DEF c
  <2>4. /\ Nested(t.frames, s.irqs) /\ Callers(t.frames, s.irqs)
        /\ OnTop(t.frames, s.irqs, Len(t.frames), Len(s.irqs), t.cpu)
    BY <2>1, <2>2, <2>3, PushFrame
  <2> QED BY <2>4, <1>7 DEF Stack
<1>11. PutAside(t)
  <2>1. Bottom(t) = Bottom(s)
    <3>1. n = 0 => t.frames[1] = f /\ s.frames = <<>>
      BY <1>1, <1>8, FrameTypes DEF n
    <3>2. n # 0 => t.frames[1] = s.frames[1] /\ s.frames # <<>>
      BY <1>1, <1>8, FrameTypes DEF n
    <3>3. t.frames # <<>>
      <4>1. Len(t.frames) # 0 /\ Len(<<>>) = 0
        BY <1>1, <1>8, EmptySeq
      <4> QED BY <4>1
    <3>4. s.frames = <<>> \/ s.frames # <<>>
      OBVIOUS
    <3> QED BY <1>7, <1>8, <3>1, <3>2, <3>3, <3>4, <1>1, FrameTypes DEF Bottom, n
  <2> QED BY <1>7, <2>1 DEF Good, PutAside, Replaced, LowBank, LowBankValid
<1>12. /\ \A x \in Priority : Active(t, x) <=> x = p \/ Active(s, x)
       /\ \A x \in Priority \ {p} : t.record[x] = s.record[x] /\ t.word[x] = s.word[x]
                                    /\ t.mask[x] = s.mask[x]
       /\ t.record[p] = r /\ t.mask[p] = e
       /\ \A i \in 1 .. n : s.frames[i].prio \in Priority \ {p}
  <2>1. \A x \in Priority : Active(t, x) <=> x = p \/ Active(s, x)
    <3>1. n + 1 \in 1 .. n + 1 /\ \A i \in 1 .. n : i \in 1 .. n + 1
      BY <1>1
    <3>2. Len(s.frames) = n
      BY DEF n
    <3> QED BY <1>8, <3>1, <3>2 DEF Active
  <2>2. \A i \in 1 .. n : s.frames[i].prio \in Priority
    BY <1>1, FrameTypes DEF Frame, n
  <2>3. \A i \in 1 .. n : s.frames[i].prio # p
    BY DEF MayEnter, Active, n
  <2> QED BY <1>1, <1>7, <2>1, <2>2, <2>3 DEF Processor
<1>13. Records(t)
  <2>1. ASSUME NEW i \in 1 .. n
        PROVE  RecordOf(t.frames[i], t.record[t.frames[i].prio])
    <3>1. RecordOf(s.frames[i], s.record[s.frames[i].prio])
      BY DEF Good, Records, n
    <3>2. t.frames[i] = s.frames[i] /\ t.record[s.frames[i].prio] = s.record[s.frames[i].prio]
      BY <1>8, <1>12
    <3> QED BY <3>1, <3>2
  <2>2. RecordOf(f, r)
    BY <1>4, <1>8 DEF RecordOf
  <2>3. \A x \in Priority : ~Active(t, x) => t.word[x] = NoProc
    BY <1>12 DEF Good, Records
  <2> QED BY <1>8, <1>12, <2>1, <2>2, <2>3 DEF Records
<1>14. Masks(kernel, t)
  BY <1>4, <1>7, <1>12 DEF Good, Masks, MayEnter
<1>15. Masked(kernel, t)
  BY <1>7, <1>12 DEF Good, Masked, e, TrapMask
<1>16. OwnTraps(t)
  BY <1>8 DEF Good, OwnTraps, MayEnter, n
<1> QED BY <1>7, <1>9, <1>10, <1>11, <1>13, <1>14, <1>15, <1>16 DEF Good, t

\* When a trap is asked for by what may ask for it.
MayRequest(s, cause, p, q) ==
  p = Low =>
    IF cause \in {"RUN", "SIGNAL"} THEN q \in LowProc
    ELSE s.irqs = <<>> /\ (cause # "INTERNALCH" => s.cpu.prio = Low)

\* A trap that is an error, and one that is put off.
Reentered(s) == [s EXCEPT !.error = "TRAP_REENTRY"]
PutOff(s, cause, q) == [s EXCEPT !.pendingLow = Append(@, [cause |-> cause, proc |-> q])]

\* A trap is masked, an error, put off or taken.
LEMMA RequestOutcomes ==
  ASSUME NEW s, Good(kernel, s), NEW cause \in Causes, NEW p \in Priority,
         NEW q \in Proc \union {NoProc}, MayRequest(s, cause, p, q)
  PROVE  LET t == requestTrap(s, cause, p, q)
         IN  \/ cause \notin s.mask[p] /\ t = s
             \/ cause \in s.mask[p] /\ Active(s, p) /\ t = Reentered(s)
             \/ /\ cause \in s.mask[p] /\ ~Active(s, p) /\ t = PutOff(s, cause, q)
                /\ Deferred(s, cause, p) /\ p = Low /\ q \in LowProc
             \/ /\ cause \in s.mask[p] /\ t = EnterTrap(s, cause, p, q)
                /\ MayEnter(s, cause, p) /\ ~Deferred(s, cause, p)
<1> DEFINE t == requestTrap(s, cause, p, q)
<1>1. (\E i \in DOMAIN s.frames : s.frames[i].prio = p) <=> Active(s, p)
  BY FrameTypes DEF Good, Active
<1>2. CASE cause \notin s.mask[p]
  BY <1>2 DEF requestTrap
<1>3. CASE cause \in s.mask[p] /\ Active(s, p)
  <2>1. t = Reentered(s)
    BY <1>1, <1>3 DEF requestTrap, Reentered
  <2> QED BY <1>3, <2>1
<1>4. CASE cause \in s.mask[p] /\ ~Active(s, p) /\ Deferred(s, cause, p)
  <2>1. t = PutOff(s, cause, q)
    BY <1>1, <1>4 DEF requestTrap, PutOff
  <2>2. p = Low /\ q \in LowProc
    BY <1>4 DEF Deferred, MayRequest
  <2> QED BY <1>4, <2>1, <2>2
<1>5. CASE cause \in s.mask[p] /\ ~Active(s, p) /\ ~Deferred(s, cause, p)
  <2>1. t = EnterTrap(s, cause, p, q)
    BY <1>1, <1>5 DEF requestTrap
  <2>2. s.cpu.prio \in {High, Low}
    BY DEF Good, Processor, Bank, Priority
  <2>3. ASSUME p = Low, cause \in {"RUN", "SIGNAL"} PROVE s.irqs = <<>> /\ s.cpu.prio = Low
    <3>1. s.cpu.prio = Low
      BY <1>5, <2>2, <2>3 DEF Deferred
    <3>2. Low # High
      BY TrapsAssumption
    <3> QED BY <3>1, <3>2, InterruptsAreHigh
  <2>4. MayEnter(s, cause, p)
    BY <1>5, <2>3 DEF MayEnter, MayRequest
  <2> QED BY <1>5, <2>1, <2>4
<1> HIDE DEF t
<1> QED BY <1>2, <1>3, <1>4, <1>5 DEF t

\* requestTrap keeps the invariant: it does nothing, is an error, waits, or enters.
LEMMA RequestKeeps ==
  ASSUME NEW s, Good(kernel, s), NEW cause \in Causes, NEW p \in Priority,
         NEW q \in Proc \union {NoProc}, MayRequest(s, cause, p, q)
  PROVE  Good(kernel, requestTrap(s, cause, p, q))
<1> DEFINE t == requestTrap(s, cause, p, q)
<1>1. s \in Processor
  BY DEF Good
<1>2. ASSUME cause \in s.mask[p], Active(s, p), t = Reentered(s)
      PROVE  Good(kernel, t)
  <2> HIDE DEF t
  <2>1. t = [s EXCEPT !.error = "TRAP_REENTRY"]
    BY <1>2 DEF Reentered
  <2>2. /\ t \in Processor /\ t.error = "TRAP_REENTRY" /\ t.queue = s.queue /\ t.late = s.late
        /\ t.frames = s.frames /\ t.irqs = s.irqs /\ t.record = s.record /\ t.word = s.word
        /\ t.mask = s.mask /\ t.pendingLow = s.pendingLow /\ SameBanks(s, t)
    BY <1>1, <2>1 DEF Processor, SameBanks
  <2>3. ~ \A x \in Priority : kernel.handlerMask[x] = {}
    BY <1>2 DEF Good, Masked
  <2>4. ListsByPriority(t) /\ Stack(t) /\ OwnTraps(t)
    BY <2>2 DEF Good, SameBanks, ListsByPriority, Stack, OwnTraps
  <2>5. PutAside(t)
    BY <2>2 DEF Good, SameBanks, PutAside, Bottom, Replaced, LowBank, LowBankValid
  <2>6. Records(t) /\ Masks(kernel, t)
    BY <2>2 DEF Good, Records, Masks, Active
  <2>7. Masked(kernel, t)
    BY <2>3 DEF Masked
  <2> QED BY <2>2, <2>4, <2>5, <2>6, <2>7 DEF Good
<1>3. ASSUME cause \in s.mask[p], ~Active(s, p), t = PutOff(s, cause, q), p = Low, q \in LowProc,
             cause \in {"RUN", "SIGNAL"}
      PROVE  Good(kernel, t)
  <2> DEFINE e == [cause |-> cause, proc |-> q]
             a == Append(s.pendingLow, e)
  <2>1. s.pendingLow \in Seq([cause : {"RUN", "SIGNAL"}, proc : LowProc])
    BY <1>1 DEF Processor
  <2>2. /\ a \in Seq([cause : {"RUN", "SIGNAL"}, proc : LowProc]) /\ Len(a) = Len(s.pendingLow) + 1
        /\ \A i \in 1 .. Len(s.pendingLow) : a[i] = s.pendingLow[i]
        /\ a[Len(s.pendingLow) + 1] = e /\ Len(s.pendingLow) \in Nat
    BY <1>3, <2>1, AppendProperties, LenProperties
  <2>3. t = [s EXCEPT !.pendingLow = a]
    BY <1>1, <1>3 DEF PutOff, Processor
  <2> HIDE DEF a, t
  <2>4. /\ t \in Processor /\ t.error = s.error /\ t.queue = s.queue /\ t.late = s.late
        /\ t.frames = s.frames /\ t.irqs = s.irqs /\ t.record = s.record /\ t.word = s.word
        /\ t.mask = s.mask /\ t.pendingLow = a /\ SameBanks(s, t)
    BY <1>1, <2>2, <2>3 DEF Processor, SameBanks
  <2>5. cause \in kernel.mask[Low]
    BY <1>3 DEF Good, Masks, Enables
  <2>6. \A i \in 1 .. Len(a) : a[i].cause \in kernel.mask[Low]
    <3>1. \A i \in 1 .. Len(a) : i \in 1 .. Len(s.pendingLow) \/ i = Len(s.pendingLow) + 1
      BY <2>2
    <3>2. e.cause = cause
      OBVIOUS
    <3> QED BY <2>2, <2>5, <3>1, <3>2 DEF Good, Masks
  <2>7. Masks(kernel, t)
    BY <2>4, <2>6 DEF Good, Masks, Active
  <2>8. ListsByPriority(t) /\ Stack(t) /\ OwnTraps(t)
    BY <2>4 DEF Good, SameBanks, ListsByPriority, Stack, OwnTraps
  <2>9. PutAside(t)
    BY <2>4 DEF Good, SameBanks, PutAside, Bottom, Replaced, LowBank, LowBankValid
  <2>10. Records(t) /\ Masked(kernel, t)
    BY <2>4 DEF Good, Records, Masked, Active
  <2> QED BY <2>4, <2>7, <2>8, <2>9, <2>10 DEF Good
<1>4. ASSUME MayEnter(s, cause, p), t = EnterTrap(s, cause, p, q) PROVE Good(kernel, t)
  BY <1>4, EnterTrapKeeps
<1>5. ASSUME t = s PROVE Good(kernel, t)
  BY <1>5
<1>6. \/ cause \notin s.mask[p] /\ t = s
      \/ cause \in s.mask[p] /\ Active(s, p) /\ t = Reentered(s)
      \/ /\ cause \in s.mask[p] /\ ~Active(s, p) /\ t = PutOff(s, cause, q)
         /\ Deferred(s, cause, p) /\ p = Low /\ q \in LowProc
      \/ /\ cause \in s.mask[p] /\ t = EnterTrap(s, cause, p, q)
         /\ MayEnter(s, cause, p) /\ ~Deferred(s, cause, p)
  BY RequestOutcomes
<1>7. Deferred(s, cause, p) => cause \in {"RUN", "SIGNAL"}
  BY DEF Deferred
<1> HIDE DEF t
<1> QED BY <1>2, <1>3, <1>4, <1>5, <1>6, <1>7 DEF t

\* A process that becomes ready traps, or joins the ready queue.
LEMMA TrapOrEnqueueKeeps ==
  ASSUME NEW s, Good(kernel, s), NEW cause \in Causes, NEW q \in Proc,
         MayRequest(s, cause, PriorityOf(q), q)
  PROVE  Good(kernel, TrapOrEnqueue(s, cause, q))
<1>1. PriorityOf(q) \in Priority
  BY DEF PriorityOf, Priority
<1> QED BY <1>1, RequestKeeps, EnqueueKeeps DEF TrapOrEnqueue

-----------------------------------------------------------------------------
\* Without a handler the program has the processor.
LEMMA NoHandlers ==
  ASSUME NEW s, Good(kernel, s), ~HandlersActive(s)
  PROVE  /\ s \in Processor /\ s.frames = <<>> /\ s.irqs = <<>> /\ OfProgram(s.cpu)
         /\ s.cpu.prio \in {High, Low} /\ High # Low /\ s.cpu.running \in BOOLEAN
         /\ s.shadow.prio = Low /\ OfProgram(s.shadow) /\ s.shadowValid \in BOOLEAN
         /\ s.shadowValid => s.shadow.running /\ s.cpu.prio = High
         /\ \A p \in Priority : ~Active(s, p)
<1>1. /\ s \in Processor /\ s.frames = <<>> /\ s.irqs = <<>> /\ Len(s.frames) = 0
      /\ Len(s.irqs) = 0 /\ 1 .. Len(s.frames) = {}
  BY EmptySeq DEF Good, HandlersActive, trapHandlerActive, interruptHandlerActive
<1>2. OfProgram(s.cpu)
  BY <1>1 DEF Good, Stack, OnTop
<1>3. /\ s.shadow.prio = Low /\ OfProgram(s.shadow)
      /\ s.shadowValid => s.shadow.running /\ s.cpu.prio = High
  BY <1>1 DEF Good, PutAside, LowBank, LowBankValid, Replaced, Bottom
<1>4. s.cpu.prio \in {High, Low} /\ s.cpu.running \in BOOLEAN /\ s.shadowValid \in BOOLEAN
  BY <1>1 DEF Processor, Bank, Priority
<1> QED BY <1>1, <1>2, <1>3, <1>4, TrapsAssumption DEF Active

\* What has been reported of the queues is of no consequence to the handlers.
LEMMA ReportedKeeps ==
  ASSUME NEW s, Good(kernel, s), NEW p \in Priority, NEW b \in BOOLEAN
  PROVE  Good(kernel, [s EXCEPT !.reported[p] = b])
<1> DEFINE t == [s EXCEPT !.reported[p] = b]
<1>1. s \in Processor
  BY DEF Good
<1>2. t \in Processor /\ SameHandlers(s, t) /\ SameBanks(s, t) /\ t.queue = s.queue
      /\ t.late = s.late
  BY <1>1 DEF Processor, SameHandlers, SameBanks
<1> HIDE DEF t
<1>3. ListsByPriority(t)
  BY <1>2 DEF Good, ListsByPriority
<1>4. Good(kernel, t)
  BY <1>2, <1>3, ListsChange
<1> QED BY <1>4 DEF t

\* The report of an empty queue, at the priority of an idle processor, keeps it.
LEMMA ReportEmptyKeeps ==
  ASSUME NEW s, Good(kernel, s), NEW p \in Priority,
         p = Low => s.irqs = <<>> /\ s.cpu.prio = Low
  PROVE  Good(kernel, ReportEmpty(s, p))
<1> DEFINE t == requestTrap(s, "QUEUE_EMPTY", p, NoProc)
<1>1. Good(kernel, t)
  <2>1. MayRequest(s, "QUEUE_EMPTY", p, NoProc)
    BY DEF MayRequest
  <2> QED BY <2>1, RequestKeeps DEF Causes
<1>2. ReportEmpty(s, p) = IF t.error = "none" THEN [t EXCEPT !.reported[p] = TRUE] ELSE t
  BY DEF ReportEmpty
<1> HIDE DEF t
<1> QED BY <1>1, <1>2, ReportedKeeps

\* The processor drops to low priority with nothing to run.
Drop(s) == [s EXCEPT !.cpu = IdleBank(s)]

\* An idle high priority gives way to the idle bank of low priority.
LEMMA DropKeeps ==
  ASSUME NEW s, Good(kernel, s), ~HandlersActive(s), ~s.shadowValid
  PROVE  /\ Good(kernel, Drop(s)) /\ ~HandlersActive(Drop(s)) /\ Drop(s).cpu.prio = Low
         /\ ~Drop(s).cpu.running /\ Drop(s).queue = s.queue /\ Drop(s).mask = s.mask
<1> DEFINE t == Drop(s)
           c == IdleBank(s)
<1>1. s \in Processor /\ s.shadow \in Bank /\ OfProgram(s.shadow) /\ s.shadow.prio = Low
  <2>1. s \in Processor /\ OfProgram(s.shadow) /\ s.shadow.prio = Low
    BY NoHandlers
  <2> QED BY <2>1 DEF Processor
<1>2. c \in Bank /\ c.prio = Low /\ ~c.running /\ OfProgram(c)
  BY <1>1 DEF IdleBank, Bank, Priority, OfProgram
<1>3. t = [s EXCEPT !.cpu = c]
  BY DEF Drop
<1> HIDE DEF t, c
<1>4. /\ t \in Processor /\ SameHandlers(s, t) /\ t.cpu = c /\ t.shadow = s.shadow
      /\ t.shadowValid = s.shadowValid /\ t.queue = s.queue /\ t.late = s.late
  BY <1>1, <1>2, <1>3 DEF Processor, SameHandlers
<1>5. ListsByPriority(t)
  BY <1>4 DEF Good, ListsByPriority
<1>6. Good(kernel, t)
  BY <1>1, <1>2, <1>4, <1>5, NoHandlers, BanksChange
<1> QED BY <1>2, <1>4, <1>6 DEF t, SameHandlers, HandlersActive, trapHandlerActive,
          interruptHandlerActive

\* The process put aside goes on.
LEMMA ResumeShadowKeeps ==
  ASSUME NEW s, Good(kernel, s), ~HandlersActive(s), s.shadowValid
  PROVE  /\ Good(kernel, ResumeShadow(s)) /\ ~HandlersActive(ResumeShadow(s))
         /\ ResumeShadow(s).cpu = s.shadow
<1> DEFINE t == ResumeShadow(s)
<1>1. s \in Processor /\ s.shadow \in Bank /\ OfProgram(s.shadow) /\ s.shadow.prio = Low
  BY NoHandlers DEF Processor
<1>2. Low \in Priority
  BY DEF Priority
<1>3. /\ t \in Processor /\ SameHandlers(s, t) /\ t.cpu = s.shadow /\ t.shadow = s.shadow
      /\ t.shadowValid = FALSE /\ t.queue = s.queue /\ t.late = s.late
  BY <1>1, <1>2 DEF Processor, SameHandlers, ResumeShadow
<1> HIDE DEF t
<1>4. ListsByPriority(t)
  BY <1>3 DEF Good, ListsByPriority
<1>5. Good(kernel, t)
  BY <1>1, <1>3, <1>4, NoHandlers, BanksChange
<1> QED BY <1>3, <1>5 DEF t, SameHandlers, HandlersActive, trapHandlerActive,
          interruptHandlerActive

\* The next process of a priority runs, in the place of one of low priority.
MaySwitch(s, p) ==
  /\ s.queue[p] # <<>>
  /\ s.cpu.running => s.cpu.prio = Low /\ p = High
  /\ s.shadowValid => p = High

\* The processor after the next process of priority p has been taken.
Switched(s, p) ==
  [s EXCEPT !.shadow = IF s.cpu.running \/ s.cpu.prio = Low THEN s.cpu ELSE @,
            !.shadowValid = @ \/ s.cpu.running,
            !.queue[p] = Tail(@),
            !.cpu = Running(Head(s.queue[p]), p),
            !.reported[p] = FALSE]

\* The next process runs, and what it preempts is put aside.
LEMMA SwitchedKeeps ==
  ASSUME NEW s, Good(kernel, s), ~HandlersActive(s), NEW p \in Priority, MaySwitch(s, p)
  PROVE  LET t == Switched(s, p)
         IN  /\ Good(kernel, t) /\ SameHandlers(s, t) /\ ~HandlersActive(t)
             /\ t.cpu = Running(Head(s.queue[p]), p) /\ Head(s.queue[p]) \in Of(p)
             /\ t.queue = [s.queue EXCEPT ![p] = Tail(s.queue[p])]
             /\ t.shadow = IF s.cpu.running \/ s.cpu.prio = Low THEN s.cpu ELSE s.shadow
             /\ t.shadowValid = (s.shadowValid \/ s.cpu.running)
             /\ t.late = s.late
<1> DEFINE t == Switched(s, p)
           q == Head(s.queue[p])
           a == Tail(s.queue[p])
           h == IF s.cpu.running \/ s.cpu.prio = Low THEN s.cpu ELSE s.shadow
           v == s.shadowValid \/ s.cpu.running
           c == Running(q, p)
<1>1. /\ s \in Processor /\ OfProgram(s.cpu) /\ s.cpu.prio \in {High, Low}
      /\ s.shadow.prio = Low /\ OfProgram(s.shadow)
      /\ s.shadowValid => s.shadow.running /\ s.cpu.prio = High
      /\ s.frames = <<>> /\ s.irqs = <<>>
  BY NoHandlers
<1>2. s.queue[p] \in Seq(Of(p)) /\ s.queue[p] \in Seq(Proc) /\ s.queue[p] # <<>>
  BY <1>1 DEF Good, ListsByPriority, Processor, MaySwitch
<1>3. q \in Of(p) /\ a \in Seq(Of(p)) /\ a \in Seq(Proc)
  BY <1>2, HeadTailProperties
<1>4. c \in Bank /\ c.wptr = q /\ c.prio = p /\ c.running /\ OfProgram(c) /\ q \in Proc
  BY <1>3 DEF Running, Bank, OfProgram, Of, Workspace
<1>5. h \in Bank /\ OfProgram(h) /\ v \in BOOLEAN
  BY <1>1 DEF Processor, Bank
<1>6. h.prio = Low
  BY <1>1 DEF MaySwitch
<1>7. v => h.running /\ p = High
  BY <1>1, TrapsAssumption DEF MaySwitch
<1>8. t = [s EXCEPT !.shadow = h, !.shadowValid = v, !.queue[p] = a, !.cpu = c,
                    !.reported[p] = FALSE]
  BY <1>1 DEF Switched, Processor
<1> HIDE DEF t, q, a, h, v, c
<1>9. /\ t \in Processor /\ SameHandlers(s, t) /\ t.cpu = c /\ t.shadow = h
      /\ t.shadowValid = v /\ t.queue = [s.queue EXCEPT ![p] = a] /\ t.late = s.late
  <2>1. /\ s \in Processor /\ a \in Seq(Proc) /\ c \in Bank /\ h \in Bank
        /\ v \in BOOLEAN
    BY <1>1, <1>3, <1>4, <1>5
  <2> DEFINE queues == [s.queue EXCEPT ![p] = a]
             rep == [s.reported EXCEPT ![p] = FALSE]
  <2>2. queues \in [Priority -> Seq(Proc)] /\ rep \in [Priority -> BOOLEAN]
    BY <2>1 DEF Processor
  <2>3. t = [s EXCEPT !.shadow = h, !.shadowValid = v, !.queue = queues, !.cpu = c,
                      !.reported = rep]
    BY <1>8, <2>1 DEF Processor
  <2> HIDE DEF queues, rep
  <2>4. t \in Processor
    BY <2>1, <2>2, <2>3 DEF Processor
  <2>5. /\ SameHandlers(s, t) /\ t.cpu = c /\ t.shadow = h
        /\ t.shadowValid = v /\ t.queue = queues /\ t.late = s.late
    BY <2>1, <2>3 DEF Processor, SameHandlers
  <2> QED BY <2>4, <2>5 DEF queues
<1>10. ListsByPriority(t)
  BY <1>1, <1>3, <1>9 DEF Good, ListsByPriority, Processor
<1>11. Good(kernel, t)
  BY <1>1, <1>4, <1>5, <1>6, <1>7, <1>9, <1>10, BanksChange
<1>12. ~HandlersActive(t)
  BY <1>1, <1>9 DEF SameHandlers, HandlersActive, trapHandlerActive, interruptHandlerActive
<1> QED BY <1>3, <1>9, <1>11, <1>12 DEF t, q, a, h, v, c

\* A switch is that, and the trap of a preemption.
LEMMA SwitchIs ==
  ASSUME NEW s, NEW p
  PROVE  Switch(s, p) = IF s.cpu.running
                        THEN requestTrap(Switched(s, p), "PROCESS", p, Head(s.queue[p]))
                        ELSE Switched(s, p)
  BY DEF Switch, Switched

\* A switch keeps the invariant.
LEMMA SwitchKeeps ==
  ASSUME NEW s, Good(kernel, s), ~HandlersActive(s), NEW p \in Priority, MaySwitch(s, p)
  PROVE  Good(kernel, Switch(s, p))
<1> DEFINE t == Switched(s, p)
           q == Head(s.queue[p])
<1>1. Good(kernel, t) /\ q \in Of(p)
  BY SwitchedKeeps
<1>2. q \in Proc /\ (s.cpu.running => p # Low)
  BY <1>1, TrapsAssumption DEF Of, MaySwitch
<1> HIDE DEF t, q
<1>3. CASE s.cpu.running
  <2>1. MayRequest(t, "PROCESS", p, q)
    BY <1>2, <1>3 DEF MayRequest
  <2>2. Good(kernel, requestTrap(t, "PROCESS", p, q))
    BY <1>1, <1>2, <2>1, RequestKeeps DEF Causes
  <2> QED BY <1>3, <2>2, SwitchIs DEF t, q
<1>4. CASE ~s.cpu.running
  BY <1>1, <1>4, SwitchIs DEF t
<1> QED BY <1>3, <1>4

\* Nothing to dispatch.
Settled(s) ==
  s.cpu.running \/ (/\ s.queue[High] = <<>> /\ s.queue[Low] = <<>> /\ ~s.shadowValid
                    /\ ~OwnQueueEmpty(s) /\ ~BothQueuesEmpty(s))

\* Nothing may happen, an empty queue is reported, or something gets the processor.
LEMMA DispatchOutcomes ==
  ASSUME NEW s, Good(kernel, s), ~HandlersActive(s)
  PROVE  LET t == dispatchProcess(s)
         IN  \/ t = s /\ Settled(s)
                /\ (s.cpu.running /\ s.queue[High] # <<>> => s.cpu.prio = High \/ s.cpu.intdis)
             \/ t = ReportEmpty(s, s.cpu.prio) /\ OwnQueueEmpty(s)
             \/ t = ReportEmpty(Drop(s), Low) /\ BothQueuesEmpty(s)
             \/ t = ResumeShadow(s) /\ s.shadowValid /\ ~s.cpu.running /\ s.queue[High] = <<>>
             \/ \E p \in Priority : t = Switch(s, p) /\ MaySwitch(s, p)
                                    /\ (s.queue[High] # <<>> => p = High)
<1> DEFINE t == dispatchProcess(s)
           next == IF s.queue[High] # <<>> THEN High ELSE Low
<1>1. next \in Priority /\ High # Low /\ High \in Priority /\ Low \in Priority
  BY TrapsAssumption DEF Priority
<1>2. s.cpu.prio \in {High, Low} /\ s.cpu.running \in BOOLEAN
  BY NoHandlers
<1>3. CASE OwnQueueEmpty(s)
  BY <1>3 DEF dispatchProcess
<1>4. CASE ~OwnQueueEmpty(s) /\ BothQueuesEmpty(s)
  BY <1>4 DEF dispatchProcess, Drop
<1>5. ASSUME ~OwnQueueEmpty(s), ~BothQueuesEmpty(s)
      PROVE  t = IF s.cpu.running /\ (s.cpu.prio = High \/ next = Low \/ s.cpu.intdis)
                 THEN s
                 ELSE IF ~s.cpu.running /\ next = Low /\ s.shadowValid
                 THEN ResumeShadow(s)
                 ELSE IF s.queue[next] = <<>> THEN s ELSE Switch(s, next)
  BY <1>5 DEF dispatchProcess
<1> HIDE DEF t
<1>6. ASSUME ~OwnQueueEmpty(s), ~BothQueuesEmpty(s), s.cpu.running
      PROVE  \/ t = s /\ Settled(s)
                /\ (s.cpu.running /\ s.queue[High] # <<>> => s.cpu.prio = High \/ s.cpu.intdis)
             \/ \E p \in Priority : t = Switch(s, p) /\ MaySwitch(s, p)
                                    /\ (s.queue[High] # <<>> => p = High)
  <2>1. CASE s.cpu.prio = High \/ next = Low \/ s.cpu.intdis
    BY <1>1, <1>5, <1>6, <2>1 DEF Settled
  <2>2. CASE ~(s.cpu.prio = High \/ next = Low \/ s.cpu.intdis)
    <3>1. next = High /\ s.queue[High] # <<>> /\ s.cpu.prio = Low
      BY <1>1, <1>2, <2>2
    <3>2. MaySwitch(s, High) /\ t = Switch(s, High)
      BY <1>5, <1>6, <2>2, <3>1 DEF MaySwitch
    <3> QED BY <1>1, <3>2
  <2> QED BY <2>1, <2>2
<1>7. ASSUME ~OwnQueueEmpty(s), ~BothQueuesEmpty(s), ~s.cpu.running
      PROVE  \/ t = s /\ Settled(s)
             \/ t = ResumeShadow(s) /\ s.shadowValid /\ s.queue[High] = <<>>
             \/ \E p \in Priority : t = Switch(s, p) /\ MaySwitch(s, p)
                                    /\ (s.queue[High] # <<>> => p = High)
  <2>1. CASE next = Low /\ s.shadowValid
    BY <1>1, <1>5, <1>7, <2>1
  <2>2. CASE ~(next = Low /\ s.shadowValid) /\ s.queue[next] = <<>>
    <3>1. next = Low /\ s.queue[High] = <<>> /\ ~s.shadowValid
      BY <2>2
    <3> QED BY <1>1, <1>5, <1>7, <2>2, <3>1 DEF Settled
  <2>3. CASE ~(next = Low /\ s.shadowValid) /\ s.queue[next] # <<>>
    <3>1. MaySwitch(s, next) /\ t = Switch(s, next)
      BY <1>5, <1>7, <2>3 DEF MaySwitch
    <3> HIDE DEF next
    <3>2. s.queue[High] # <<>> => next = High
      BY DEF next
    <3> QED BY <1>1, <3>1, <3>2
  <2> QED BY <2>1, <2>2, <2>3
<1> QED BY <1>3, <1>4, <1>6, <1>7 DEF t

\* dispatchProcess keeps the invariant, in each of its outcomes.
LEMMA DispatchKeeps ==
  ASSUME NEW s, Good(kernel, s)
  PROVE  Good(kernel, dispatchProcess(s))
<1> DEFINE t == dispatchProcess(s)
<1>1. CASE HandlersActive(s)
  BY <1>1 DEF dispatchProcess
<1>2. CASE ~HandlersActive(s)
  <2>1. s.irqs = <<>> /\ s.cpu.prio \in {High, Low} /\ Low \in Priority
    BY <1>2, NoHandlers DEF Priority
  <2>2. OwnQueueEmpty(s) => Good(kernel, ReportEmpty(s, s.cpu.prio))
    BY <2>1, ReportEmptyKeeps DEF Priority
  <2>3. BothQueuesEmpty(s) => Good(kernel, ReportEmpty(Drop(s), Low))
    <3>1. SUFFICES ASSUME BothQueuesEmpty(s) PROVE Good(kernel, ReportEmpty(Drop(s), Low))
      OBVIOUS
    <3>2. ~s.shadowValid
      BY <3>1 DEF BothQueuesEmpty
    <3> DEFINE d == Drop(s)
    <3>3. Good(kernel, d) /\ ~HandlersActive(d) /\ d.cpu.prio = Low
      BY <1>2, <3>2, DropKeeps
    <3> HIDE DEF d
    <3>4. d.irqs = <<>>
      BY <3>3, NoHandlers
    <3>5. Good(kernel, ReportEmpty(d, Low))
      BY <2>1, <3>3, <3>4, ReportEmptyKeeps
    <3> QED BY <3>5 DEF d
  <2>4. s.shadowValid => Good(kernel, ResumeShadow(s))
    BY <1>2, ResumeShadowKeeps
  <2>5. \A p \in Priority : MaySwitch(s, p) => Good(kernel, Switch(s, p))
    BY <1>2, SwitchKeeps
  <2>6. \/ t = s
        \/ t = ReportEmpty(s, s.cpu.prio) /\ OwnQueueEmpty(s)
        \/ t = ReportEmpty(Drop(s), Low) /\ BothQueuesEmpty(s)
        \/ t = ResumeShadow(s) /\ s.shadowValid
        \/ \E p \in Priority : t = Switch(s, p) /\ MaySwitch(s, p)
    BY <1>2, DispatchOutcomes
  <2> HIDE DEF t
  <2>7. Good(kernel, t)
    BY <2>2, <2>3, <2>4, <2>5, <2>6
  <2> QED BY <2>7 DEF t
<1> QED BY <1>1, <1>2

-----------------------------------------------------------------------------
\* The poll.  The due processes are taken from the timer lists.
Released(s, p, t) ==
  /\ Good(kernel, t) /\ SameHandlers(s, t) /\ SameBanks(s, t)
  /\ t.pendingTimer = NoProc => s.pendingTimer = NoProc /\ t.late = [s.late EXCEPT ![p] = <<>>]

\* The due processes of a priority wake, or one of them becomes the pending trap.
LEMMA ReleaseDueKeeps ==
  ASSUME NEW s, Good(kernel, s), NEW p \in Priority
  PROVE  Released(s, p, ReleaseDue(s, p))
<1> DEFINE t == ReleaseDue(s, p)
           q == Head(s.late[p])
           a == Tail(s.late[p])
           b == s.queue[p] \o s.late[p]
<1>1. /\ s \in Processor /\ s.late[p] \in Seq(Of(p)) /\ s.queue[p] \in Seq(Of(p))
      /\ s.late[p] \in Seq(Proc) /\ s.queue[p] \in Seq(Proc)
      /\ s.late \in [Priority -> Seq(Proc)]
  BY DEF Good, ListsByPriority, Processor
<1>2. ASSUME s.pendingTimer # NoProc \/ s.late[p] = <<>>
      PROVE  Released(s, p, t)
  <2>1. t = s
    BY <1>2 DEF ReleaseDue
  <2>2. s.late[p] = <<>> => s.late = [s.late EXCEPT ![p] = <<>>]
    BY <1>1
  <2> HIDE DEF t
  <2> QED BY <1>2, <2>1, <2>2 DEF SameHandlers, SameBanks, Released
<1>3. ASSUME ~(s.pendingTimer # NoProc \/ s.late[p] = <<>>)
      PROVE  Released(s, p, t)
  <2>1. q \in Of(p) /\ a \in Seq(Of(p)) /\ a \in Seq(Proc) /\ q \in Proc /\ q # NoProc
    BY <1>1, <1>3, HeadTailProperties, TrapsAssumption DEF Of
  <2>2. b \in Seq(Of(p)) /\ b \in Seq(Proc) /\ <<>> \in Seq(Of(p)) /\ <<>> \in Seq(Proc)
    BY <1>1, ConcatProperties, EmptySeq
  <2> HIDE DEF q, a, b
  <2>3. CASE "TIMER" \in EnablesAfterReturn(s, p)
    <3>1. t = [s EXCEPT !.late[p] = a, !.pendingTimer = q]
      BY <1>1, <1>3, <2>3 DEF ReleaseDue, Processor, a, q
    <3> HIDE DEF t
    <3>2. /\ t \in Processor /\ SameHandlers(s, t) /\ SameBanks(s, t)
          /\ t.queue = s.queue /\ t.late = [s.late EXCEPT ![p] = a] /\ t.pendingTimer = q
      BY <1>1, <2>1, <3>1 DEF Processor, SameHandlers, SameBanks
    <3>3. ListsByPriority(t)
      BY <1>1, <2>1, <3>2 DEF Good, ListsByPriority
    <3>4. Good(kernel, t)
      BY <3>2, <3>3, ListsChange
    <3> QED BY <2>1, <3>2, <3>4 DEF Released
  <2>4. CASE "TIMER" \notin EnablesAfterReturn(s, p)
    <3>1. t = [s EXCEPT !.late[p] = <<>>, !.queue[p] = b, !.reported[p] = FALSE]
      BY <1>1, <1>3, <2>4 DEF ReleaseDue, Processor, b
    <3> HIDE DEF t
    <3>2. /\ t \in Processor /\ SameHandlers(s, t) /\ SameBanks(s, t)
          /\ t.queue = [s.queue EXCEPT ![p] = b] /\ t.late = [s.late EXCEPT ![p] = <<>>]
          /\ t.pendingTimer = s.pendingTimer
      BY <1>1, <2>2, <3>1 DEF Processor, SameHandlers, SameBanks
    <3>3. ListsByPriority(t)
      BY <1>1, <2>2, <3>2 DEF Good, ListsByPriority, Processor
    <3>4. Good(kernel, t)
      BY <3>2, <3>3, ListsChange
    <3> QED BY <1>3, <3>2, <3>4 DEF Released
  <2> QED BY <2>3, <2>4
<1> QED BY <1>2, <1>3 DEF t

\* releaseTimers keeps the invariant, and leaves one that is due only behind a trap.
LEMMA ReleaseKeeps ==
  ASSUME NEW s, Good(kernel, s)
  PROVE  LET t == releaseTimers(s)
         IN  /\ Good(kernel, t) /\ SameHandlers(s, t) /\ SameBanks(s, t)
             /\ t.pendingTimer = NoProc => t.late[High] = <<>> /\ t.late[Low] = <<>>
<1> DEFINE u == ReleaseDue(s, High)
           t == ReleaseDue(u, Low)
<1>1. High \in Priority /\ Low \in Priority /\ High # Low
  BY TrapsAssumption DEF Priority
<1>2. /\ Good(kernel, u) /\ SameHandlers(s, u) /\ SameBanks(s, u)
      /\ u.pendingTimer = NoProc => u.late = [s.late EXCEPT ![High] = <<>>]
  BY <1>1, ReleaseDueKeeps DEF Released
<1> HIDE DEF u
<1>3. /\ Good(kernel, t) /\ SameHandlers(u, t) /\ SameBanks(u, t)
      /\ t.pendingTimer = NoProc =>
           u.pendingTimer = NoProc /\ t.late = [u.late EXCEPT ![Low] = <<>>]
  BY <1>1, <1>2, ReleaseDueKeeps DEF Released
<1> HIDE DEF t
<1>4. SameHandlers(s, t) /\ SameBanks(s, t)
  BY <1>2, <1>3 DEF SameHandlers, SameBanks
<1>5. s.late \in [Priority -> Seq(Proc)]
  BY DEF Good, Processor
<1>6. t.pendingTimer = NoProc => t.late[High] = <<>> /\ t.late[Low] = <<>>
  BY <1>1, <1>2, <1>3, <1>5
<1> QED BY <1>3, <1>4, <1>6 DEF releaseTimers, t, u

\* A trap taken for the processes of low priority takes the processor from what
\* is put aside, or from nothing.
ToLow(s) ==
  IF s.cpu.prio = Low THEN s
  ELSE [s EXCEPT !.cpu = [s.shadow EXCEPT !.prio = Low, !.running = s.shadowValid],
                 !.shadowValid = FALSE]

\* And with the first deferred trap taken out.
FirstDeferred(s) ==
  [ToLow(s) EXCEPT !.cpu.valid = @ \/ ToLow(s).cpu.running, !.pendingLow = Tail(@)]

\* Low priority takes over, as it was left, with its first deferred trap taken out.
LEMMA ToLowKeeps ==
  ASSUME NEW s, Good(kernel, s), ~HandlersActive(s), LowMayTrap(s), s.pendingLow # <<>>
  PROVE  LET u == FirstDeferred(s)
             d == Head(s.pendingLow)
         IN  /\ Good(kernel, u) /\ ~HandlersActive(u) /\ u.cpu.prio = Low /\ u.irqs = <<>>
             /\ d.proc \in LowProc /\ d.cause \in Causes /\ d.cause \in kernel.mask[Low]
             /\ d.cause # "PROCESS"
             /\ u.queue = s.queue /\ u.mask = s.mask /\ u.pendingLow = Tail(s.pendingLow)
<1> DEFINE t == ToLow(s)
           u == FirstDeferred(s)
           d == Head(s.pendingLow)
           Entry == [cause : {"RUN", "SIGNAL"}, proc : LowProc]
<1>1. /\ s \in Processor /\ OfProgram(s.cpu) /\ s.cpu.prio \in {High, Low}
      /\ s.shadow.prio = Low /\ OfProgram(s.shadow) /\ s.frames = <<>> /\ s.irqs = <<>>
      /\ s.shadowValid => s.shadow.running /\ s.cpu.prio = High
      /\ s.shadowValid \in BOOLEAN
  BY NoHandlers
<1>2. s.shadow \in Bank /\ s.cpu \in Bank
  BY <1>1 DEF Processor
<1> DEFINE c == IF s.cpu.prio = Low THEN s.cpu
                ELSE [s.shadow EXCEPT !.prio = Low, !.running = s.shadowValid]
<1>3. c \in Bank /\ c.prio = Low /\ OfProgram(c)
  <2>1. CASE s.cpu.prio = Low
    BY <1>1, <1>2, <2>1
  <2>2. CASE s.cpu.prio # Low
    <3>1. c = [s.shadow EXCEPT !.prio = Low, !.running = s.shadowValid]
      BY <2>2
    <3> HIDE DEF c
    <3> QED BY <1>1, <1>2, <3>1 DEF Bank, OfProgram, Priority
  <2> QED BY <2>1, <2>2
<1>4. /\ t \in Processor /\ t.cpu = c /\ t.shadow = s.shadow /\ ~t.shadowValid
      /\ t.pendingLow = s.pendingLow /\ t.queue = s.queue /\ t.late = s.late
      /\ SameHandlers(s, t)
  <2>1. CASE s.cpu.prio = Low
    <3>1. ~s.shadowValid
      BY <1>1, <2>1, TrapsAssumption
    <3> QED BY <1>1, <2>1, <3>1 DEF ToLow, SameHandlers
  <2>2. CASE s.cpu.prio # Low
    <3>1. t = [s EXCEPT !.cpu = c, !.shadowValid = FALSE]
      BY <2>2 DEF ToLow
    <3> HIDE DEF c, t
    <3> QED BY <1>1, <1>3, <3>1 DEF Processor, SameHandlers
  <2> QED BY <2>1, <2>2
<1>5. s.pendingLow \in Seq(Entry)
  BY <1>1 DEF Processor
<1>6. /\ Tail(s.pendingLow) \in Seq(Entry) /\ Len(Tail(s.pendingLow)) = Len(s.pendingLow) - 1
      /\ \A i \in 1 .. Len(Tail(s.pendingLow)) : Tail(s.pendingLow)[i] = s.pendingLow[i + 1]
      /\ Len(s.pendingLow) \in Nat /\ Len(s.pendingLow) > 0
      /\ d = s.pendingLow[1] /\ d \in Entry
  <2>1. /\ Tail(s.pendingLow) \in Seq(Entry) /\ Len(Tail(s.pendingLow)) = Len(s.pendingLow) - 1
        /\ \A i \in 1 .. Len(Tail(s.pendingLow)) : Tail(s.pendingLow)[i] = s.pendingLow[i + 1]
        /\ d \in Entry
    BY <1>5, HeadTailProperties
  <2>2. Len(s.pendingLow) \in Nat /\ Len(s.pendingLow) > 0
    BY <1>5, EmptySeq, LenProperties
  <2> QED BY <1>5, <2>1, <2>2
<1> HIDE DEF c, t
<1> DEFINE a == Tail(s.pendingLow)
           e == [c EXCEPT !.valid = c.valid \/ c.running]
<1>7. e \in Bank /\ e.prio = Low /\ OfProgram(e)
  BY <1>3 DEF Bank, OfProgram
<1>8. u = [t EXCEPT !.cpu = e, !.pendingLow = a]
  BY <1>4 DEF FirstDeferred, t, Processor
<1> HIDE DEF u, e, a
<1>9. /\ u \in Processor /\ u.cpu = e /\ u.shadow = s.shadow /\ ~u.shadowValid
      /\ u.pendingLow = a /\ u.queue = s.queue /\ u.late = s.late
      /\ u.frames = s.frames /\ u.irqs = s.irqs /\ u.record = s.record /\ u.word = s.word
      /\ u.mask = s.mask /\ u.error = s.error
  BY <1>4, <1>6, <1>7, <1>8 DEF Processor, SameHandlers, a
<1>10. \A i \in 1 .. Len(a) : a[i].cause \in kernel.mask[Low]
  <2>1. \A i \in 1 .. Len(a) : i + 1 \in 1 .. Len(s.pendingLow)
    BY <1>6 DEF a
  <2> QED BY <1>6, <2>1 DEF Good, Masks, a
<1>11. d.cause \in kernel.mask[Low]
  <2>1. 1 \in 1 .. Len(s.pendingLow)
    BY <1>6
  <2> QED BY <1>6, <2>1 DEF Good, Masks
<1> DEFINE v == [u EXCEPT !.pendingLow = s.pendingLow]
<1>12. Good(kernel, v)
  <2>1. /\ v \in Processor /\ SameHandlers(s, v) /\ v.cpu = e /\ v.shadow = s.shadow
        /\ ~v.shadowValid /\ v.queue = s.queue /\ v.late = s.late
    BY <1>5, <1>9 DEF Processor, SameHandlers
  <2> HIDE DEF v
  <2>2. ListsByPriority(v)
    BY <2>1 DEF Good, ListsByPriority
  <2> QED BY <1>1, <1>7, <2>1, <2>2, BanksChange
<1>13. /\ u.frames = v.frames /\ u.irqs = v.irqs /\ u.record = v.record /\ u.word = v.word
       /\ u.mask = v.mask /\ u.error = v.error /\ SameBanks(v, u) /\ u.queue = v.queue
       /\ u.late = v.late
  BY <1>9 DEF Processor, SameBanks
<1> HIDE DEF v
<1>14. Masks(kernel, u)
  BY <1>9, <1>10, <1>12, <1>13 DEF Good, Masks, Active
<1>15. ListsByPriority(u) /\ Stack(u) /\ OwnTraps(u)
  BY <1>12, <1>13 DEF Good, SameBanks, ListsByPriority, Stack, OwnTraps
<1>16. PutAside(u)
  BY <1>12, <1>13 DEF Good, SameBanks, PutAside, Bottom, Replaced, LowBank, LowBankValid
<1>17. Records(u) /\ Masked(kernel, u)
  BY <1>12, <1>13 DEF Good, Records, Masked, Active
<1>18. Good(kernel, u)
  BY <1>9, <1>14, <1>15, <1>16, <1>17 DEF Good
<1>19. ~HandlersActive(u)
  BY <1>1, <1>9 DEF HandlersActive, trapHandlerActive, interruptHandlerActive
<1>20. d.cause \in Causes /\ d.cause # "PROCESS"
  BY <1>6 DEF Causes
<1> QED BY <1>1, <1>6, <1>7, <1>9, <1>11, <1>18, <1>19, <1>20 DEF u, a

\* A trap leaves the lists and the interrupts alone.
Leaves(s, t) == t.irqs = s.irqs /\ t.pendingTimer = s.pendingTimer /\ t.late = s.late

\* A request for a trap changes neither interrupts, timers nor ready queues.
LEMMA RequestLeaves ==
  ASSUME NEW s, Good(kernel, s), NEW cause \in Causes, NEW p \in Priority,
         NEW q \in Proc \union {NoProc}, MayRequest(s, cause, p, q)
  PROVE  /\ Leaves(s, requestTrap(s, cause, p, q))
         /\ requestTrap(s, cause, p, q).queue = s.queue
         /\ s.cpu.running => requestTrap(s, cause, p, q).cpu.running
<1> DEFINE t == requestTrap(s, cause, p, q)
<1>1. s \in Processor
  BY DEF Good
<1>2. Leaves(s, Reentered(s)) /\ Reentered(s).queue = s.queue /\ Reentered(s).cpu = s.cpu
  BY <1>1 DEF Processor, Leaves, Reentered
<1>3. Leaves(s, PutOff(s, cause, q)) /\ PutOff(s, cause, q).queue = s.queue
      /\ PutOff(s, cause, q).cpu = s.cpu
  BY <1>1 DEF Processor, Leaves, PutOff
<1>4. Entered(s, cause, p, q, EnterTrap(s, cause, p, q))
  BY <1>1, EnterTrapIs
<1> DEFINE e == EnterTrap(s, cause, p, q)
<1> HIDE DEF e
<1>5. Leaves(s, e) /\ e.queue = s.queue /\ e.cpu.running
  BY <1>4 DEF Entered, Leaves, SamePlaces, e
<1>6. t = s \/ t = Reentered(s) \/ t = PutOff(s, cause, q) \/ t = e
  BY RequestOutcomes DEF e
<1> HIDE DEF t
<1>7. Leaves(s, t) /\ t.queue = s.queue /\ (s.cpu.running => t.cpu.running)
  BY <1>2, <1>3, <1>5, <1>6 DEF Leaves
<1> QED BY <1>7 DEF t

\* With no handler active an enabled trap is taken, unless it is put off.
LEMMA RequestEnters ==
  ASSUME NEW s, Good(kernel, s), NEW cause \in Causes, NEW p \in Priority,
         NEW q \in Proc \union {NoProc}, MayRequest(s, cause, p, q),
         ~HandlersActive(s), cause \in s.mask[p], ~Deferred(s, cause, p)
  PROVE  LET t == requestTrap(s, cause, p, q)
         IN  /\ t = EnterTrap(s, cause, p, q)
             /\ t.cpu.running /\ t.frames # <<>> /\ HandlersActive(t)
<1> DEFINE t == requestTrap(s, cause, p, q)
<1>1. ~Active(s, p) /\ s \in Processor
  BY NoHandlers
<1>2. t = EnterTrap(s, cause, p, q)
  BY <1>1, RequestOutcomes
<1>3. Entered(s, cause, p, q, t)
  BY <1>1, <1>2, EnterTrapIs
<1> HIDE DEF t
<1>4. t.cpu.running /\ Len(t.frames) = Len(s.frames) + 1 /\ Len(s.frames) \in Nat
  BY <1>1, <1>3, FrameTypes DEF Entered
<1>5. t.frames # <<>>
  <2>1. Len(t.frames) # 0 /\ Len(<<>>) = 0
    BY <1>4, EmptySeq
  <2> QED BY <2>1
<1> QED BY <1>2, <1>4, <1>5 DEF t, HandlersActive, trapHandlerActive

\* A report of an empty queue is the entry to a handler.
LEMMA ReportEmptyEnters ==
  ASSUME NEW s, Good(kernel, s), ~HandlersActive(s), NEW p \in Priority,
         p = Low => s.cpu.prio = Low, MayReport(s, p)
  PROVE  LET e == EnterTrap(s, "QUEUE_EMPTY", p, NoProc)
             t == ReportEmpty(s, p)
         IN  /\ Good(kernel, e) /\ Entered(s, "QUEUE_EMPTY", p, NoProc, e)
             /\ MayEnter(s, "QUEUE_EMPTY", p)
             /\ t = IF e.error = "none" THEN [e EXCEPT !.reported[p] = TRUE] ELSE e
             /\ t.cpu.running /\ t.frames # <<>> /\ HandlersActive(t) /\ Leaves(s, t)
<1> DEFINE e == EnterTrap(s, "QUEUE_EMPTY", p, NoProc)
           t == ReportEmpty(s, p)
<1>1. /\ "QUEUE_EMPTY" \in Causes /\ "QUEUE_EMPTY" \in s.mask[p] /\ s.irqs = <<>>
      /\ ~Deferred(s, "QUEUE_EMPTY", p) /\ ~Active(s, p) /\ s \in Processor
  BY NoHandlers DEF Causes, MayReport, Deferred
<1>2. MayRequest(s, "QUEUE_EMPTY", p, NoProc) /\ MayEnter(s, "QUEUE_EMPTY", p)
  BY <1>1 DEF MayRequest, MayEnter
<1>3. /\ requestTrap(s, "QUEUE_EMPTY", p, NoProc) = e
      /\ e.cpu.running /\ e.frames # <<>>
  BY <1>1, <1>2, RequestEnters
<1>4. Good(kernel, e) /\ Entered(s, "QUEUE_EMPTY", p, NoProc, e)
  BY <1>1, <1>2, EnterTrapKeeps, EnterTrapIs
<1>5. t = IF e.error = "none" THEN [e EXCEPT !.reported[p] = TRUE] ELSE e
  BY <1>3 DEF ReportEmpty
<1> HIDE DEF e, t
<1>6. e \in Processor
  BY <1>4 DEF Good
<1>7. t.cpu = e.cpu /\ t.frames = e.frames /\ Leaves(e, t)
  BY <1>5, <1>6 DEF Processor, Leaves
<1>8. Leaves(s, t)
  BY <1>4, <1>7 DEF Leaves, Entered, SamePlaces
<1> QED BY <1>2, <1>3, <1>4, <1>5, <1>7, <1>8 DEF e, t, HandlersActive, trapHandlerActive

\* With no handler active, a dispatch leaves something running unless nothing can be.
LEMMA DispatchSettles ==
  ASSUME NEW s, Good(kernel, s), ~HandlersActive(s)
  PROVE  LET t == dispatchProcess(s)
         IN  /\ Leaves(s, t)
             /\ ~t.cpu.running => t = s /\ Settled(s)
<1> DEFINE t == dispatchProcess(s)
           Result == Leaves(s, t) /\ (~t.cpu.running => t = s /\ Settled(s))
<1>1. /\ s \in Processor /\ s.cpu.prio \in Priority /\ Low \in Priority /\ High # Low
      /\ s.irqs = <<>>
  BY NoHandlers DEF Priority
<1>2. ASSUME t = ReportEmpty(s, s.cpu.prio), OwnQueueEmpty(s) PROVE Result
  <2>1. MayReport(s, s.cpu.prio)
    BY <1>2 DEF OwnQueueEmpty
  <2> HIDE DEF t
  <2> QED BY <1>1, <1>2, <2>1, ReportEmptyEnters
<1>3. ASSUME t = ReportEmpty(Drop(s), Low), BothQueuesEmpty(s) PROVE Result
  <2>1. MayReport(s, Low) /\ ~s.shadowValid
    BY <1>3 DEF BothQueuesEmpty
  <2> DEFINE d == Drop(s)
  <2>2. Good(kernel, d) /\ ~HandlersActive(d) /\ d.cpu.prio = Low
    BY <2>1, DropKeeps
  <2>3. MayReport(d, Low) /\ Leaves(s, d)
    BY <1>1, <2>1 DEF MayReport, Drop, Processor, Leaves
  <2> HIDE DEF t, d
  <2>4. t.cpu.running /\ Leaves(d, t)
    BY <1>1, <1>3, <2>2, <2>3, ReportEmptyEnters DEF d
  <2> QED BY <2>3, <2>4 DEF Leaves
<1>4. ASSUME t = ResumeShadow(s), s.shadowValid PROVE Result
  <2>1. t.cpu = s.shadow /\ Leaves(s, t)
    BY <1>1, <1>4 DEF ResumeShadow, Processor, Leaves
  <2>2. s.shadow.running
    BY <1>4, NoHandlers
  <2> HIDE DEF t
  <2> QED BY <2>1, <2>2
<1>5. ASSUME NEW p \in Priority, t = Switch(s, p), MaySwitch(s, p) PROVE Result
  <2> DEFINE w == Switched(s, p)
             q == Head(s.queue[p])
  <2>1. Good(kernel, w) /\ w.cpu = Running(q, p) /\ q \in Of(p) /\ w.late = s.late
        /\ SameHandlers(s, w)
    BY <1>5, SwitchedKeeps
  <2>2. w.pendingTimer = s.pendingTimer
    BY <1>1 DEF Switched, Processor
  <2>3. Leaves(s, w)
    BY <2>1, <2>2 DEF Leaves, SameHandlers
  <2>4. w.cpu.running
    BY <2>1 DEF Running
  <2>5. s.cpu.running => MayRequest(w, "PROCESS", p, q)
    BY <1>1, <1>5 DEF MayRequest, MaySwitch
  <2>6. q \in Proc \union {NoProc} /\ "PROCESS" \in Causes
    BY <2>1 DEF Of, Causes
  <2> HIDE DEF w, q
  <2>7. CASE s.cpu.running
    <3>1. t = requestTrap(w, "PROCESS", p, q)
      BY <1>5, <2>7, SwitchIs DEF w, q
    <3> HIDE DEF t
    <3>2. Leaves(w, t) /\ t.cpu.running
      BY <2>1, <2>4, <2>5, <2>6, <2>7, <3>1, RequestLeaves
    <3> QED BY <2>3, <3>2 DEF Leaves
  <2>8. CASE ~s.cpu.running
    <3>1. t = w
      BY <1>5, <2>8, SwitchIs DEF w, q
    <3> HIDE DEF t
    <3> QED BY <2>3, <2>4, <3>1
  <2> QED BY <2>7, <2>8
<1>6. ASSUME t = s, Settled(s) PROVE Result
  BY <1>6 DEF Leaves
<1>7. \/ t = s /\ Settled(s)
      \/ t = ReportEmpty(s, s.cpu.prio) /\ OwnQueueEmpty(s)
      \/ t = ReportEmpty(Drop(s), Low) /\ BothQueuesEmpty(s)
      \/ t = ResumeShadow(s) /\ s.shadowValid
      \/ \E p \in Priority : t = Switch(s, p) /\ MaySwitch(s, p)
  BY DispatchOutcomes
<1> HIDE DEF t
<1>8. Result
  BY <1>2, <1>3, <1>4, <1>5, <1>6, <1>7
<1> QED BY <1>8 DEF t

\* The first of the traps put off is taken.
LEMMA TakeDeferredKeeps ==
  ASSUME NEW s, Good(kernel, s), ~HandlersActive(s), LowMayTrap(s), s.pendingLow # <<>>
  PROVE  Good(kernel, TakeDeferred(s))
<1> DEFINE u == FirstDeferred(s)
           d == Head(s.pendingLow)
<1>1. TakeDeferred(s) = IF d.cause \in u.mask[Low] THEN requestTrap(u, d.cause, Low, d.proc)
                        ELSE dispatchProcess(enqueueProcess(u, d.proc))
  BY DEF TakeDeferred, FirstDeferred, ToLow
<1>2. /\ Good(kernel, u) /\ u.cpu.prio = Low /\ u.irqs = <<>>
      /\ d.proc \in LowProc /\ d.cause \in Causes
  BY ToLowKeeps
<1> HIDE DEF u, d
<1>3. d.proc \in Proc /\ Low \in Priority
  BY <1>2, TrapsAssumption DEF Priority
<1>4. MayRequest(u, d.cause, Low, d.proc)
  BY <1>2 DEF MayRequest
<1>5. Good(kernel, requestTrap(u, d.cause, Low, d.proc))
  BY <1>2, <1>3, <1>4, RequestKeeps
<1>6. Good(kernel, dispatchProcess(enqueueProcess(u, d.proc)))
  BY <1>2, <1>3, EnqueueKeeps, DispatchKeeps
<1> QED BY <1>1, <1>5, <1>6

\* The pending timer trap is of no consequence to the handlers.
LEMMA PendingTimerKeeps ==
  ASSUME NEW s, Good(kernel, s), NEW q \in Proc \union {NoProc}
  PROVE  Good(kernel, [s EXCEPT !.pendingTimer = q])
<1> DEFINE t == [s EXCEPT !.pendingTimer = q]
<1>1. s \in Processor
  BY DEF Good
<1>2. t \in Processor /\ SameHandlers(s, t) /\ SameBanks(s, t) /\ t.queue = s.queue
      /\ t.late = s.late
  BY <1>1 DEF Processor, SameHandlers, SameBanks
<1> HIDE DEF t
<1>3. ListsByPriority(t)
  BY <1>2 DEF Good, ListsByPriority
<1>4. Good(kernel, t)
  BY <1>2, <1>3, ListsChange
<1> QED BY <1>4 DEF t

\* What a timer trap that is taken at once needs.
TimerReady(s) ==
  /\ s.pendingTimer \in Proc
  /\ PriorityOf(s.pendingTimer) = Low => s.irqs = <<>> /\ s.cpu.prio = Low

\* The pending timer trap, taken at its own priority or over low priority.
LEMMA TakeTimerNowKeeps ==
  ASSUME NEW s, Good(kernel, s), TimerReady(s)
  PROVE  Good(kernel, TakeTimerNow(s))
<1> DEFINE q == s.pendingTimer
           t == TrapOrEnqueue(s, "TIMER", q)
           u == [t EXCEPT !.pendingTimer = NoProc]
<1>1. MayRequest(s, "TIMER", PriorityOf(q), q) /\ q \in Proc /\ "TIMER" \in Causes
  BY DEF MayRequest, TimerReady, Causes
<1>2. Good(kernel, t)
  BY <1>1, TrapOrEnqueueKeeps
<1>3. \/ TakeTimerNow(s) = t \/ TakeTimerNow(s) = u \/ TakeTimerNow(s) = dispatchProcess(u)
  BY DEF TakeTimerNow
<1> HIDE DEF t
<1>4. Good(kernel, u)
  BY <1>2, PendingTimerKeeps
<1> HIDE DEF u
<1>5. Good(kernel, dispatchProcess(u))
  BY <1>4, DispatchKeeps
<1> QED BY <1>2, <1>3, <1>4, <1>5

\* The pending timer trap, taken once the processor has the right priority.
LEMMA TakeTimerKeeps ==
  ASSUME NEW s, Good(kernel, s), ~HandlersActive(s), s.pendingTimer # NoProc
  PROVE  Good(kernel, TakeTimer(s))
<1> DEFINE p == PriorityOf(s.pendingTimer)
           below == p = Low /\ s.cpu.prio = High
           t == dispatchProcess(s)
<1>1. s.pendingTimer \in Proc /\ s.irqs = <<>> /\ s.cpu.prio \in {High, Low}
  BY NoHandlers DEF Good, Processor
<1>2. Good(kernel, t) /\ Leaves(s, t) /\ (~t.cpu.running => t = s /\ Settled(s))
  BY DispatchKeeps, DispatchSettles
<1>3. t.irqs = <<>> /\ t.pendingTimer = s.pendingTimer
  BY <1>1, <1>2 DEF Leaves
<1>4. \/ TakeTimer(s) = t
      \/ TakeTimer(s) = TakeTimerNow(t) /\ t.cpu.prio = Low
      \/ TakeTimer(s) = TakeTimerNow(Drop(t)) /\ ~t.cpu.running
      \/ TakeTimer(s) = TakeTimerNow(s) /\ ~below
  BY DEF TakeTimer, Drop
<1>5. t.cpu.prio = Low => Good(kernel, TakeTimerNow(t))
  BY <1>1, <1>2, <1>3, TakeTimerNowKeeps DEF TimerReady
<1>6. ~t.cpu.running => Good(kernel, TakeTimerNow(Drop(t)))
  <2>1. SUFFICES ASSUME ~t.cpu.running PROVE Good(kernel, TakeTimerNow(Drop(s)))
    BY <1>2
  <2>2. ~s.shadowValid
    BY <1>2, <2>1 DEF Settled
  <2> DEFINE d == Drop(s)
  <2>3. Good(kernel, d) /\ d.cpu.prio = Low
    BY <2>2, DropKeeps
  <2>4. d.irqs = s.irqs /\ d.pendingTimer = s.pendingTimer
    BY DEF Drop, Good, Processor
  <2> HIDE DEF d
  <2>5. Good(kernel, TakeTimerNow(d))
    BY <1>1, <2>3, <2>4, TakeTimerNowKeeps DEF TimerReady
  <2> QED BY <2>5 DEF d
<1>7. ~below => Good(kernel, TakeTimerNow(s))
  BY <1>1, TakeTimerNowKeeps DEF TimerReady
<1> HIDE DEF t
<1> QED BY <1>2, <1>4, <1>5, <1>6, <1>7

\* The poll between two instructions.
LEMMA PollKeeps ==
  ASSUME NEW s, Good(kernel, s)
  PROVE  Good(kernel, pollTimers(s))
<1> DEFINE t == releaseTimers(s)
<1>1. Good(kernel, t)
  BY ReleaseKeeps
<1>2. \/ pollTimers(s) = s \/ pollTimers(s) = t
      \/ /\ ~HandlersActive(t) /\ pollTimers(s) = TakeDeferred(t)
         /\ t.pendingLow # <<>> /\ LowMayTrap(t)
      \/ ~HandlersActive(t) /\ pollTimers(s) = TakeTimer(t) /\ t.pendingTimer # NoProc
      \/ pollTimers(s) = dispatchProcess(t)
  <2>1. s.error \in {"none", "TRAP_REENTRY"}
    BY DEF Good, Processor
  <2> QED BY <2>1 DEF pollTimers
<1> HIDE DEF t
<1> QED BY <1>1, <1>2, TakeDeferredKeeps, TakeTimerKeeps, DispatchKeeps

-----------------------------------------------------------------------------
\* What an instruction does outside the banks, the frames and the masks.
LEMMA OutsideKeeps ==
  ASSUME NEW s, Good(kernel, s), NEW t \in Processor, SameHandlers(s, t), SameBanks(s, t),
         t.queue = s.queue, t.late = s.late
  PROVE  Good(kernel, t)
<1>1. ListsByPriority(t)
  BY DEF Good, ListsByPriority
<1> QED BY <1>1, ListsChange

\* A sleeper whose deadline has come is late.
Overslept(s, q) ==
  [s EXCEPT !.asleep = @ \ {q}, !.late[PriorityOf(q)] = Append(@, q)]

\* One more sleeper is due.
LEMMA OversleptKeeps ==
  ASSUME NEW s, Good(kernel, s), NEW q \in Proc
  PROVE  /\ Good(kernel, Overslept(s, q)) /\ SameHandlers(s, Overslept(s, q))
         /\ SameBanks(s, Overslept(s, q))
<1> DEFINE p == PriorityOf(q)
           t == Overslept(s, q)
           a == Append(s.late[p], q)
<1>1. s \in Processor /\ p \in Priority /\ q \in Of(p)
  BY DEF Good, PriorityOf, Priority, Of
<1>2. s.late[p] \in Seq(Of(p)) /\ s.late[p] \in Seq(Proc)
  BY <1>1 DEF Good, ListsByPriority, Processor
<1>3. a \in Seq(Of(p)) /\ a \in Seq(Proc)
  BY <1>1, <1>2, AppendProperties
<1>4. t = [s EXCEPT !.asleep = s.asleep \ {q}, !.late[p] = a]
  BY <1>1 DEF Overslept, Processor
<1> HIDE DEF p, t, a
<1>5. /\ t \in Processor /\ SameHandlers(s, t) /\ SameBanks(s, t)
      /\ t.late = [s.late EXCEPT ![p] = a] /\ t.queue = s.queue
  BY <1>1, <1>3, <1>4 DEF Processor, SameHandlers, SameBanks
<1>6. ListsByPriority(t)
  BY <1>1, <1>3, <1>5 DEF ListsByPriority, Good, Processor
<1>7. Good(kernel, t)
  BY <1>5, <1>6, ListsChange
<1> QED BY <1>5, <1>7 DEF t

\* An instruction ends with the poll of what it has made.
Polls == \E s : Good(kernel, s) /\ m' = pollTimers(s)

\* An instruction ends with a poll of a state that satisfies the invariant.
LEMMA FinishPolls ==
  ASSUME NEW s, Good(kernel, s), Finish(s)
  PROVE  Polls
<1>1. s.asleep \subseteq Proc
  BY DEF Good, Processor
<1>2. PICK q \in s.asleep \union {NoProc} :
        m' = IF q = NoProc THEN pollTimers(s) ELSE pollTimers(Overslept(s, q))
  BY DEF Finish, Overslept
<1>3. CASE q = NoProc
  BY <1>2, <1>3 DEF Polls
<1>4. CASE q # NoProc
  <2>1. q \in Proc
    BY <1>1, <1>4
  <2>2. Good(kernel, Overslept(s, q))
    BY <2>1, OversleptKeeps
  <2> QED BY <1>2, <1>4, <2>2 DEF Polls
<1> QED BY <1>3, <1>4

-----------------------------------------------------------------------------
\* The instructions of the program.  No handler is active while it executes.
LEMMA ProgramExecutes ==
  ASSUME Good(kernel, m), Executing
  PROVE  ~HandlersActive(m) /\ Current \in Proc /\ m.cpu.running /\ m.error = "none"
<1> DEFINE f == Len(m.frames)
           n == Len(m.irqs)
<1>1. /\ f \in Nat /\ n \in Nat /\ (m.frames = <<>> <=> f = 0) /\ (m.irqs = <<>> <=> n = 0)
      /\ \A i \in 1 .. f : m.frames[i] \in Frame
      /\ \A i \in 1 .. n : m.irqs[i] \in Irq
  BY FrameTypes DEF Good
<1>2. Nested(m.frames, m.irqs) /\ OnTop(m.frames, m.irqs, f, n, m.cpu)
  BY DEF Good, Stack
<1>3. Current \in Proc /\ m.cpu.running /\ m.error = "none"
  BY DEF Executing
<1>4. \A i \in 1 .. n : m.irqs[i].depth \in Nat /\ m.irqs[i].depth <= f /\ m.irqs[i].level \in Level
  BY <1>1, <1>2 DEF Nested, Irq
<1>5. \A i \in 1 .. f : m.frames[i].prio \in Priority
  BY <1>1 DEF Frame
<1> HIDE DEF f, n
<1>6. ~(n > 0 /\ m.irqs[n].depth = f)
  <2>1. SUFFICES ASSUME n > 0, m.irqs[n].depth = f PROVE FALSE
    OBVIOUS
  <2>2. n \in 1 .. n
    BY <1>1, <2>1
  <2> QED BY <1>2, <1>3, <1>4, <2>1, <2>2, TrapsAssumption DEF OnTop, Current
<1>7. f = 0
  <2>1. SUFFICES ASSUME f > 0 PROVE FALSE
    BY <1>1
  <2>2. f \in 1 .. f
    BY <1>1, <2>1
  <2> QED BY <1>2, <1>3, <1>5, <1>6, <2>1, <2>2, TrapsAssumption DEF OnTop, Current
<1>8. n = 0
  <2>1. SUFFICES ASSUME n > 0 PROVE FALSE
    BY <1>1
  <2>2. n \in 1 .. n
    BY <1>1, <2>1
  <2>3. m.irqs[n].depth = 0
    BY <1>4, <1>7, <2>2
  <2> QED BY <1>6, <1>7, <2>1, <2>3
<1> QED BY <1>1, <1>3, <1>7, <1>8 DEF HandlersActive, trapHandlerActive, interruptHandlerActive

\* The executing process stops, in one way or another, or goes on.
LEMMA ProgramBank ==
  ASSUME NEW s, Good(kernel, s), ~HandlersActive(s), s.cpu.wptr \in Proc, s.cpu.running,
         NEW t \in Processor, SameHandlers(s, t), t.queue = s.queue, t.late = s.late,
         t.shadow = s.shadow, t.shadowValid = s.shadowValid,
         t.cpu.wptr = s.cpu.wptr, t.cpu.prio = s.cpu.prio
  PROVE  Good(kernel, t)
<1>1. /\ s.frames = <<>> /\ s.irqs = <<>> /\ OfProgram(s.cpu) /\ OfProgram(s.shadow)
      /\ s.shadow.prio = Low /\ (s.shadowValid => s.shadow.running /\ s.cpu.prio = High)
  BY NoHandlers
<1>2. OfProgram(t.cpu)
  BY <1>1 DEF OfProgram
<1>3. ListsByPriority(t)
  BY DEF Good, ListsByPriority
<1> QED BY <1>1, <1>2, <1>3, BanksChange

\* The process that runs is suspended.
LEMMA SuspendKeeps ==
  ASSUME NEW s, Good(kernel, s), ~HandlersActive(s), s.cpu.wptr \in Proc, s.cpu.running
  PROVE  Good(kernel, suspendProcess(s))
<1> DEFINE t == suspendProcess(s)
           c == [s.cpu EXCEPT !.running = FALSE, !.intdis = FALSE, !.valid = FALSE]
<1>1. s \in Processor /\ s.cpu \in Bank
  BY DEF Good, Processor
<1>2. c \in Bank /\ c.wptr = s.cpu.wptr /\ c.prio = s.cpu.prio
  BY <1>1 DEF Bank
<1>3. t = [s EXCEPT !.cpu = c]
  BY <1>1 DEF suspendProcess, Processor, Bank
<1> HIDE DEF t, c
<1>4. /\ t \in Processor /\ SameHandlers(s, t) /\ t.queue = s.queue /\ t.late = s.late
      /\ t.shadow = s.shadow /\ t.shadowValid = s.shadowValid /\ t.cpu = c
  BY <1>1, <1>2, <1>3 DEF Processor, SameHandlers
<1>5. Good(kernel, t)
  BY <1>2, <1>4, ProgramBank
<1> QED BY <1>5 DEF t

\* A process of low priority is told of as one.
LEMMA LowIsLow ==
  ASSUME NEW q \in Proc
  PROVE  PriorityOf(q) \in Priority /\ (PriorityOf(q) = Low => q \in LowProc)
  BY TrapsAssumption DEF PriorityOf, Priority

\* runp and startp.
LEMMA RunKeeps ==
  ASSUME Good(kernel, m), NEW q \in Proc, Run(q)
  PROVE  Polls
<1> DEFINE s == [m EXCEPT !.stopped = @ \ {q}]
<1>1. s \in Processor /\ SameHandlers(m, s) /\ SameBanks(m, s) /\ s.queue = m.queue
      /\ s.late = m.late
  BY DEF Good, Processor, SameHandlers, SameBanks
<1>2. Finish(TrapOrEnqueue(s, "RUN", q))
  BY DEF Run
<1> HIDE DEF s
<1>3. Good(kernel, s)
  BY <1>1, OutsideKeeps
<1>4. MayRequest(s, "RUN", PriorityOf(q), q)
  BY LowIsLow DEF MayRequest
<1>5. Good(kernel, TrapOrEnqueue(s, "RUN", q))
  BY <1>3, <1>4, TrapOrEnqueueKeeps DEF Causes
<1> QED BY <1>2, <1>5, FinishPolls

\* in or out with a partner that waits.
LEMMA CommunicateKeeps ==
  ASSUME Good(kernel, m), NEW q \in Proc, Communicate(q)
  PROVE  Polls
<1> DEFINE s == [m EXCEPT !.channel = @ \ {q}]
<1>1. s \in Processor /\ SameHandlers(m, s) /\ SameBanks(m, s) /\ s.queue = m.queue
      /\ s.late = m.late
  BY DEF Good, Processor, SameHandlers, SameBanks
<1>2. Finish(TrapOrEnqueue(s, "INTERNALCH", q)) /\ Executing
  BY DEF Communicate
<1> HIDE DEF s
<1>3. Good(kernel, s)
  BY <1>1, OutsideKeeps
<1>4. s.irqs = <<>>
  BY <1>1, <1>2, ProgramExecutes, NoHandlers DEF SameHandlers
<1>5. MayRequest(s, "INTERNALCH", PriorityOf(q), q)
  BY <1>4 DEF MayRequest
<1>6. Good(kernel, TrapOrEnqueue(s, "INTERNALCH", q))
  BY <1>3, <1>5, TrapOrEnqueueKeeps DEF Causes
<1> QED BY <1>2, <1>6, FinishPolls

\* Stop, Sleep and AwaitChannel put the process somewhere and suspend it.
LEMMA PutKeeps ==
  ASSUME Good(kernel, m), Executing, NEW s \in Processor, SameHandlers(m, s), SameBanks(m, s),
         s.queue = m.queue, s.late = m.late
  PROVE  Good(kernel, suspendProcess(s))
<1>1. Good(kernel, s)
  BY OutsideKeeps
<1>2. ~HandlersActive(m) /\ m.cpu.wptr \in Proc /\ m.cpu.running
  BY ProgramExecutes DEF Current
<1>3. ~HandlersActive(s) /\ s.cpu.wptr \in Proc /\ s.cpu.running
  BY <1>2 DEF SameHandlers, SameBanks, HandlersActive, trapHandlerActive, interruptHandlerActive
<1> QED BY <1>1, <1>3, SuspendKeeps

\* A process stops.
LEMMA StopKeeps ==
  ASSUME Good(kernel, m), Stop
  PROVE  Polls
<1> DEFINE s == [m EXCEPT !.stopped = @ \union {Current}]
<1>1. Executing /\ Finish(suspendProcess(s)) /\ Current \in Proc
  BY DEF Stop, Executing
<1>2. s \in Processor /\ SameHandlers(m, s) /\ SameBanks(m, s) /\ s.queue = m.queue
      /\ s.late = m.late
  BY <1>1 DEF Good, Processor, SameHandlers, SameBanks
<1> HIDE DEF s
<1> QED BY <1>1, <1>2, PutKeeps, FinishPolls

\* A process goes to the timer list.
LEMMA SleepKeeps ==
  ASSUME Good(kernel, m), Sleep
  PROVE  Polls
<1> DEFINE s == [m EXCEPT !.asleep = @ \union {Current}]
<1>1. Executing /\ Finish(suspendProcess(s)) /\ Current \in Proc
  BY DEF Sleep, Executing
<1>2. s \in Processor /\ SameHandlers(m, s) /\ SameBanks(m, s) /\ s.queue = m.queue
      /\ s.late = m.late
  BY <1>1 DEF Good, Processor, SameHandlers, SameBanks
<1> HIDE DEF s
<1> QED BY <1>1, <1>2, PutKeeps, FinishPolls

\* A process waits in a channel.
LEMMA AwaitChannelKeeps ==
  ASSUME Good(kernel, m), AwaitChannel
  PROVE  Polls
<1> DEFINE s == [m EXCEPT !.channel = @ \union {Current}]
<1>1. Executing /\ Finish(suspendProcess(s)) /\ Current \in Proc
  BY DEF AwaitChannel, Executing
<1>2. s \in Processor /\ SameHandlers(m, s) /\ SameBanks(m, s) /\ s.queue = m.queue
      /\ s.late = m.late
  BY <1>1 DEF Good, Processor, SameHandlers, SameBanks
<1> HIDE DEF s
<1> QED BY <1>1, <1>2, PutKeeps, FinishPolls

\* A process takes the semaphore, or queues for it.
LEMMA WaitKeeps ==
  ASSUME Good(kernel, m), Wait
  PROVE  Polls
<1>1. Executing /\ Current \in Proc /\ m \in Processor
  BY DEF Wait, Executing, Good
<1>2. CASE m.count # 0
  <2> DEFINE c == m.count - 1
             s == [m EXCEPT !.count = c]
  <2>1. c \in 0 .. MaxCount
    <3>1. m.count \in 0 .. MaxCount /\ MaxCount \in Nat
      BY <1>1, TrapsAssumption DEF Processor
    <3> QED BY <1>2, <3>1
  <2>2. Finish(s)
    BY <1>2 DEF Wait
  <2> HIDE DEF c
  <2>3. s \in Processor /\ SameHandlers(m, s) /\ SameBanks(m, s) /\ s.queue = m.queue
        /\ s.late = m.late
    BY <1>1, <2>1 DEF Processor, SameHandlers, SameBanks
  <2> HIDE DEF s
  <2> QED BY <2>2, <2>3, OutsideKeeps, FinishPolls
<1>3. CASE m.count = 0
  <2> DEFINE w == Append(m.waiters, Current)
             s == [m EXCEPT !.waiters = w]
  <2>1. w \in Seq(Proc)
    BY <1>1, AppendProperties DEF Processor
  <2>2. Finish(suspendProcess(s))
    BY <1>3 DEF Wait
  <2> HIDE DEF w
  <2>3. s \in Processor /\ SameHandlers(m, s) /\ SameBanks(m, s) /\ s.queue = m.queue
        /\ s.late = m.late
    BY <1>1, <2>1 DEF Processor, SameHandlers, SameBanks
  <2> HIDE DEF s
  <2> QED BY <1>1, <2>2, <2>3, PutKeeps, FinishPolls
<1> QED BY <1>2, <1>3

\* signalSemaphore, by the program or by an interrupt handler.
LEMMA SignalSemaphoreKeeps ==
  ASSUME Good(kernel, m), MaySignal
  PROVE  Good(kernel, signalSemaphore(m))
<1>1. m \in Processor /\ m.waiters \in Seq(Proc) /\ m.count \in 0 .. MaxCount /\ MaxCount \in Nat
  BY TrapsAssumption DEF Good, Processor
<1>2. CASE m.waiters = <<>>
  <2> DEFINE c == m.count + 1
             s == [m EXCEPT !.count = c]
  <2>1. c \in 0 .. MaxCount
    BY <1>1, <1>2 DEF MaySignal
  <2>2. signalSemaphore(m) = s
    BY <1>2 DEF signalSemaphore
  <2> HIDE DEF c
  <2>3. s \in Processor /\ SameHandlers(m, s) /\ SameBanks(m, s) /\ s.queue = m.queue
        /\ s.late = m.late
    BY <1>1, <2>1 DEF Processor, SameHandlers, SameBanks
  <2> HIDE DEF s
  <2> QED BY <2>2, <2>3, OutsideKeeps
<1>3. CASE m.waiters # <<>>
  <2> DEFINE w == Tail(m.waiters)
             q == Head(m.waiters)
             s == [m EXCEPT !.waiters = w]
  <2>1. w \in Seq(Proc) /\ q \in Proc
    BY <1>1, <1>3, HeadTailProperties
  <2>2. signalSemaphore(m) = TrapOrEnqueue(s, "SIGNAL", q)
    BY <1>3 DEF signalSemaphore
  <2> HIDE DEF w, q
  <2>3. s \in Processor /\ SameHandlers(m, s) /\ SameBanks(m, s) /\ s.queue = m.queue
        /\ s.late = m.late
    BY <1>1, <2>1 DEF Processor, SameHandlers, SameBanks
  <2> HIDE DEF s
  <2>4. Good(kernel, s) /\ MayRequest(s, "SIGNAL", PriorityOf(q), q)
    BY <2>1, <2>3, OutsideKeeps, LowIsLow DEF MayRequest
  <2> QED BY <2>1, <2>2, <2>4, TrapOrEnqueueKeeps DEF Causes
<1> QED BY <1>2, <1>3

\* signal, by the program or by an interrupt handler.
LEMMA SignalKeeps ==
  ASSUME Good(kernel, m), Signal \/ InterruptSignal
  PROVE  Polls
<1>1. MaySignal /\ Finish(signalSemaphore(m))
  BY DEF Signal, InterruptSignal
<1> QED BY <1>1, SignalSemaphoreKeeps, FinishPolls

\* A timeslice: the process goes to the back of its queue, or to the kernel.
LEMMA TimesliceKeeps ==
  ASSUME Good(kernel, m), Timeslice
  PROVE  Polls
<1> DEFINE q == Current
           p == m.cpu.prio
           c == [m.cpu EXCEPT !.running = FALSE, !.intdis = FALSE]
           s == [m EXCEPT !.cpu = c]
<1>1. /\ Executing /\ q \in Proc /\ m \in Processor /\ m.cpu \in Bank /\ p \in Priority
      /\ ~HandlersActive(m) /\ m.cpu.running /\ m.irqs = <<>>
  <2>1. Executing
    BY DEF Timeslice
  <2>2. m \in Processor /\ m.cpu \in Bank
    BY DEF Good, Processor
  <2>3. q \in Proc /\ ~HandlersActive(m) /\ m.cpu.running
    BY <2>1, ProgramExecutes
  <2>4. m.irqs = <<>>
    BY <2>3, NoHandlers
  <2> QED BY <2>1, <2>2, <2>3, <2>4 DEF Bank
<1>2. Finish(requestTrap(s, "TIMESLICE", p, q)) \/ Finish(enqueueProcess(s, q))
  <2>1. s = [m EXCEPT !.cpu.running = FALSE, !.cpu.intdis = FALSE]
    BY <1>1 DEF Processor, Bank
  <2> QED BY <2>1 DEF Timeslice
<1>3. c \in Bank /\ c.wptr = m.cpu.wptr /\ c.prio = m.cpu.prio
  BY <1>1 DEF Bank
<1> HIDE DEF c
<1>4. /\ s \in Processor /\ SameHandlers(m, s) /\ s.queue = m.queue /\ s.late = m.late
      /\ s.shadow = m.shadow /\ s.shadowValid = m.shadowValid /\ s.cpu = c
  BY <1>1, <1>3 DEF Processor, SameHandlers
<1> HIDE DEF s
<1>5. Good(kernel, s)
  BY <1>1, <1>3, <1>4, ProgramBank DEF Current
<1>6. s.irqs = <<>> /\ s.cpu.prio = p
  BY <1>1, <1>3, <1>4 DEF SameHandlers
<1> HIDE DEF q, p
<1>7. MayRequest(s, "TIMESLICE", p, q)
  BY <1>6 DEF MayRequest
<1>8. Good(kernel, requestTrap(s, "TIMESLICE", p, q))
  BY <1>1, <1>5, <1>7, RequestKeeps DEF Causes
<1>9. Good(kernel, enqueueProcess(s, q))
  BY <1>1, <1>5, EnqueueKeeps
<1> QED BY <1>2, <1>8, <1>9, FinishPolls

\* Interrupts are disabled and enabled, as long as one process runs.
LEMMA IntDisableKeeps ==
  ASSUME Good(kernel, m), IntDis \/ IntEnb
  PROVE  Polls
<1>1. Executing /\ \E b \in BOOLEAN : Finish([m EXCEPT !.cpu.intdis = b])
  BY DEF IntDis, IntEnb
<1>2. PICK b \in BOOLEAN : Finish([m EXCEPT !.cpu.intdis = b])
  BY <1>1
<1> DEFINE c == [m.cpu EXCEPT !.intdis = b]
           s == [m EXCEPT !.cpu = c]
<1>3. m \in Processor /\ m.cpu \in Bank
  BY DEF Good, Processor
<1>4. c \in Bank /\ c.wptr = m.cpu.wptr /\ c.prio = m.cpu.prio
  BY <1>3 DEF Bank
<1>5. Finish(s)
  BY <1>2, <1>3 DEF Processor, Bank
<1> HIDE DEF c
<1>6. /\ s \in Processor /\ SameHandlers(m, s) /\ s.queue = m.queue /\ s.late = m.late
      /\ s.shadow = m.shadow /\ s.shadowValid = m.shadowValid /\ s.cpu = c
  BY <1>3, <1>4 DEF Processor, SameHandlers
<1> HIDE DEF s
<1>7. Good(kernel, s)
  BY <1>1, <1>4, <1>6, ProgramExecutes, ProgramBank DEF Current
<1> QED BY <1>5, <1>7, FinishPolls

\* The processor with the low priority traps disabled.
TrapsDisabled == [m EXCEPT !.mask[Low] = @ \ kernel.cleared]

\* High priority disables traps of low priority.
LEMMA TrapDisableKeeps ==
  ASSUME kernel \in Kernels, Good(kernel, m), TrapDisable
  PROVE  Good(kernel, TrapsDisabled) /\ Finish(TrapsDisabled)
<1> DEFINE e == m.mask[Low] \ kernel.cleared
           s == [m EXCEPT !.mask[Low] = e]
<1>1. Executing /\ m \in Processor /\ ~HandlersActive(m) /\ Low \in Priority
  BY ProgramExecutes DEF TrapDisable, Good, Priority
<1>2. Finish(TrapsDisabled) /\ TrapsDisabled = s
  BY <1>1 DEF TrapDisable, TrapsDisabled, Processor
<1>3. m.mask \in [Priority -> SUBSET Causes] /\ e \in SUBSET Causes /\ ~Active(m, Low)
      /\ \A p \in Priority : ~Active(m, p)
  BY <1>1, NoHandlers DEF Processor
<1>4. e \in Enables(kernel, Low)
  BY <1>1, <1>3 DEF Good, Masks, Enables
<1> HIDE DEF e
<1>5. /\ s \in Processor /\ s.mask = [m.mask EXCEPT ![Low] = e] /\ SameBanks(m, s)
      /\ s.queue = m.queue /\ s.late = m.late /\ s.frames = m.frames /\ s.irqs = m.irqs
      /\ s.record = m.record /\ s.word = m.word /\ s.pendingLow = m.pendingLow
      /\ s.error = m.error
  BY <1>1, <1>3 DEF Processor, SameBanks
<1> HIDE DEF s
<1>6. Masks(kernel, s)
  BY <1>1, <1>3, <1>4, <1>5 DEF Good, Masks, Active
<1>7. Masked(kernel, s)
  BY <1>3, <1>5 DEF Good, Masked, Active
<1>8. ListsByPriority(s) /\ Stack(s) /\ Records(s) /\ OwnTraps(s)
  BY <1>5 DEF Good, SameBanks, ListsByPriority, Stack, Records, OwnTraps, Active
<1>9. PutAside(s)
  BY <1>5 DEF Good, SameBanks, PutAside, Bottom, Replaced, LowBank, LowBankValid
<1>10. Good(kernel, s)
  BY <1>5, <1>6, <1>7, <1>8, <1>9 DEF Good
<1> QED BY <1>2, <1>10

\* An idle processor goes on to the next deadline.
LEMMA AdvanceKeeps ==
  ASSUME Good(kernel, m), Advance
  PROVE  Polls
  BY FinishPolls DEF Advance

-----------------------------------------------------------------------------
\* The kernel's handlers.  One that executes is that of the last frame, and no
\* interrupt has come in on it.
OnFrame(s, p) ==
  LET f == Len(s.frames)
  IN  /\ f > 0 /\ s.frames[f].prio = p /\ Last(s.frames) = s.frames[f]
      /\ \A i \in 1 .. Len(s.irqs) : s.irqs[i].depth < f

\* When a trap handler runs, its frame is the last, over every interrupt.
LEMMA HandlerExecutes ==
  ASSUME Good(kernel, m), NEW p \in Priority, Handling(p)
  PROVE  /\ OnFrame(m, p) /\ m.cpu.running /\ m.error = "none"
         /\ m.cpu.prio = p /\ m.cpu.wptr = Handler[p]
<1> DEFINE f == Len(m.frames)
           n == Len(m.irqs)
<1>1. /\ f \in Nat /\ n \in Nat /\ m.frames \in Seq(Frame) /\ (m.frames = <<>> <=> f = 0)
      /\ \A i \in 1 .. f : m.frames[i] \in Frame
      /\ \A i \in 1 .. n : m.irqs[i] \in Irq
  BY FrameTypes DEF Good
<1>2. Nested(m.frames, m.irqs) /\ OnTop(m.frames, m.irqs, f, n, m.cpu)
  BY DEF Good, Stack
<1>3. m.cpu.wptr = Handler[p] /\ m.cpu.running /\ m.error = "none"
  BY DEF Handling, Current
<1>4. \A i \in 1 .. n : m.irqs[i].depth \in Nat /\ m.irqs[i].depth <= f /\ m.irqs[i].level \in Level
  BY <1>1, <1>2 DEF Nested, Irq
<1>5. \A i \in 1 .. f : m.frames[i].prio \in Priority
  BY <1>1 DEF Frame
<1>6. \A i, j \in 1 .. n : i < j => m.irqs[i].depth <= m.irqs[j].depth
  BY <1>2 DEF Nested
<1> HIDE DEF f, n
<1>7. ~(n > 0 /\ m.irqs[n].depth = f)
  <2>1. SUFFICES ASSUME n > 0, m.irqs[n].depth = f PROVE FALSE
    OBVIOUS
  <2>2. n \in 1 .. n
    BY <1>1, <2>1
  <2>3. m.cpu.wptr = Vector[m.irqs[n].level] /\ m.irqs[n].level \in Level
    BY <1>2, <1>4, <2>1, <2>2 DEF OnTop
  <2> QED BY <1>3, <2>3, TrapsAssumption
<1>8. f > 0
  <2>1. SUFFICES ASSUME ~(f > 0) PROVE FALSE
    OBVIOUS
  <2>2. m.cpu.wptr \in Proc \union {NoProc}
    BY <1>2, <1>7, <2>1 DEF OnTop, OfProgram
  <2> QED BY <1>3, <2>2, TrapsAssumption
<1>9. m.cpu.wptr = Handler[m.frames[f].prio] /\ m.cpu.prio = m.frames[f].prio
      /\ m.frames[f].prio \in Priority
  <2>1. f \in 1 .. f
    BY <1>1, <1>8
  <2> QED BY <1>2, <1>5, <1>7, <1>8, <2>1 DEF OnTop
<1>10. m.frames[f].prio = p
  BY <1>3, <1>9, TrapsAssumption DEF Priority
<1>11. \A i \in 1 .. n : m.irqs[i].depth < f
  <2>1. SUFFICES ASSUME NEW i \in 1 .. n PROVE m.irqs[i].depth < f
    OBVIOUS
  <2>2. n \in 1 .. n /\ n > 0 /\ (i < n \/ i = n)
    BY <1>1
  <2>3. m.irqs[n].depth < f
    BY <1>1, <1>4, <1>7, <2>2
  <2>4. m.irqs[i].depth <= m.irqs[n].depth
    BY <1>4, <1>6, <2>2
  <2> QED BY <1>1, <1>4, <2>2, <2>3, <2>4
<1>12. Last(m.frames) = m.frames[f]
  <2>1. m.frames # <<>>
    BY <1>1, <1>8
  <2> QED BY <1>1, <2>1, FrontAndLast DEF f
<1> QED BY <1>3, <1>8, <1>9, <1>10, <1>11, <1>12 DEF OnFrame, f, n

\* The caller of that frame is what will be on top.
LEMMA LastCaller ==
  ASSUME NEW s, Good(kernel, s), NEW p \in Priority, OnFrame(s, p)
  PROVE  LET f == Len(s.frames)
             caller == Last(s.frames).caller
         IN  /\ f \in Nat /\ f \in 1 .. f /\ s.frames[f] \in Frame /\ caller \in Bank
             /\ OnTop(s.frames, s.irqs, f - 1, Len(s.irqs), caller)
             /\ RecordOf(Last(s.frames), s.record[p])
             /\ Active(s, p)
             /\ s.irqs # <<>> => caller.prio = High
             /\ \A i \in 1 .. f : i # f => s.frames[i].prio # p
<1> DEFINE f == Len(s.frames)
           n == Len(s.irqs)
           caller == Last(s.frames).caller
<1>1. /\ s \in Processor /\ f \in Nat /\ n \in Nat
      /\ \A i \in 1 .. f : s.frames[i] \in Frame
      /\ \A i \in 1 .. n : s.irqs[i] \in Irq
      /\ s.irqs # <<>> => n > 0
  BY FrameTypes DEF Good
<1>2. f > 0 /\ s.frames[f].prio = p /\ Last(s.frames) = s.frames[f]
      /\ \A i \in 1 .. n : s.irqs[i].depth < f
  BY DEF OnFrame
<1>3. f \in 1 .. f /\ s.frames[f] \in Frame
  BY <1>1, <1>2
<1>4. caller \in Bank
  BY <1>2, <1>3 DEF Frame
<1>5. OnTop(s.frames, s.irqs, f - 1, n, caller)
  <2>1. n \in 0 .. n /\ ~(n < n) /\ (n > 0 => n \in 1 .. n)
    BY <1>1
  <2>2. n > 0 => s.irqs[n].depth < f
    BY <1>2, <2>1
  <2>3. Callers(s.frames, s.irqs)
    BY DEF Good, Stack
  <2> QED BY <1>2, <1>3, <2>1, <2>2, <2>3 DEF Callers
<1>6. RecordOf(Last(s.frames), s.record[p])
  BY <1>2, <1>3 DEF Good, Records
<1>7. \A i \in 1 .. f : i # f => s.frames[i].prio # p
  BY <1>2, <1>3 DEF Good, Stack, Nested
<1>8. Active(s, p)
  BY <1>2, <1>3 DEF Active
<1>9. s.irqs # <<>> => caller.prio = High
  <2>1. SUFFICES ASSUME s.irqs # <<>> PROVE caller.prio = High
    OBVIOUS
  <2>2. n \in 1 .. n /\ n > 0
    BY <1>1, <2>1
  <2>3. CASE s.irqs[n].depth = f - 1
    BY <1>5, <2>2, <2>3 DEF OnTop
  <2>4. CASE s.irqs[n].depth # f - 1
    <3>1. s.irqs[n].depth \in Nat /\ s.irqs[n].depth < f
      BY <1>1, <1>2, <2>2 DEF Irq
    <3>2. f - 1 > 0 /\ f - 1 \in 1 .. f /\ s.irqs[n].depth < f - 1
      BY <1>1, <1>2, <2>4, <3>1
    <3>3. s.frames[f - 1].prio = High
      BY <2>2, <3>2 DEF Good, Stack, Nested
    <3> QED BY <1>5, <2>4, <3>2, <3>3 DEF OnTop
  <2> QED BY <2>3, <2>4
<1> QED BY <1>1, <1>3, <1>4, <1>5, <1>6, <1>7, <1>8, <1>9

\* The processor when the kernel has taken the process it is told of.
Kept(p) ==
  [m EXCEPT !.word[p] = NoProc,
            !.tasks = IF Last(m.frames).cause = "PROCESS" THEN m.tasks
                      ELSE m.tasks \union {m.word[p]}]

\* The kernel takes the process it is told of.
LEMMA KeepKeeps ==
  ASSUME Good(kernel, m), NEW p \in Priority, Keep(p)
  PROVE  Good(kernel, Kept(p)) /\ Finish(Kept(p))
<1> DEFINE x == IF Last(m.frames).cause = "PROCESS" THEN m.tasks ELSE m.tasks \union {m.word[p]}
           s == [m EXCEPT !.word[p] = NoProc, !.tasks = x]
<1>1. m \in Processor /\ Handling(p) /\ m.word[p] # NoProc
  BY DEF Keep, Good
<1>2. x \in SUBSET Proc
  <2>1. m.word[p] \in Proc /\ m.tasks \in SUBSET Proc
    BY <1>1 DEF Processor
  <2> QED BY <2>1
<1>3. Finish(Kept(p)) /\ Kept(p) = s
  BY <1>1 DEF Keep, Kept, Processor
<1> HIDE DEF x
<1>4. /\ s \in Processor /\ s.mask = m.mask /\ SameBanks(m, s)
      /\ s.queue = m.queue /\ s.late = m.late /\ s.frames = m.frames /\ s.irqs = m.irqs
      /\ s.record = m.record /\ s.word = [m.word EXCEPT ![p] = NoProc]
      /\ s.pendingLow = m.pendingLow /\ s.error = m.error
  BY <1>1, <1>2 DEF Processor, SameBanks
<1> HIDE DEF s
<1>5. Records(s)
  BY <1>1, <1>4 DEF Good, Records, Active, Processor
<1>6. ListsByPriority(s) /\ Stack(s) /\ OwnTraps(s)
  BY <1>4 DEF Good, SameBanks, ListsByPriority, Stack, OwnTraps
<1>7. Masks(kernel, s) /\ Masked(kernel, s)
  BY <1>4 DEF Good, Active, Masks, Masked
<1>8. PutAside(s)
  BY <1>4 DEF Good, SameBanks, PutAside, Bottom, Replaced, LowBank, LowBankValid
<1>9. Good(kernel, s)
  BY <1>4, <1>5, <1>6, <1>7, <1>8 DEF Good
<1> QED BY <1>3, <1>9

\* What ran when a handler was entered, if it was the program.
LEMMA CallerOfProgram ==
  ASSUME NEW frames, NEW irqs, NEW f \in Nat, NEW n \in Nat, NEW c,
         OnTop(frames, irqs, f, n, c), c.wptr \in Proc \union {NoProc},
         n > 0 => irqs[n].level \in Level, f > 0 => frames[f].prio \in Priority
  PROVE  OfProgram(c) /\ ~(n > 0 /\ irqs[n].depth = f) /\ ~(f > 0)
<1>1. ~(n > 0 /\ irqs[n].depth = f)
  <2>1. SUFFICES ASSUME n > 0 /\ irqs[n].depth = f PROVE FALSE
    OBVIOUS
  <2>2. c.wptr = Vector[irqs[n].level]
    BY <2>1 DEF OnTop
  <2> QED BY <2>1, <2>2, TrapsAssumption
<1>2. ~(f > 0)
  <2>1. SUFFICES ASSUME f > 0 PROVE FALSE
    OBVIOUS
  <2>2. c.wptr = Handler[frames[f].prio]
    BY <1>1, <2>1 DEF OnTop
  <2> QED BY <2>1, <2>2, TrapsAssumption
<1> QED BY <1>1, <1>2 DEF OnTop

\* A caller that is no handler is a process, or nothing, and the frame is the only one.
LEMMA LastCallerOfProgram ==
  ASSUME NEW s, Good(kernel, s), NEW p \in Priority, OnFrame(s, p),
         Last(s.frames).caller.wptr \in Proc \union {NoProc}
  PROVE  /\ OfProgram(Last(s.frames).caller) /\ Len(s.frames) = 1
         /\ ~(Len(s.irqs) > 0 /\ s.irqs[Len(s.irqs)].depth = Len(s.frames) - 1)
<1> DEFINE f == Len(s.frames)
           n == Len(s.irqs)
           caller == Last(s.frames).caller
<1>1. /\ f \in Nat /\ f \in 1 .. f /\ OnTop(s.frames, s.irqs, f - 1, n, caller)
  BY LastCaller
<1>2. /\ n \in Nat /\ \A i \in 1 .. f : s.frames[i] \in Frame
      /\ \A i \in 1 .. n : s.irqs[i] \in Irq
  BY FrameTypes DEF Good
<1>3. /\ n > 0 => s.irqs[n].level \in Level
      /\ f - 1 > 0 => s.frames[f - 1].prio \in Priority
      /\ f - 1 \in Nat
  <2>1. n > 0 => n \in 1 .. n
    BY <1>2
  <2>2. f - 1 > 0 => f - 1 \in 1 .. f
    BY <1>1
  <2> QED BY <1>1, <1>2, <2>1, <2>2 DEF Irq, Frame
<1>4. OfProgram(caller) /\ ~(n > 0 /\ s.irqs[n].depth = f - 1) /\ ~(f - 1 > 0)
  <2> HIDE DEF f, n
  <2> QED BY <1>1, <1>2, <1>3, CallerOfProgram
<1>5. f = 1
  <2> HIDE DEF f
  <2> QED BY <1>1, <1>4
<1> QED BY <1>4, <1>5

\* The processor when the kernel has put task q in the place of the trapped process.
TaskSwitched(p, q) ==
  [m EXCEPT !.record[p] = [@ EXCEPT !.wptr = q, !.valid = TRUE],
            !.tasks = (@ \ {q}) \union
               (IF Resumes(m, p, Last(m.frames).caller) THEN {m.record[p].wptr} ELSE {})]

\* A task takes the place of the trapped process, which the kernel keeps.
LEMMA SwitchTaskKeeps ==
  ASSUME Good(kernel, m), NEW p \in Priority, NEW q \in Proc, SwitchTask(p, q)
  PROVE  Good(kernel, TaskSwitched(p, q)) /\ Finish(TaskSwitched(p, q))
<1> DEFINE caller == Last(m.frames).caller
           old == m.record[p]
           x == (m.tasks \ {q}) \union (IF Resumes(m, p, caller) THEN {old.wptr} ELSE {})
           r == [old EXCEPT !.wptr = q, !.valid = TRUE]
           s == [m EXCEPT !.record[p] = r, !.tasks = x]
<1>1. m \in Processor /\ Handling(p) /\ q \in Of(p) /\ caller.prio = p
      /\ caller.wptr \in Proc \union {NoProc}
  BY DEF SwitchTask, Good, Of
<1>2. OnFrame(m, p)
  BY <1>1, HandlerExecutes
<1>3. /\ OfProgram(caller) /\ RecordOf(Last(m.frames), old)
      /\ Last(m.frames) = m.frames[Len(m.frames)] /\ m.frames[Len(m.frames)].prio = p
      /\ \A i \in 1 .. Len(m.frames) : i # Len(m.frames) => m.frames[i].prio # p
  <2>1. OfProgram(caller)
    BY <1>1, <1>2, LastCallerOfProgram
  <2>2. RecordOf(Last(m.frames), old)
        /\ \A i \in 1 .. Len(m.frames) : i # Len(m.frames) => m.frames[i].prio # p
    BY <1>2, LastCaller
  <2> QED BY <1>2, <2>1, <2>2 DEF OnFrame
<1>4. old \in [mask : SUBSET Causes, wptr : Workspace, valid : BOOLEAN]
  BY <1>1 DEF Processor
<1>5. Resumes(m, p, caller) => old.wptr \in Proc
  <2>1. SUFFICES ASSUME Resumes(m, p, caller) PROVE old.wptr \in Proc
    OBVIOUS
  <2>2. caller.running => caller.wptr \in Proc
    BY <1>3 DEF OfProgram, Of
  <2>3. CASE old.wptr = caller.wptr /\ (old.valid => caller.running)
    BY <2>1, <2>2, <2>3 DEF Resumes
  <2>4. CASE old.wptr \in Of(Last(m.frames).prio)
    BY <2>4 DEF Of
  <2> QED BY <1>3, <2>3, <2>4 DEF RecordOf
<1>6. x \in SUBSET Proc
  <2>1. m.tasks \in SUBSET Proc
    BY <1>1 DEF Processor
  <2> QED BY <1>5, <2>1
<1>7. r \in [mask : SUBSET Causes, wptr : Workspace, valid : BOOLEAN]
      /\ r.mask = old.mask /\ r.wptr = q /\ r.valid
  BY <1>4 DEF Workspace
<1> DEFINE u == [m EXCEPT !.record[p].wptr = q, !.record[p].valid = TRUE, !.tasks = x]
<1>8. Finish(s)
  <2>1. Finish(u)
    BY DEF SwitchTask
  <2> HIDE DEF x
  <2> DEFINE records == [m.record EXCEPT ![p].wptr = q, ![p].valid = TRUE]
  <2>2. records = [m.record EXCEPT ![p] = r]
    <3>1. m.record \in [Priority -> [mask : SUBSET Causes, wptr : Workspace, valid : BOOLEAN]]
      BY <1>1 DEF Processor
    <3> QED BY <1>4, <3>1
  <2>3. u = [m EXCEPT !.record = records, !.tasks = x]
    BY <1>1 DEF Processor
  <2>4. s = [m EXCEPT !.record = [m.record EXCEPT ![p] = r], !.tasks = x]
    BY <1>1 DEF Processor
  <2> HIDE DEF u, s
  <2> QED BY <2>1, <2>2, <2>3, <2>4
<1> DEFINE v == TaskSwitched(p, q)
<1>16. v = s
  BY <1>1 DEF TaskSwitched, Processor
<1> HIDE DEF x, r, u, v
<1>9. /\ s \in Processor /\ s.mask = m.mask /\ SameBanks(m, s)
      /\ s.queue = m.queue /\ s.late = m.late /\ s.frames = m.frames /\ s.irqs = m.irqs
      /\ s.record = [m.record EXCEPT ![p] = r] /\ s.word = m.word
      /\ s.pendingLow = m.pendingLow /\ s.error = m.error
  BY <1>1, <1>6, <1>7 DEF Processor, SameBanks
<1> HIDE DEF s
<1>10. \A y \in Priority : s.record[y] = IF y = p THEN r ELSE m.record[y]
  BY <1>1, <1>9 DEF Processor
<1>11. RecordOf(Last(m.frames), r)
  BY <1>1, <1>3, <1>7 DEF RecordOf
<1>12. Records(s)
  <2>1. ASSUME NEW i \in 1 .. Len(m.frames)
        PROVE  RecordOf(m.frames[i], s.record[m.frames[i].prio])
    <3>1. CASE i = Len(m.frames)
      BY <1>3, <1>10, <1>11, <3>1
    <3>2. CASE i # Len(m.frames)
      <4>1. m.frames[i].prio \in Priority
        BY <1>1, FrameTypes DEF Frame
      <4>2. RecordOf(m.frames[i], m.record[m.frames[i].prio])
        BY DEF Good, Records
      <4> QED BY <1>3, <1>10, <3>2, <4>1, <4>2
    <3> QED BY <3>1, <3>2
  <2>2. \A y \in Priority : ~Active(s, y) => s.word[y] = NoProc
    BY <1>9 DEF Good, Records, Active
  <2> QED BY <1>9, <2>1, <2>2 DEF Records
<1>13. Masks(kernel, s)
  <2>1. \A y \in Priority : s.record[y].mask = m.record[y].mask
    BY <1>7, <1>10
  <2> QED BY <1>9, <2>1 DEF Good, Masks, Active
<1>14. ListsByPriority(s) /\ Stack(s) /\ PutAside(s) /\ OwnTraps(s) /\ Masked(kernel, s)
  <2>1. ListsByPriority(s) /\ Stack(s) /\ OwnTraps(s)
    BY <1>9 DEF Good, SameBanks, ListsByPriority, Stack, OwnTraps
  <2>2. PutAside(s)
    BY <1>9 DEF Good, SameBanks, PutAside, Bottom, Replaced, LowBank, LowBankValid
  <2>3. Masked(kernel, s)
    BY <1>9 DEF Good, Masked, Active
  <2> QED BY <2>1, <2>2, <2>3
<1>15. Good(kernel, s)
  BY <1>9, <1>12, <1>13, <1>14 DEF Good
<1> QED BY <1>8, <1>15, <1>16 DEF v

\* The processor with task q at the front of the high priority queue.
Inserted(q) ==
  [m EXCEPT !.tasks = @ \ {q}, !.queue[High] = <<q>> \o @, !.reported[High] = FALSE]

\* A task is put at the front of the high priority queue.
LEMMA InsertQueueKeeps ==
  ASSUME Good(kernel, m), NEW p \in Priority, NEW q \in Proc, InsertQueue(p, q)
  PROVE  Good(kernel, Inserted(q)) /\ Finish(Inserted(q))
<1> DEFINE b == <<q>> \o m.queue[High]
           x == m.tasks \ {q}
           s == [m EXCEPT !.tasks = x, !.queue[High] = b, !.reported[High] = FALSE]
<1>1. m \in Processor /\ q \in Of(High) /\ High \in Priority
  BY DEF InsertQueue, Good, Of, Priority
<1>2. m.queue[High] \in Seq(Of(High)) /\ m.queue[High] \in Seq(Proc) /\ x \in SUBSET Proc
  BY <1>1 DEF Good, ListsByPriority, Processor
<1>3. b \in Seq(Of(High)) /\ b \in Seq(Proc)
  <2>1. <<q>> \in Seq(Of(High)) /\ <<q>> \in Seq(Proc)
    BY <1>1
  <2> QED BY <1>2, <2>1, ConcatProperties
<1>4. Finish(Inserted(q)) /\ Inserted(q) = s
  BY <1>1 DEF InsertQueue, Inserted, Processor
<1> HIDE DEF b, x
<1>5. /\ s \in Processor /\ SameHandlers(m, s) /\ SameBanks(m, s)
      /\ s.queue = [m.queue EXCEPT ![High] = b] /\ s.late = m.late
  BY <1>1, <1>2, <1>3 DEF Processor, SameHandlers, SameBanks
<1> HIDE DEF s
<1>6. ListsByPriority(s)
  BY <1>1, <1>3, <1>5 DEF ListsByPriority, Good, Processor
<1>7. Good(kernel, s)
  BY <1>5, <1>6, ListsChange
<1> QED BY <1>4, <1>7

\* The frame of the handler that returns is taken off the stack, and c runs.
Popped(s, frames, c) ==
  /\ frames \in Seq(Frame) /\ Len(frames) = Len(s.frames) - 1
  /\ \A i \in 1 .. Len(frames) :
       i \in 1 .. Len(s.frames) /\ i # Len(s.frames) /\ frames[i] = s.frames[i]
  /\ Nested(frames, s.irqs) /\ Callers(frames, s.irqs)
  /\ OnTop(frames, s.irqs, Len(frames), Len(s.irqs), c)

\* The last trap frame goes, and its caller, or what the kernel made of it, runs on.
LEMMA PopFrame ==
  ASSUME NEW s \in Processor, Stack(s), NEW p \in Priority, OnFrame(s, p),
         NEW frames, frames = Front(s.frames), NEW c,
         OnTop(s.frames, s.irqs, Len(s.frames) - 1, Len(s.irqs), c)
  PROVE  Popped(s, frames, c)
<1> DEFINE f == Len(s.frames)
           n == Len(s.irqs)
<1>1. /\ f \in Nat /\ n \in Nat /\ s.frames \in Seq(Frame) /\ (s.frames = <<>> <=> f = 0)
      /\ \A i \in 1 .. n : s.irqs[i].depth \in Nat
  BY FrameTypes DEF Irq
<1>2. f > 0 /\ \A i \in 1 .. n : s.irqs[i].depth < f
  BY DEF OnFrame
<1>3. Nested(s.frames, s.irqs) /\ Callers(s.frames, s.irqs)
  BY DEF Stack
<1>4. /\ frames \in Seq(Frame) /\ Len(frames) = f - 1
      /\ \A i \in 1 .. (f - 1) : frames[i] = s.frames[i]
  <2>1. s.frames # <<>>
    BY <1>1, <1>2
  <2> QED BY <1>1, <2>1, FrontAndLast
<1> HIDE DEF f, n
<1>5. \A i \in 1 .. (f - 1) : i \in 1 .. f /\ i # f
  BY <1>1
<1>6. ASSUME NEW g \in 0 .. (f - 1), NEW k, NEW b
      PROVE  OnTop(frames, s.irqs, g, k, b) <=> OnTop(s.frames, s.irqs, g, k, b)
  <2>1. g > 0 => g \in 1 .. (f - 1)
    BY <1>1
  <2> QED BY <1>4, <2>1 DEF OnTop
<1>7. Nested(frames, s.irqs)
  <2>1. ASSUME NEW i \in 1 .. (f - 1), NEW j \in 1 .. (f - 1), i # j
        PROVE  frames[i].prio # frames[j].prio
    <3>1. i \in 1 .. f /\ j \in 1 .. f /\ frames[i] = s.frames[i] /\ frames[j] = s.frames[j]
      BY <1>4, <1>5
    <3>2. s.frames[i].prio # s.frames[j].prio
      BY <1>3, <2>1, <3>1 DEF Nested, f
    <3> QED BY <3>1, <3>2
  <2>2. \A i \in 1 .. n : s.irqs[i].depth <= f - 1
    BY <1>1, <1>2
  <2>3. \A i \in 1 .. (f - 1), j \in 1 .. n : s.irqs[j].depth < i => frames[i].prio = High
    BY <1>3, <1>4, <1>5 DEF Nested, f, n
  <2> QED BY <1>3, <1>4, <2>1, <2>2, <2>3 DEF Nested, n
<1>8. Callers(frames, s.irqs)
  <2>1. ASSUME NEW i \in 1 .. n
        PROVE  OnTop(frames, s.irqs, s.irqs[i].depth, i - 1, s.irqs[i].caller)
    <3>1. OnTop(s.frames, s.irqs, s.irqs[i].depth, i - 1, s.irqs[i].caller)
      BY <1>3 DEF Callers, n
    <3>2. s.irqs[i].depth \in 0 .. (f - 1)
      BY <1>1, <1>2
    <3> QED BY <1>6, <3>1, <3>2
  <2>2. ASSUME NEW i \in 1 .. (f - 1), NEW k \in 0 .. n,
               k > 0 => s.irqs[k].depth < i,
               k < n => s.irqs[k + 1].depth >= i
        PROVE  OnTop(frames, s.irqs, i - 1, k, frames[i].caller)
    <3>1. OnTop(s.frames, s.irqs, i - 1, k, s.frames[i].caller)
      BY <1>3, <1>5, <2>2 DEF Callers, f, n
    <3>2. i - 1 \in 0 .. (f - 1)
      BY <1>1
    <3> QED BY <1>4, <1>6, <3>1, <3>2
  <2> QED BY <1>4, <2>1, <2>2 DEF Callers, n
<1>9. OnTop(frames, s.irqs, f - 1, n, c)
  <2>1. f - 1 \in 0 .. (f - 1)
    BY <1>1, <1>2
  <2> QED BY <1>6, <2>1 DEF f, n
<1> QED BY <1>4, <1>5, <1>7, <1>8, <1>9 DEF f, n, Popped

\* The trapped process, or the task in its place, gets the processor back.
Resumed(s, p) ==
  LET caller == Last(s.frames).caller
  IN  IF caller.prio # p THEN caller
      ELSE [caller EXCEPT !.wptr = s.record[p].wptr, !.valid = s.record[p].valid,
                          !.running = Resumes(s, p, caller)]

\* What a trap return runs is what its caller was, or the task put in its place.
LEMMA ResumedIsOnTop ==
  ASSUME NEW s, Good(kernel, s), NEW p \in Priority, OnFrame(s, p)
  PROVE  /\ Resumed(s, p) \in Bank /\ Resumed(s, p).prio = Last(s.frames).caller.prio
         /\ OnTop(s.frames, s.irqs, Len(s.frames) - 1, Len(s.irqs), Resumed(s, p))
<1> DEFINE f == Len(s.frames)
           n == Len(s.irqs)
           caller == Last(s.frames).caller
           r == s.record[p]
           c == Resumed(s, p)
<1>1. /\ f \in Nat /\ f \in 1 .. f /\ caller \in Bank
      /\ OnTop(s.frames, s.irqs, f - 1, n, caller)
      /\ RecordOf(Last(s.frames), r) /\ Last(s.frames).prio = p
  BY LastCaller DEF OnFrame
<1>2. r \in [mask : SUBSET Causes, wptr : Workspace, valid : BOOLEAN]
  BY DEF Good, Processor
<1>3. CASE caller.prio # p
  BY <1>1, <1>3 DEF Resumed
<1>4. CASE caller.prio = p
  <2>1. c = [caller EXCEPT !.wptr = r.wptr, !.valid = r.valid, !.running = Resumes(s, p, caller)]
    BY <1>4 DEF Resumed
  <2>2. Resumes(s, p, caller) <=> r.valid \/ caller.running \/ r.wptr # caller.wptr
    BY DEF Resumes
  <2>3. c \in Bank /\ c.prio = caller.prio /\ c.wptr = r.wptr
        /\ (c.running <=> Resumes(s, p, caller))
    <3> HIDE DEF c
    <3>1. Resumes(s, p, caller) \in BOOLEAN
      BY <1>1, <1>2 DEF Bank, Resumes
    <3> QED BY <1>1, <1>2, <2>1, <3>1 DEF Bank
  <2> HIDE DEF c
  <2>4. CASE r.wptr = caller.wptr /\ (r.valid => caller.running)
    <3>1. c.wptr = caller.wptr /\ (c.running <=> caller.running) /\ c.prio = caller.prio
      BY <2>2, <2>3, <2>4
    <3>2. OnTop(s.frames, s.irqs, f - 1, n, c)
      BY <1>1, <3>1 DEF OnTop, OfProgram
    <3> QED BY <2>3, <3>2 DEF c
  <2>5. CASE OfProgram(caller) /\ r.wptr \in Of(p)
    <3>1. Len(s.frames) = 1 /\ ~(n > 0 /\ s.irqs[n].depth = f - 1)
      BY <2>5, LastCallerOfProgram DEF OfProgram
    <3>2. OfProgram(c)
      BY <1>4, <2>3, <2>5 DEF OfProgram, Of
    <3>3. OnTop(s.frames, s.irqs, f - 1, n, c)
      BY <3>1, <3>2 DEF OnTop
    <3> QED BY <2>3, <3>3 DEF c
  <2> QED BY <1>1, <2>4, <2>5 DEF RecordOf
<1> QED BY <1>3, <1>4

\* returnFromTrap keeps the invariant.
LEMMA ReturnFromTrapKeeps ==
  ASSUME NEW s, Good(kernel, s), NEW p \in Priority, OnFrame(s, p), s.word[p] = NoProc
  PROVE  LET t == returnFromTrap(s)
         IN  /\ Good(kernel, t) /\ t.frames = Front(s.frames) /\ t.irqs = s.irqs
             /\ t.cpu = Resumed(s, p)
<1> DEFINE frame == Last(s.frames)
           frames == Front(s.frames)
           c == Resumed(s, p)
           e == s.record[p].mask
           rep == [x \in Priority |-> s.reported[x] /\ ~(c.running /\ x = c.prio)
                                      /\ ~(frame.cause # "QUEUE_EMPTY" /\ x = p)]
           t == returnFromTrap(s)
           f == Len(s.frames)
<1>1. /\ s \in Processor /\ frame.prio = p /\ f \in Nat /\ f \in 1 .. f
      /\ \A i \in 1 .. f : i # f => s.frames[i].prio # p
      /\ s.frames[f].prio = p /\ f > 0 /\ frame = s.frames[f]
      /\ \A i \in 1 .. Len(s.irqs) : s.irqs[i].depth < f
  BY LastCaller DEF Good, OnFrame
<1>2. c \in Bank /\ c.prio = frame.caller.prio
      /\ OnTop(s.frames, s.irqs, f - 1, Len(s.irqs), c)
  BY ResumedIsOnTop
<1>3. /\ frames \in Seq(Frame) /\ Len(frames) = f - 1
      /\ \A i \in 1 .. (f - 1) : i \in 1 .. f /\ frames[i] = s.frames[i] /\ i # f
      /\ Nested(frames, s.irqs) /\ Callers(frames, s.irqs)
      /\ OnTop(frames, s.irqs, Len(frames), Len(s.irqs), c)
  <2>1. Stack(s)
    BY DEF Good
  <2>2. OnTop(s.frames, s.irqs, Len(s.frames) - 1, Len(s.irqs), c)
    BY <1>2
  <2> HIDE DEF frames, c
  <2>3. frames = Front(s.frames)
    BY DEF frames
  <2>4. Popped(s, frames, c)
    <3>1. s \in Processor /\ OnFrame(s, p)
      BY <1>1
    <3> HIDE DEF f, frame
    <3> QED BY <3>1, <2>1, <2>2, <2>3, PopFrame
  <2> QED BY <2>4 DEF Popped
<1>4. e \in SUBSET Causes /\ rep \in [Priority -> BOOLEAN]
  <2>1. e \in SUBSET Causes
    BY <1>1 DEF Processor
  <2>2. rep \in [Priority -> BOOLEAN]
    OBVIOUS
  <2> QED BY <2>1, <2>2
<1>5. t = [s EXCEPT !.mask[p] = e, !.cpu = c, !.frames = frames, !.reported = rep]
  BY <1>1 DEF returnFromTrap, Resumed, Processor
<1> HIDE DEF t, e, rep, frames, c
<1>6. /\ t \in Processor /\ t.mask = [s.mask EXCEPT ![p] = e] /\ t.cpu = c
      /\ t.frames = frames /\ t.irqs = s.irqs /\ t.shadow = s.shadow
      /\ t.shadowValid = s.shadowValid /\ t.queue = s.queue /\ t.late = s.late
      /\ t.record = s.record /\ t.word = s.word /\ t.pendingLow = s.pendingLow
      /\ t.error = s.error
  <2>1. s \in Processor /\ s.mask \in [Priority -> SUBSET Causes]
    BY <1>1 DEF Processor
  <2>2. [s.mask EXCEPT ![p] = e] \in [Priority -> SUBSET Causes]
    BY <1>4, <2>1
  <2>3. c \in Bank /\ frames \in Seq(Frame) /\ rep \in [Priority -> BOOLEAN]
    BY <1>2, <1>3, <1>4
  <2> DEFINE masks == [s.mask EXCEPT ![p] = e]
  <2>4. t = [s EXCEPT !.mask = masks, !.cpu = c, !.frames = frames, !.reported = rep]
    BY <1>5, <2>1 DEF Processor
  <2> HIDE DEF f, frame, masks
  <2>5. t \in Processor
    BY ZenonT(40), <2>1, <2>2, <2>3, <2>4 DEF Processor, masks
  <2>6. /\ t.mask = masks /\ t.cpu = c
        /\ t.frames = frames /\ t.irqs = s.irqs /\ t.shadow = s.shadow
        /\ t.shadowValid = s.shadowValid /\ t.queue = s.queue /\ t.late = s.late
        /\ t.record = s.record /\ t.word = s.word /\ t.pendingLow = s.pendingLow
        /\ t.error = s.error
    BY <2>1, <2>4 DEF Processor
  <2> QED BY <2>5, <2>6 DEF masks
<1> HIDE DEF frame, f
<1>7. \A x \in Priority : Active(t, x) <=> Active(s, x) /\ x # p
  <2>1. \A x \in Priority : Active(s, x) <=> \E i \in 1 .. f : s.frames[i].prio = x
    BY DEF Active, f
  <2>2. \A x \in Priority : Active(t, x) <=> \E i \in 1 .. (f - 1) : s.frames[i].prio = x
    BY <1>3, <1>6 DEF Active
  <2>3. \A i \in 1 .. f : i # f => i \in 1 .. (f - 1)
    BY <1>1
  <2> QED BY <1>1, <1>3, <2>1, <2>2, <2>3
<1>8. ListsByPriority(t)
  BY <1>6 DEF Good, ListsByPriority
<1>9. Stack(t)
  BY <1>3, <1>6 DEF Stack
<1>10. PutAside(t)
  <2>1. Bottom(t).prio = Bottom(s).prio
    <3>1. CASE s.irqs # <<>> /\ s.irqs[1].depth = 0
      BY <1>6, <3>1 DEF Bottom
    <3>2. CASE ~(s.irqs # <<>> /\ s.irqs[1].depth = 0) /\ f = 1
      <4>1. s.frames # <<>> /\ t.frames = <<>>
        BY <1>1, <1>3, <1>6, <3>2, EmptySeq DEF f
      <4>2. Bottom(t) = c /\ Bottom(s) = s.frames[1].caller
        BY <1>6, <3>2, <4>1 DEF Bottom
      <4> QED BY <1>1, <1>2, <3>2, <4>2
    <3>3. CASE ~(s.irqs # <<>> /\ s.irqs[1].depth = 0) /\ f # 1
      <4>1. s.frames # <<>> /\ Len(t.frames) # 0 /\ Len(<<>>) = 0 /\ 1 \in 1 .. (f - 1)
        <5>1. f - 1 # 0 /\ f # 0 /\ 1 \in 1 .. (f - 1) /\ Len(<<>>) = 0
          BY <1>1, <3>3, EmptySeq
        <5>2. Len(s.frames) # 0 /\ Len(t.frames) # 0
          BY <1>3, <1>6, <5>1 DEF f
        <5> QED BY <5>1, <5>2
      <4>2. t.frames # <<>> /\ t.frames[1] = s.frames[1]
        BY <1>3, <1>6, <4>1
      <4> QED BY <1>6, <3>3, <4>1, <4>2 DEF Bottom
    <3> QED BY <3>1, <3>2, <3>3
  <2> QED BY <1>6, <2>1 DEF Good, PutAside, Replaced, LowBank, LowBankValid
<1>11. Records(t)
  <2>1. ASSUME NEW i \in 1 .. (f - 1)
        PROVE  RecordOf(t.frames[i], t.record[t.frames[i].prio])
    <3>1. i \in 1 .. f /\ t.frames[i] = s.frames[i]
      BY <1>3, <1>6
    <3> QED BY <1>6, <3>1 DEF Good, Records, f
  <2>2. \A x \in Priority : ~Active(t, x) => t.word[x] = NoProc
    BY <1>6, <1>7 DEF Good, Records
  <2> QED BY <1>3, <1>6, <2>1, <2>2 DEF Records
<1>12. \A x \in Priority : t.mask[x] = IF x = p THEN e ELSE s.mask[x]
  BY <1>1, <1>6 DEF Processor
<1>13. Masks(kernel, t)
  <2>1. Active(s, p) /\ e = s.record[p].mask
    BY <1>1 DEF Active, e, f
  <2> QED BY <1>6, <1>7, <1>12, <2>1 DEF Good, Masks
<1>14. Masked(kernel, t)
  BY <1>6, <1>7, <1>12 DEF Good, Masked
<1>15. OwnTraps(t)
  <2>1. ASSUME NEW i \in 1 .. (f - 1)
        PROVE  t.frames[i].prio = Low /\ t.frames[i].cause # "INTERNALCH"
                 => t.frames[i].caller.prio = Low
    <3>1. i \in 1 .. Len(s.frames) /\ t.frames[i] = s.frames[i]
      BY <1>3, <1>6 DEF f
    <3> QED BY <3>1 DEF Good, OwnTraps
  <2> QED BY <1>3, <1>6, <2>1 DEF OwnTraps
<1>16. Good(kernel, t)
  BY <1>6, <1>8, <1>9, <1>10, <1>11, <1>13, <1>14, <1>15 DEF Good
<1> QED BY <1>6, <1>16 DEF t, frames, c

\* tret.
LEMMA TretKeeps ==
  ASSUME Good(kernel, m), NEW p \in Priority, Tret(p)
  PROVE  /\ OnFrame(m, p) /\ m.word[p] = NoProc /\ Good(kernel, returnFromTrap(m))
         /\ Finish(returnFromTrap(m))
<1>1. Handling(p) /\ m.word[p] = NoProc /\ Finish(returnFromTrap(m))
  BY DEF Tret
<1>2. OnFrame(m, p)
  BY <1>1, HandlerExecutes
<1> QED BY <1>1, <1>2, ReturnFromTrapKeeps

-----------------------------------------------------------------------------
\* External interrupts.
\* An interrupt frame is put on the stack.
LEMMA PushIrq ==
  ASSUME NEW s \in Processor, Stack(s), NEW x \in Irq, x.caller = s.cpu,
         x.depth = Len(s.frames),
         \A i \in 1 .. Len(s.irqs) : s.irqs[i].level < x.level,
         NEW irqs, irqs = Append(s.irqs, x),
         NEW c, c.running, c.prio = High, c.wptr = Vector[x.level]
  PROVE  /\ Nested(s.frames, irqs) /\ Callers(s.frames, irqs)
         /\ OnTop(s.frames, irqs, Len(s.frames), Len(irqs), c)
<1> DEFINE f == Len(s.frames)
           n == Len(s.irqs)
<1>1. /\ f \in Nat /\ n \in Nat /\ irqs \in Seq(Irq) /\ Len(irqs) = n + 1
      /\ \A i \in 1 .. n : irqs[i] = s.irqs[i]
      /\ irqs[n + 1] = x
      /\ \A i \in 1 .. n : s.irqs[i].depth \in Nat
  <2>1. f \in Nat /\ n \in Nat /\ s.irqs \in Seq(Irq) /\ \A i \in 1 .. n : s.irqs[i] \in Irq
    BY FrameTypes
  <2>2. /\ irqs \in Seq(Irq) /\ Len(irqs) = n + 1
        /\ \A i \in 1 .. n : irqs[i] = s.irqs[i]
        /\ irqs[n + 1] = x
    BY <2>1, AppendProperties
  <2> QED BY <2>1, <2>2 DEF Irq
<1>2. Nested(s.frames, s.irqs) /\ Callers(s.frames, s.irqs)
      /\ OnTop(s.frames, s.irqs, f, n, s.cpu)
  BY DEF Stack
<1>3. x.depth = f /\ \A i \in 1 .. n : s.irqs[i].level < x.level
  OBVIOUS
<1> HIDE DEF f, n
<1>4. \A i \in 1 .. n + 1 : i \in 1 .. n \/ i = n + 1
  BY <1>1
<1>5. ASSUME NEW g, NEW k \in 0 .. n, NEW b
      PROVE  OnTop(s.frames, irqs, g, k, b) <=> OnTop(s.frames, s.irqs, g, k, b)
  <2>1. k > 0 => k \in 1 .. n
    BY <1>1
  <2> QED BY <1>1, <2>1 DEF OnTop
<1>6. Nested(s.frames, irqs)
  <2>1. \A i \in 1 .. n + 1 : irqs[i].depth <= f
    <3>1. \A i \in 1 .. n : irqs[i].depth <= f
      BY <1>1, <1>2 DEF Nested, f, n
    <3> QED BY <1>1, <1>3, <1>4, <3>1
  <2>2. ASSUME NEW i \in 1 .. n + 1, NEW j \in 1 .. n + 1, i < j
        PROVE  irqs[i].level < irqs[j].level /\ irqs[i].depth <= irqs[j].depth
    <3>1. i \in 1 .. n
      BY <1>1, <2>2
    <3>2. CASE j \in 1 .. n
      <4>1. s.irqs[i].level < s.irqs[j].level /\ s.irqs[i].depth <= s.irqs[j].depth
        BY <1>2, <2>2, <3>1, <3>2 DEF Nested, n
      <4> QED BY <1>1, <3>1, <3>2, <4>1
    <3>3. CASE j = n + 1
      BY <1>1, <1>3, <2>1, <3>1, <3>3
    <3> QED BY <1>4, <3>2, <3>3
  <2>3. ASSUME NEW i \in 1 .. f, NEW j \in 1 .. n + 1, irqs[j].depth < i
        PROVE  s.frames[i].prio = High
    <3>1. j \in 1 .. n
      BY <1>1, <1>3, <1>4, <2>3
    <3> QED BY <1>1, <1>2, <2>3, <3>1 DEF Nested, f, n
  <2>4. \A i, j \in 1 .. f : i # j => s.frames[i].prio # s.frames[j].prio
    BY <1>2 DEF Nested, f
  <2> QED BY <1>1, <2>1, <2>2, <2>3, <2>4 DEF Nested, f
<1>7. Callers(s.frames, irqs)
  <2>1. ASSUME NEW i \in 1 .. n + 1
        PROVE  OnTop(s.frames, irqs, irqs[i].depth, i - 1, irqs[i].caller)
    <3>1. CASE i \in 1 .. n
      <4>1. OnTop(s.frames, s.irqs, s.irqs[i].depth, i - 1, s.irqs[i].caller)
        BY <1>2, <3>1 DEF Callers, n
      <4>2. i - 1 \in 0 .. n
        BY <1>1, <3>1
      <4> QED BY <1>1, <1>5, <3>1, <4>1, <4>2
    <3>2. CASE i = n + 1
      <4>1. i - 1 = n /\ n \in 0 .. n
        BY <1>1, <3>2
      <4>2. OnTop(s.frames, irqs, f, n, s.cpu)
        BY <1>2, <1>5, <4>1
      <4> QED BY <1>1, <1>3, <3>2, <4>1, <4>2
    <3> QED BY <1>4, <3>1, <3>2
  <2>2. ASSUME NEW i \in 1 .. f, NEW k \in 0 .. n + 1,
               k > 0 => irqs[k].depth < i,
               k < n + 1 => irqs[k + 1].depth >= i
        PROVE  OnTop(s.frames, irqs, i - 1, k, s.frames[i].caller)
    <3>1. k # n + 1
      BY <1>1, <1>3, <2>2
    <3>2. k \in 0 .. n /\ (k > 0 => k \in 1 .. n) /\ (k < n => k + 1 \in 1 .. n)
      BY <1>1, <3>1
    <3>3. /\ k > 0 => s.irqs[k].depth < i
          /\ k < n => s.irqs[k + 1].depth >= i
      <4>1. k < n => k < n + 1
        BY <1>1
      <4> QED BY <1>1, <2>2, <3>2, <4>1
    <3>4. OnTop(s.frames, s.irqs, i - 1, k, s.frames[i].caller)
      BY <1>2, <3>2, <3>3 DEF Callers, f, n
    <3> QED BY <1>5, <3>2, <3>4
  <2> QED BY <1>1, <2>1, <2>2 DEF Callers, f
<1>8. OnTop(s.frames, irqs, f, n + 1, c)
  BY <1>1, <1>3 DEF OnTop
<1> QED BY <1>1, <1>6, <1>7, <1>8 DEF f, n

\* The frame of an interrupt of level l.
IrqFrame(s, l) ==
  [level |-> l, replaced |-> s.cpu.running /\ s.cpu.prio = Low, depth |-> Len(s.frames),
   previous |-> s.shadow, wasValid |-> s.shadowValid, caller |-> s.cpu]

\* enterExternalInterrupt keeps the invariant, for a level above those that are active.
LEMMA EnterInterruptKeeps ==
  ASSUME NEW s, Good(kernel, s), NEW l \in Level,
         \A i \in 1 .. Len(s.irqs) : s.irqs[i].level < l
  PROVE  Good(kernel, enterExternalInterrupt(s, l))
<1> DEFINE x == IrqFrame(s, l)
           replace == s.cpu.running /\ s.cpu.prio = Low
           irqs == Append(s.irqs, x)
           shadow == IF replace THEN s.cpu ELSE s.shadow
           valid == s.shadowValid \/ replace
           c == Running(Vector[l], High)
           t == enterExternalInterrupt(s, l)
           n == Len(s.irqs)
<1>1. /\ s \in Processor /\ Len(s.frames) \in Nat /\ n \in Nat /\ s.cpu \in Bank
      /\ s.shadow \in Bank /\ s.shadowValid \in BOOLEAN /\ s.irqs \in Seq(Irq)
      /\ s.irqs = <<>> <=> n = 0
  BY FrameTypes DEF Good, Processor
<1>2. x \in Irq /\ x.caller = s.cpu /\ x.depth = Len(s.frames) /\ x.level = l
      /\ x.previous = s.shadow /\ x.wasValid = s.shadowValid /\ (x.replaced <=> replace)
  BY <1>1 DEF Irq, IrqFrame, Bank
<1>3. /\ irqs \in Seq(Irq) /\ Len(irqs) = n + 1
      /\ \A i \in 1 .. n : irqs[i] = s.irqs[i]
      /\ irqs[n + 1] = x
  BY <1>1, <1>2, AppendProperties
<1>4. shadow \in Bank /\ valid \in BOOLEAN
  BY <1>1 DEF Bank
<1>5. c \in Bank /\ c.running /\ c.prio = High /\ c.wptr = Vector[l]
  BY DEF Running, Bank, Workspace, Priority
<1>6. t = [s EXCEPT !.irqs = irqs, !.shadow = shadow, !.shadowValid = valid, !.cpu = c]
  BY <1>1 DEF enterExternalInterrupt, IrqFrame, Processor
<1> HIDE DEF t, irqs, shadow, valid, c, x
<1>7. /\ t \in Processor /\ t.irqs = irqs /\ t.shadow = shadow /\ t.shadowValid = valid
      /\ t.cpu = c /\ t.frames = s.frames /\ t.mask = s.mask /\ t.queue = s.queue
      /\ t.late = s.late /\ t.record = s.record /\ t.word = s.word
      /\ t.pendingLow = s.pendingLow /\ t.error = s.error
  BY <1>1, <1>3, <1>4, <1>5, <1>6 DEF Processor
<1>8. Stack(t)
  <2>1. Stack(s) /\ irqs = Append(s.irqs, x)
        /\ \A i \in 1 .. Len(s.irqs) : s.irqs[i].level < x.level
    BY <1>2 DEF Good, irqs
  <2>2. /\ Nested(s.frames, irqs) /\ Callers(s.frames, irqs)
        /\ OnTop(s.frames, irqs, Len(s.frames), Len(irqs), c)
    BY <1>1, <1>2, <1>5, <2>1, PushIrq
  <2> QED BY <1>7, <2>2 DEF Stack
<1>9. PutAside(t)
  <2>1. CASE n = 0
    <3>1. s.irqs = <<>> /\ irqs[1] = x /\ Len(irqs) = 1 /\ irqs # <<>>
      <4>1. Len(irqs) = 1 /\ irqs[1] = x /\ Len(<<>>) = 0
        BY <1>3, <2>1, EmptySeq
      <4>2. irqs # <<>>
        BY <4>1
      <4>3. s.irqs = <<>>
        BY <1>1, <2>1
      <4> QED BY <4>1, <4>2, <4>3
    <3>2. /\ Replaced(t) <=> replace
          /\ LowBank(s) = s.shadow /\ LowBankValid(s) = s.shadowValid
          /\ LowBank(t) = s.shadow /\ LowBankValid(t) = s.shadowValid
      BY <1>1, <1>2, <1>7, <3>1 DEF Replaced, LowBank, LowBankValid, shadow, valid
    <3>3. Bottom(t) = Bottom(s)
      BY <1>1, <1>2, <1>7, <3>1, FrameTypes DEF Bottom
    <3>4. \A i \in 1 .. 1 : i = 1
      OBVIOUS
    <3>5. /\ LowBank(s).prio = Low /\ OfProgram(LowBank(s))
          /\ LowBankValid(s) => LowBank(s).running /\ Bottom(s).prio = High
      BY DEF Good, PutAside
    <3>6. \A i \in 1 .. Len(t.irqs) :
            t.irqs[i].replaced <=> t.irqs[i].caller.running /\ t.irqs[i].caller.prio = Low
      BY <1>2, <1>7, <3>1, <3>4
    <3>7. Replaced(t) => t.shadowValid /\ t.shadow = t.irqs[1].caller
      BY <1>2, <1>7, <3>1, <3>2 DEF shadow, valid
    <3>8. /\ LowBank(t).prio = Low /\ OfProgram(LowBank(t))
          /\ LowBankValid(t) => LowBank(t).running /\ Bottom(t).prio = High
      BY <3>2, <3>3, <3>5
    <3> QED BY <3>6, <3>7, <3>8 DEF PutAside
  <2>2. CASE n # 0
    <3>1. s.irqs # <<>> /\ 1 \in 1 .. n /\ irqs[1] = s.irqs[1] /\ irqs # <<>>
      <4>1. Len(irqs) # 0 /\ 1 \in 1 .. n /\ Len(<<>>) = 0
        BY <1>1, <1>3, <2>2, EmptySeq
      <4>2. s.irqs # <<>>
        BY <1>1, <2>2
      <4> QED BY <1>3, <4>1, <4>2
    <3>2. s.cpu.prio = High
      BY <3>1, InterruptsAreHigh
    <3>3. ~replace /\ shadow = s.shadow /\ (valid <=> s.shadowValid)
      BY <1>1, <3>2, TrapsAssumption DEF shadow, valid
    <3>4. /\ Replaced(t) <=> Replaced(s)
          /\ LowBank(t) = LowBank(s) /\ LowBankValid(t) = LowBankValid(s)
          /\ Bottom(t) = Bottom(s)
      <4>1. (Replaced(t) <=> Replaced(s)) /\ t.irqs # <<>> /\ t.irqs[1] = s.irqs[1]
        BY <1>7, <3>1 DEF Replaced
      <4>2. t.shadow = s.shadow /\ t.shadowValid = s.shadowValid
        BY <1>1, <1>4, <1>7, <3>3
      <4>3. LowBank(t) = LowBank(s) /\ LowBankValid(t) = LowBankValid(s)
        BY <4>1, <4>2 DEF LowBank, LowBankValid
      <4>4. s.irqs[1].depth # 0 => s.frames # <<>>
        <5>1. s.irqs[1] \in Irq /\ s.irqs[1].depth <= Len(s.frames)
          BY <1>1, <3>1, FrameTypes DEF Good, Stack, Nested
        <5>2. s.irqs[1].depth \in Nat
          BY <5>1 DEF Irq
        <5>3. s.frames = <<>> => Len(s.frames) = 0
          BY <1>1, FrameTypes
        <5> QED BY <1>1, <5>1, <5>2, <5>3
      <4>5. Bottom(t) = Bottom(s)
        BY <1>7, <3>1, <4>1, <4>4 DEF Bottom
      <4> QED BY <4>1, <4>3, <4>5
    <3>5. \A i \in 1 .. Len(t.irqs) :
            t.irqs[i].replaced <=> t.irqs[i].caller.running /\ t.irqs[i].caller.prio = Low
      <4>1. \A i \in 1 .. n :
              s.irqs[i].replaced <=> s.irqs[i].caller.running /\ s.irqs[i].caller.prio = Low
        BY DEF Good, PutAside
      <4>2. SUFFICES ASSUME NEW i \in 1 .. n + 1
                     PROVE  irqs[i].replaced
                              <=> irqs[i].caller.running /\ irqs[i].caller.prio = Low
        BY <1>3, <1>7
      <4>3. CASE i \in 1 .. n
        BY <1>3, <4>1, <4>3
      <4>4. CASE i = n + 1
        BY <1>2, <1>3, <4>4
      <4>5. i \in 1 .. n \/ i = n + 1
        BY <1>1
      <4> QED BY <4>3, <4>4, <4>5
    <3> QED BY <1>7, <3>1, <3>3, <3>4, <3>5 DEF Good, PutAside
  <2> QED BY <2>1, <2>2
<1>10. Records(t) /\ Masks(kernel, t) /\ Masked(kernel, t) /\ OwnTraps(t) /\ ListsByPriority(t)
  BY <1>7 DEF Good, Records, Masks, Masked, OwnTraps, ListsByPriority, Active
<1>11. Good(kernel, t)
  BY <1>7, <1>8, <1>9, <1>10 DEF Good
<1> QED BY <1>11 DEF t

\* An interrupt that is accepted.
LEMMA InterruptKeeps ==
  ASSUME kernel \in Kernels, Good(kernel, m), NEW l \in Level, Interrupt(l)
  PROVE  /\ Good(kernel, enterExternalInterrupt(m, l))
         /\ m' = pollTimers(enterExternalInterrupt(m, l))
<1>1. \A i \in 1 .. Len(m.irqs) : m.irqs[i].level < l
  <2>1. SUFFICES ASSUME NEW i \in 1 .. Len(m.irqs) PROVE m.irqs[i].level < l
    OBVIOUS
  <2> DEFINE n == Len(m.irqs)
  <2>2. /\ m.irqs \in Seq(Irq) /\ n \in Nat /\ (m.irqs = <<>> <=> n = 0)
        /\ \A j \in 1 .. n : m.irqs[j] \in Irq
    BY FrameTypes DEF Good
  <2>3. m.irqs # <<>> /\ n \in 1 .. n /\ (i < n \/ i = n)
    BY <2>1, <2>2
  <2>4. Last(m.irqs) = m.irqs[n]
    BY <2>2, <2>3, FrontAndLast
  <2>5. m.irqs[n].level < l
    <3>1. l > Last(m.irqs).level
      BY <2>3 DEF Interrupt, Accepted, interruptHandlerActive
    <3>2. m.irqs[n].level \in Nat /\ l \in Nat
      BY <2>2, <2>3, TrapsAssumption DEF Irq
    <3> QED BY <2>4, <3>1, <3>2
  <2>6. i < n => m.irqs[i].level < m.irqs[n].level
    BY <2>1, <2>3 DEF Good, Stack, Nested
  <2>7. m.irqs[i].level \in Nat /\ m.irqs[n].level \in Nat /\ l \in Nat
    BY <2>1, <2>2, <2>3, TrapsAssumption DEF Irq
  <2> HIDE DEF n
  <2> QED BY <2>3, <2>5, <2>6, <2>7
<1>2. m' = pollTimers(enterExternalInterrupt(m, l))
  BY DEF Interrupt
<1> QED BY <1>1, <1>2, EnterInterruptKeeps

\* The interrupt handler that executes is that of the last interrupt frame.
OnIrq(s) ==
  LET n == Len(s.irqs)
  IN  n > 0 /\ Last(s.irqs) = s.irqs[n] /\ s.irqs[n].depth = Len(s.frames)

\* What ran before the interrupt runs again, with the interrupt frame gone.
LEMMA PopIrq ==
  ASSUME NEW s \in Processor, Stack(s), OnIrq(s), NEW irqs, irqs = Front(s.irqs)
  PROVE  /\ irqs \in Seq(Irq) /\ Len(irqs) = Len(s.irqs) - 1
         /\ \A i \in 1 .. Len(irqs) : i \in 1 .. Len(s.irqs) /\ irqs[i] = s.irqs[i]
         /\ Nested(s.frames, irqs) /\ Callers(s.frames, irqs)
         /\ OnTop(s.frames, irqs, Len(s.frames), Len(irqs), Last(s.irqs).caller)
<1> DEFINE f == Len(s.frames)
           n == Len(s.irqs)
<1>1. /\ f \in Nat /\ n \in Nat /\ s.irqs \in Seq(Irq) /\ (s.irqs = <<>> <=> n = 0)
      /\ \A i \in 1 .. n : s.irqs[i].depth \in Nat
  <2>1. /\ f \in Nat /\ n \in Nat /\ s.irqs \in Seq(Irq) /\ (s.irqs = <<>> <=> n = 0)
        /\ \A i \in 1 .. n : s.irqs[i] \in Irq
    BY FrameTypes
  <2> QED BY <2>1 DEF Irq
<1>2. n > 0 /\ Last(s.irqs) = s.irqs[n] /\ s.irqs[n].depth = f
  BY DEF OnIrq
<1>3. Nested(s.frames, s.irqs) /\ Callers(s.frames, s.irqs)
  BY DEF Stack
<1>4. /\ irqs \in Seq(Irq) /\ Len(irqs) = n - 1
      /\ \A i \in 1 .. (n - 1) : irqs[i] = s.irqs[i]
  <2>1. s.irqs # <<>>
    BY <1>1, <1>2
  <2> QED BY <1>1, <2>1, FrontAndLast
<1> HIDE DEF f, n
<1>5. \A i \in 1 .. (n - 1) : i \in 1 .. n
  BY <1>1
<1>6. ASSUME NEW g, NEW k \in 0 .. (n - 1), NEW b
      PROVE  OnTop(s.frames, irqs, g, k, b) <=> OnTop(s.frames, s.irqs, g, k, b)
  <2>1. k > 0 => k \in 1 .. (n - 1)
    BY <1>1
  <2> QED BY <1>4, <2>1 DEF OnTop
<1>7. Nested(s.frames, irqs)
  <2>1. \A i \in 1 .. (n - 1) : irqs[i].depth <= f
    BY <1>3, <1>4, <1>5 DEF Nested, f, n
  <2>2. ASSUME NEW i \in 1 .. (n - 1), NEW j \in 1 .. (n - 1), i < j
        PROVE  irqs[i].level < irqs[j].level /\ irqs[i].depth <= irqs[j].depth
    <3>1. s.irqs[i].level < s.irqs[j].level /\ s.irqs[i].depth <= s.irqs[j].depth
      BY <1>3, <1>5, <2>2 DEF Nested, n
    <3> QED BY <1>4, <3>1
  <2>3. ASSUME NEW i \in 1 .. f, NEW j \in 1 .. (n - 1), irqs[j].depth < i
        PROVE  s.frames[i].prio = High
    BY <1>3, <1>4, <1>5, <2>3 DEF Nested, f, n
  <2>4. \A i, j \in 1 .. f : i # j => s.frames[i].prio # s.frames[j].prio
    BY <1>3 DEF Nested, f
  <2> QED BY <1>4, <2>1, <2>2, <2>3, <2>4 DEF Nested, f
<1>8. Callers(s.frames, irqs)
  <2>1. ASSUME NEW i \in 1 .. (n - 1)
        PROVE  OnTop(s.frames, irqs, irqs[i].depth, i - 1, irqs[i].caller)
    <3>1. OnTop(s.frames, s.irqs, s.irqs[i].depth, i - 1, s.irqs[i].caller)
      BY <1>3, <1>5 DEF Callers, n
    <3>2. i - 1 \in 0 .. (n - 1)
      BY <1>1
    <3> QED BY <1>4, <1>6, <3>1, <3>2
  <2>2. ASSUME NEW i \in 1 .. f, NEW k \in 0 .. (n - 1),
               k > 0 => irqs[k].depth < i,
               k < n - 1 => irqs[k + 1].depth >= i
        PROVE  OnTop(s.frames, irqs, i - 1, k, s.frames[i].caller)
    <3>1. k \in 0 .. n /\ (k > 0 => k \in 1 .. (n - 1)) /\ (k < n - 1 => k + 1 \in 1 .. (n - 1))
          /\ (k < n => k < n - 1 \/ k + 1 = n)
      BY <1>1
    <3>2. k > 0 => s.irqs[k].depth < i
      BY <1>4, <2>2, <3>1
    <3>3. k < n => s.irqs[k + 1].depth >= i
      <4>1. CASE k < n - 1
        BY <1>4, <2>2, <3>1, <4>1
      <4>2. CASE k + 1 = n
        <5>1. f >= i
          BY <1>1
        <5> QED BY <1>2, <4>2, <5>1
      <4> QED BY <3>1, <4>1, <4>2
    <3>4. OnTop(s.frames, s.irqs, i - 1, k, s.frames[i].caller)
      BY <1>3, <3>1, <3>2, <3>3 DEF Callers, f, n
    <3> QED BY <1>6, <3>4
  <2> QED BY <1>4, <2>1, <2>2 DEF Callers, f
<1>9. OnTop(s.frames, irqs, f, n - 1, Last(s.irqs).caller)
  <2>1. n \in 1 .. n /\ n - 1 \in 0 .. (n - 1)
    BY <1>1, <1>2
  <2>2. OnTop(s.frames, s.irqs, f, n - 1, s.irqs[n].caller)
    BY <1>2, <1>3, <2>1 DEF Callers, n
  <2> QED BY <1>2, <1>6, <2>1, <2>2
<1> QED BY <1>4, <1>5, <1>7, <1>8, <1>9 DEF f, n

\* Unless what was interrupted is of high priority, this was the only interrupt; what
\* it replaced, or the process put aside before it came, is in the shadow.
LEMMA LowInterrupted ==
  ASSUME NEW s, Good(kernel, s), OnIrq(s),
         ~(Last(s.irqs).caller.running /\ Last(s.irqs).caller.prio = High)
  PROVE  LET x == Last(s.irqs)
         IN  /\ Len(s.irqs) = 1 /\ x = s.irqs[1] /\ x \in Irq /\ s.irqs # <<>>
             /\ x.replaced \/ (~x.caller.running /\ s.frames = <<>> /\ OfProgram(x.caller))
             /\ x.replaced => s.shadowValid /\ s.shadow = x.caller
                              /\ x.caller.running /\ x.caller.prio = Low
<1> DEFINE f == Len(s.frames)
           n == Len(s.irqs)
           x == Last(s.irqs)
<1>1. /\ s \in Processor /\ f \in Nat /\ n \in Nat /\ s.irqs \in Seq(Irq)
      /\ (s.irqs = <<>> <=> n = 0) /\ (s.frames = <<>> <=> f = 0)
      /\ \A i \in 1 .. n : s.irqs[i] \in Irq
      /\ \A i \in 1 .. f : s.frames[i] \in Frame
  BY FrameTypes DEF Good
<1>2. n > 0 /\ x = s.irqs[n] /\ x.depth = f /\ n \in 1 .. n
  BY <1>1 DEF OnIrq
<1>3. x \in Irq /\ x.caller \in Bank /\ x.caller.prio \in {High, Low} /\ s.irqs # <<>>
  BY <1>1, <1>2 DEF Irq, Bank, Priority
<1>4. OnTop(s.frames, s.irqs, f, n - 1, x.caller)
  BY <1>2 DEF Good, Stack, Callers
<1>5. \A i \in 1 .. n : s.irqs[i].depth \in Nat /\ s.irqs[i].depth <= f
  BY <1>1 DEF Good, Stack, Nested, Irq
<1>6. \A i \in 1 .. f, j \in 1 .. n : s.irqs[j].depth < i => s.frames[i].prio = High
  BY DEF Good, Stack, Nested
<1>7. x.replaced <=> x.caller.running /\ x.caller.prio = Low
  BY <1>2 DEF Good, PutAside
<1>8. Replaced(s) => s.shadowValid /\ s.shadow = s.irqs[1].caller
  BY DEF Good, PutAside
<1> HIDE DEF f, n, x
<1>9. ~(x.caller.running /\ x.caller.prio = High)
  BY DEF x
<1>10. n = 1
  <2>1. SUFFICES ASSUME n # 1 PROVE FALSE
    OBVIOUS
  <2>2. n - 1 > 0 /\ n - 1 \in 1 .. n
    BY <1>1, <1>2, <2>1
  <2>3. s.irqs[n - 1].depth # f
    BY <1>4, <1>9, <2>2 DEF OnTop
  <2>4. f > 0 /\ s.irqs[n - 1].depth < f /\ f \in 1 .. f
    BY <1>1, <1>5, <2>2, <2>3
  <2>5. s.frames[f].prio = High
    BY <1>6, <2>2, <2>4
  <2> QED BY <1>4, <1>9, <2>3, <2>4, <2>5 DEF OnTop
<1>11. f > 0 => x.caller.running
  BY <1>4, <1>10 DEF OnTop
<1>12. f = 0 => OfProgram(x.caller)
  BY <1>4, <1>10 DEF OnTop
<1>13. x.replaced \/ (~x.caller.running /\ s.frames = <<>> /\ OfProgram(x.caller))
  BY <1>1, <1>3, <1>7, <1>9, <1>11, <1>12
<1>14. x = s.irqs[1]
  BY <1>2, <1>10
<1>15. x.replaced => s.shadowValid /\ s.shadow = x.caller
  BY <1>3, <1>8, <1>14 DEF Replaced
<1> QED BY <1>3, <1>7, <1>10, <1>13, <1>14, <1>15 DEF x, n

\* What the return from an interrupt handler makes of the banks.
Uninterrupted(s, t) ==
  LET x == Last(s.irqs)
  IN  /\ t.shadow = IF x.replaced THEN x.previous ELSE s.shadow
      /\ \/ /\ x.caller.running /\ x.caller.prio = High
            /\ t.cpu = [x.caller EXCEPT !.valid = TRUE, !.intdis = FALSE]
            /\ t.shadowValid = IF x.replaced THEN x.wasValid ELSE s.shadowValid
         \/ /\ ~(x.caller.running /\ x.caller.prio = High) /\ s.shadowValid
            /\ t.cpu = s.shadow
            /\ t.shadowValid = IF x.replaced THEN x.wasValid ELSE FALSE
         \/ /\ ~(x.caller.running /\ x.caller.prio = High) /\ ~s.shadowValid
            /\ t.cpu = IF x.caller.prio = Low THEN x.caller ELSE Idle(Low)
            /\ t.shadowValid = IF x.replaced THEN x.wasValid ELSE FALSE

\* The rest of the processor stays as it is.
SameButBanks(s, t) ==
  /\ t.queue = s.queue /\ t.mask = s.mask /\ t.frames = s.frames /\ t.record = s.record
  /\ t.word = s.word /\ t.reported = s.reported /\ t.pendingLow = s.pendingLow
  /\ t.error = s.error /\ SamePlaces(s, t)

\* returnFromInterrupt, field by field.
LEMMA ReturnFromInterruptIs ==
  ASSUME NEW s \in Processor, OnIrq(s)
  PROVE  LET t == returnFromInterrupt(s)
         IN  /\ t \in Processor /\ t.irqs = Front(s.irqs) /\ Uninterrupted(s, t)
             /\ SameButBanks(s, t)
<1> DEFINE x == Last(s.irqs)
           irqs == Front(s.irqs)
           r == ResumeBank(s, x)
           t == returnFromInterrupt(s)
<1>1. irqs \in Seq(Irq) /\ x \in Irq
  <2>1. s.irqs \in Seq(Irq) /\ s.irqs # <<>>
    BY FrameTypes DEF OnIrq
  <2> QED BY <2>1, FrontAndLast
<1>2. x.caller \in Bank /\ x.previous \in Bank /\ x.replaced \in BOOLEAN /\ x.wasValid \in BOOLEAN
      /\ s.cpu \in Bank /\ s.shadow \in Bank /\ s.shadowValid \in BOOLEAN
      /\ Idle(Low) \in Bank
  BY <1>1 DEF Irq, Processor, Idle, Bank, Workspace, Priority
<1> DEFINE Banks(u) ==
       \/ /\ x.caller.running /\ x.caller.prio = High
          /\ u.cpu = [x.caller EXCEPT !.valid = TRUE, !.intdis = FALSE]
          /\ u.shadowValid = s.shadowValid
       \/ /\ ~(x.caller.running /\ x.caller.prio = High) /\ s.shadowValid
          /\ u.cpu = s.shadow /\ u.shadowValid = FALSE
       \/ /\ ~(x.caller.running /\ x.caller.prio = High) /\ ~s.shadowValid
          /\ u.cpu = IF x.caller.prio = Low THEN x.caller ELSE Idle(Low)
          /\ u.shadowValid = FALSE
<1>3. /\ r \in Processor /\ r.shadow = s.shadow /\ Banks(r) /\ SameButBanks(s, r)
  <2>1. CASE x.caller.running /\ x.caller.prio = High
    <3> DEFINE c == [x.caller EXCEPT !.valid = TRUE, !.intdis = FALSE]
    <3>1. r = [s EXCEPT !.cpu = c] /\ c \in Bank
      BY <1>2, <2>1 DEF ResumeBank, Bank
    <3> HIDE DEF c, r
    <3>2. r \in Processor /\ r.cpu = c /\ r.shadow = s.shadow /\ r.shadowValid = s.shadowValid
          /\ SameButBanks(s, r)
      BY <3>1 DEF Processor, SameButBanks, SamePlaces
    <3> QED BY <2>1, <3>2 DEF c
  <2>2. CASE ~(x.caller.running /\ x.caller.prio = High) /\ s.shadowValid
    <3>1. r = [s EXCEPT !.cpu = s.shadow, !.shadowValid = FALSE]
      BY <2>2 DEF ResumeBank
    <3> HIDE DEF r
    <3>2. r \in Processor /\ r.cpu = s.shadow /\ r.shadow = s.shadow /\ r.shadowValid = FALSE
          /\ SameButBanks(s, r)
      BY <1>2, <3>1 DEF Processor, SameButBanks, SamePlaces
    <3> QED BY <2>2, <3>2
  <2>3. CASE ~(x.caller.running /\ x.caller.prio = High) /\ ~s.shadowValid
    <3> DEFINE c == IF x.caller.prio = Low THEN x.caller ELSE Idle(Low)
    <3>1. r = [s EXCEPT !.cpu = c] /\ c \in Bank
      BY <1>2, <2>3 DEF ResumeBank
    <3> HIDE DEF c, r
    <3>2. r \in Processor /\ r.cpu = c /\ r.shadow = s.shadow /\ r.shadowValid = s.shadowValid
          /\ SameButBanks(s, r)
      BY <3>1 DEF Processor, SameButBanks, SamePlaces
    <3>3. r.shadowValid = FALSE
      BY <1>2, <2>3, <3>2
    <3> QED BY <2>3, <3>2, <3>3 DEF c
  <2> QED BY <1>2, <2>1, <2>2, <2>3
<1> DEFINE shadow == IF x.replaced THEN x.previous ELSE s.shadow
           valid == IF x.replaced THEN x.wasValid ELSE r.shadowValid
<1>4. t = [r EXCEPT !.irqs = irqs, !.shadow = shadow, !.shadowValid = valid]
  <2>1. r.irqs = s.irqs
    BY <1>2 DEF ResumeBank, Processor
  <2> HIDE DEF r
  <2> QED BY <1>3, <2>1 DEF returnFromInterrupt, r, Processor
<1>5. shadow \in Bank /\ valid \in BOOLEAN
  <2> HIDE DEF r
  <2> QED BY <1>2, <1>3 DEF Processor
<1> HIDE DEF r, t, shadow, valid, irqs, x
<1>6. t \in Processor /\ t.irqs = irqs /\ t.shadow = shadow /\ t.shadowValid = valid
      /\ t.cpu = r.cpu /\ SameButBanks(r, t)
  BY <1>1, <1>3, <1>4, <1>5 DEF Processor, SameButBanks, SamePlaces
<1>7. SameButBanks(s, t)
  BY <1>3, <1>6 DEF SameButBanks, SamePlaces
<1>8. Uninterrupted(s, t)
  BY <1>2, <1>3, <1>6 DEF Uninterrupted, shadow, valid, x
<1> QED BY <1>6, <1>7, <1>8 DEF t, irqs

\* returnFromInterrupt keeps the invariant: below, the stack is as it was.
LEMMA ReturnFromInterruptKeeps ==
  ASSUME NEW s, Good(kernel, s), OnIrq(s)
  PROVE  Good(kernel, returnFromInterrupt(s))
<1> DEFINE t == returnFromInterrupt(s)
           x == Last(s.irqs)
           n == Len(s.irqs)
           f == Len(s.frames)
<1>1. t \in Processor /\ t.irqs = Front(s.irqs) /\ Uninterrupted(s, t) /\ SameButBanks(s, t)
  BY ReturnFromInterruptIs DEF Good
<1> HIDE DEF t
<1>2. /\ t.frames = s.frames /\ t.mask = s.mask /\ t.record = s.record /\ t.word = s.word
      /\ t.pendingLow = s.pendingLow /\ t.error = s.error /\ t.queue = s.queue
      /\ t.late = s.late
  BY <1>1 DEF SameButBanks, SamePlaces
<1>3. /\ t.irqs \in Seq(Irq) /\ Len(t.irqs) = n - 1
      /\ \A i \in 1 .. Len(t.irqs) : i \in 1 .. n /\ t.irqs[i] = s.irqs[i]
      /\ Nested(s.frames, t.irqs) /\ Callers(s.frames, t.irqs)
      /\ OnTop(s.frames, t.irqs, f, n - 1, x.caller)
  BY <1>1, PopIrq DEF Good
<1>4. /\ s \in Processor /\ n \in Nat /\ f \in Nat /\ n > 0 /\ x = s.irqs[n] /\ x.depth = f
      /\ (s.frames = <<>> <=> f = 0) /\ s.irqs # <<>> /\ s.irqs[1] \in Irq
      /\ n \in 1 .. n /\ 1 \in 1 .. n
      /\ s.irqs[1].depth \in Nat /\ s.irqs[1].depth <= f
  <2>1. /\ s \in Processor /\ n \in Nat /\ f \in Nat /\ (s.frames = <<>> <=> f = 0)
        /\ (s.irqs = <<>> <=> n = 0) /\ \A i \in 1 .. n : s.irqs[i] \in Irq
    BY FrameTypes DEF Good
  <2>2. n > 0 /\ x = s.irqs[n] /\ x.depth = f
    BY DEF OnIrq
  <2>3. n \in 1 .. n /\ 1 \in 1 .. n
    BY <2>1, <2>2
  <2>4. s.irqs[1].depth <= f
    BY <2>3 DEF Good, Stack, Nested
  <2> QED BY <2>1, <2>2, <2>3, <2>4 DEF Irq
<1>5. x.replaced <=> x.caller.running /\ x.caller.prio = Low
  BY <1>4 DEF Good, PutAside
<1>6. \A i \in 1 .. Len(t.irqs) :
        t.irqs[i].replaced <=> t.irqs[i].caller.running /\ t.irqs[i].caller.prio = Low
  BY <1>3 DEF Good, PutAside
<1>7. /\ LowBank(s).prio = Low /\ OfProgram(LowBank(s))
      /\ LowBankValid(s) => LowBank(s).running /\ Bottom(s).prio = High
      /\ Replaced(s) => s.shadowValid /\ s.shadow = s.irqs[1].caller
  BY DEF Good, PutAside
<1>8. t.irqs = <<>> <=> n = 1
  <2>1. t.irqs = <<>> <=> Len(t.irqs) = 0
    BY <1>1, FrameTypes
  <2> QED BY <1>3, <1>4, <2>1
<1> HIDE DEF n, f
<1>9. ASSUME x.caller.running, x.caller.prio = High
      PROVE  Stack(t) /\ PutAside(t)
  <2>1. ~x.replaced
    BY <1>5, <1>9, TrapsAssumption
  <2>2. /\ t.cpu = [x.caller EXCEPT !.valid = TRUE, !.intdis = FALSE]
        /\ t.shadow = s.shadow /\ t.shadowValid = s.shadowValid
    BY <1>1, <1>9, <2>1 DEF Uninterrupted
  <2>3. x.caller \in Bank
    BY <1>4, FrameTypes DEF Irq, n
  <2>4. t.cpu.running /\ t.cpu.prio = High /\ t.cpu.wptr = x.caller.wptr
    BY <1>9, <2>2, <2>3 DEF Bank
  <2>5. OnTop(s.frames, t.irqs, f, n - 1, t.cpu)
    BY <1>3, <1>9, <2>4 DEF OnTop, OfProgram
  <2>6. Stack(t)
    BY <1>2, <1>3, <2>5 DEF Stack, f
  <2>7. CASE n = 1
    <3>1. t.irqs = <<>> /\ ~Replaced(s) /\ ~Replaced(t)
      BY <1>4, <1>8, <2>1, <2>7 DEF Replaced
    <3>2. LowBank(t) = LowBank(s) /\ LowBankValid(t) = LowBankValid(s)
      BY <2>2, <3>1 DEF LowBank, LowBankValid
    <3>3. Bottom(t).prio = Bottom(s).prio
      <4>1. CASE f = 0
        BY <1>2, <1>4, <1>9, <2>4, <2>7, <3>1, <4>1 DEF Bottom
      <4>2. CASE f # 0
        BY <1>2, <1>4, <2>7, <3>1, <4>2 DEF Bottom
      <4> QED BY <4>1, <4>2
    <3> QED BY <1>6, <1>7, <2>6, <3>1, <3>2, <3>3 DEF PutAside
  <2>8. CASE n # 1
    <3>1. t.irqs # <<>> /\ t.irqs[1] = s.irqs[1]
      <4>1. 1 \in 1 .. Len(t.irqs)
        BY <1>3, <1>4, <2>8
      <4> QED BY <1>3, <1>8, <2>8, <4>1
    <3>2. Replaced(t) <=> Replaced(s)
      BY <1>4, <3>1 DEF Replaced
    <3>3. LowBank(t) = LowBank(s) /\ LowBankValid(t) = LowBankValid(s)
      BY <2>2, <3>1, <3>2 DEF LowBank, LowBankValid
    <3>4. s.irqs[1].depth # 0 => s.frames # <<>>
      BY <1>4
    <3>5. Bottom(t) = Bottom(s)
      BY <1>2, <1>4, <3>1, <3>4 DEF Bottom
    <3> QED BY <1>6, <1>7, <2>2, <2>6, <3>1, <3>2, <3>3, <3>5 DEF PutAside
  <2> QED BY <2>7, <2>8
<1>10. ASSUME ~(x.caller.running /\ x.caller.prio = High)
       PROVE  Stack(t) /\ PutAside(t)
  <2>1. /\ n = 1 /\ x = s.irqs[1] /\ x \in Irq /\ s.irqs # <<>>
        /\ x.replaced \/ (~x.caller.running /\ s.frames = <<>> /\ OfProgram(x.caller))
        /\ x.replaced => s.shadowValid /\ s.shadow = x.caller
                         /\ x.caller.running /\ x.caller.prio = Low
    BY <1>10, LowInterrupted DEF n
  <2>2. t.irqs = <<>> /\ ~Replaced(t) /\ n - 1 = 0
    BY <1>8, <2>1 DEF Replaced
  <2>3. LowBank(t) = t.shadow /\ LowBankValid(t) = t.shadowValid
    BY <2>2 DEF LowBank, LowBankValid
  <2>4. CASE x.replaced
    <3>1. t.cpu = x.caller /\ t.shadow = x.previous /\ t.shadowValid = x.wasValid
      BY <1>1, <1>10, <2>1, <2>4 DEF Uninterrupted
    <3>2. LowBank(s) = x.previous /\ LowBankValid(s) = x.wasValid
      BY <2>1, <2>4 DEF LowBank, LowBankValid, Replaced
    <3>3. Stack(t)
      BY <1>2, <1>3, <3>1 DEF Stack, f
    <3>4. Bottom(t).prio = Bottom(s).prio
      <4>1. CASE f = 0
        BY <1>2, <1>4, <2>1, <2>2, <3>1, <4>1 DEF Bottom
      <4>2. CASE f # 0
        BY <1>2, <1>4, <2>1, <2>2, <4>2 DEF Bottom
      <4> QED BY <4>1, <4>2
    <3> QED BY <1>6, <1>7, <2>2, <2>3, <3>1, <3>2, <3>3, <3>4 DEF PutAside
  <2>5. CASE ~x.replaced
    <3>1. ~Replaced(s) /\ LowBank(s) = s.shadow
      BY <2>1, <2>5 DEF LowBank, Replaced
    <3>2. t.shadow = s.shadow /\ t.shadowValid = FALSE
      BY <1>1, <1>10, <2>5 DEF Uninterrupted
    <3>3. OfProgram(t.cpu)
      <4>1. t.cpu = s.shadow \/ t.cpu = x.caller \/ t.cpu = Idle(Low)
        BY <1>1, <1>10 DEF Uninterrupted
      <4>2. OfProgram(s.shadow) /\ OfProgram(x.caller)
        BY <1>7, <2>1, <2>5, <3>1
      <4>3. OfProgram(Idle(Low))
        BY DEF OfProgram, Idle
      <4> QED BY <4>1, <4>2, <4>3
    <3>4. f = 0
      BY <1>4, <2>1, <2>5
    <3>5. Stack(t)
      <4>1. OnTop(t.frames, t.irqs, 0, 0, t.cpu)
        BY <3>3 DEF OnTop
      <4>2. Len(t.frames) = 0 /\ Len(t.irqs) = 0
        BY <1>2, <1>3, <2>2, <3>4 DEF f
      <4> QED BY <1>2, <1>3, <4>1, <4>2 DEF Stack
    <3> QED BY <1>6, <1>7, <2>2, <2>3, <3>1, <3>2, <3>5 DEF PutAside
  <2> QED BY <2>4, <2>5
<1>11. Stack(t) /\ PutAside(t)
  BY <1>9, <1>10
<1>12. Records(t) /\ Masks(kernel, t) /\ Masked(kernel, t) /\ OwnTraps(t) /\ ListsByPriority(t)
  BY <1>2 DEF Good, Records, Masks, Masked, OwnTraps, ListsByPriority, Active
<1> QED BY <1>1, <1>11, <1>12 DEF Good, t

\* iret.
LEMMA IretKeeps ==
  ASSUME Good(kernel, m), Iret
  PROVE  /\ OnIrq(m) /\ Good(kernel, returnFromInterrupt(m))
         /\ Finish(returnFromInterrupt(m))
<1>1. InInterrupt /\ Len(m.frames) = Last(m.irqs).depth /\ Finish(returnFromInterrupt(m))
  BY DEF Iret
<1>2. OnIrq(m)
  <2>1. /\ m.irqs \in Seq(Irq) /\ Len(m.irqs) \in Nat /\ m.irqs # <<>>
    BY <1>1, FrameTypes DEF Good, InInterrupt, interruptHandlerActive
  <2>2. Last(m.irqs) = m.irqs[Len(m.irqs)] /\ Len(m.irqs) > 0
    BY <2>1, FrontAndLast
  <2> QED BY <1>1, <2>2 DEF OnIrq
<1> QED BY <1>1, <1>2, ReturnFromInterruptKeeps

-----------------------------------------------------------------------------
\* The invariant of the specification, and what follows from it.
Inv == kernel \in Kernels /\ Good(kernel, m)

\* The invariant holds at the start.
LEMMA InitGood ==
  ASSUME Init
  PROVE  Inv
<1>1. kernel \in Kernels /\ m.mask = kernel.mask /\ m.pendingLow = <<>> /\ m.error = "none"
      /\ m.frames = <<>> /\ m.irqs = <<>>
  BY DEF Init
<1>2. kernel.mask \in [Priority -> SUBSET Causes] /\ High # Low /\ First \in LowProc
      /\ First \in Proc /\ MaxCount \in Nat
  BY <1>1, TrapsAssumption
<1>3. /\ m.cpu = [Running(First, Low) EXCEPT !.valid = TRUE] /\ m.shadow = Idle(Low)
      /\ m.shadowValid = FALSE
  BY DEF Init
<1>4. m.cpu \in Bank /\ m.shadow \in Bank /\ OfProgram(m.cpu) /\ OfProgram(m.shadow)
      /\ m.shadow.prio = Low
  <2>1. First \in Of(Low)
    BY <1>2 DEF Of, PriorityOf
  <2>2. Running(First, Low) \in Bank /\ Idle(Low) \in Bank
    BY <1>2 DEF Running, Idle, Bank, Workspace, Priority
  <2>3. /\ m.cpu \in Bank /\ m.cpu.wptr = First /\ m.cpu.prio = Low
    BY <1>3, <2>2 DEF Running, Bank
  <2>4. /\ m.shadow \in Bank /\ m.shadow.wptr = NoProc /\ m.shadow.prio = Low
        /\ ~m.shadow.running
    BY <1>3, <2>2 DEF Idle
  <2> QED BY <1>2, <2>1, <2>3, <2>4 DEF OfProgram
<1>5. <<>> \in Seq(Proc) /\ <<>> \in Seq(Frame) /\ <<>> \in Seq(Irq)
      /\ <<>> \in Seq([cause : {"RUN", "SIGNAL"}, proc : LowProc]) /\ 0 \in 0 .. MaxCount
      /\ \A p \in Priority : <<>> \in Seq(Of(p))
  BY <1>2, EmptySeq
<1>6. m \in Processor
  <2>1. [mask |-> {}, wptr |-> NoProc, valid |-> FALSE]
          \in [mask : SUBSET Causes, wptr : Workspace, valid : BOOLEAN]
    BY DEF Workspace
  <2> HIDE DEF Init
  <2>2. m.cpu \in Bank /\ m.shadow \in Bank /\ m.mask \in [Priority -> SUBSET Causes]
    BY <1>1, <1>2, <1>4
  <2> QED BY <1>5, <2>1, <2>2, Zenon DEF Init, Processor
<1>7. ListsByPriority(m)
  BY <1>5 DEF Init, ListsByPriority
<1>8. Len(m.frames) = 0 /\ Len(m.irqs) = 0 /\ Len(m.pendingLow) = 0 /\ 1 .. 0 = {}
  BY <1>1, EmptySeq
<1>9. Stack(m)
  BY <1>1, <1>4, <1>8 DEF Stack, Nested, Callers, OnTop
<1>10. PutAside(m)
  BY <1>1, <1>3, <1>4, <1>8 DEF PutAside, LowBank, LowBankValid, Replaced, Bottom
<1>11. Records(m)
  <2>1. \A p \in Priority : m.word[p] = NoProc
    BY DEF Init
  <2> QED BY <1>8, <2>1 DEF Records
<1>12. Masks(kernel, m) /\ Masked(kernel, m) /\ OwnTraps(m)
  BY <1>1, <1>8 DEF Masks, Masked, OwnTraps, Active, Enables
<1> QED BY <1>1, <1>6, <1>7, <1>9, <1>10, <1>11, <1>12 DEF Inv, Good

\* Every step ends with a poll of a state that satisfies the invariant.
LEMMA NextPolls ==
  ASSUME kernel \in Kernels, Good(kernel, m), Next
  PROVE  Polls /\ kernel' = kernel
<1>1. kernel' = kernel
  BY DEF Next, Run, Communicate, Stop, Sleep, AwaitChannel, Wait, Signal, Timeslice,
     IntDis, IntEnb, TrapDisable, Advance, Keep, Tret, SwitchTask, InsertQueue, Interrupt,
     InterruptSignal, Iret, Executing, Handling, InInterrupt
<1>2. \A q \in Proc : Run(q) \/ Communicate(q) => Polls
  BY RunKeeps, CommunicateKeeps
<1>3. Stop \/ Sleep \/ AwaitChannel \/ Wait \/ Signal \/ Timeslice => Polls
  BY StopKeeps, SleepKeeps, AwaitChannelKeeps, WaitKeeps, SignalKeeps, TimesliceKeeps
<1>4. IntDis \/ IntEnb \/ TrapDisable \/ Advance => Polls
  BY IntDisableKeeps, TrapDisableKeeps, AdvanceKeeps, FinishPolls
<1>5. \A p \in Priority : Keep(p) \/ Tret(p) => Polls
  BY KeepKeeps, TretKeeps, FinishPolls
<1>6. \A p \in Priority, q \in Proc : SwitchTask(p, q) \/ InsertQueue(p, q) => Polls
  BY SwitchTaskKeeps, InsertQueueKeeps, FinishPolls
<1>7. \A l \in Level : Interrupt(l) => Polls
  BY InterruptKeeps DEF Polls
<1>8. InterruptSignal \/ Iret => Polls
  BY SignalKeeps, IretKeeps, FinishPolls
<1> QED BY <1>1, <1>2, <1>3, <1>4, <1>5, <1>6, <1>7, <1>8 DEF Next

\* The invariant is inductive.
LEMMA NextGood ==
  ASSUME Inv, [Next]_vars
  PROVE  Inv'
<1>1. kernel \in Kernels /\ Good(kernel, m)
  BY DEF Inv
<1>2. CASE UNCHANGED vars
  BY <1>1, <1>2 DEF Inv, vars
<1>3. CASE Next
  <2>1. kernel' = kernel /\ Polls
    BY <1>1, <1>3, NextPolls
  <2>2. Good(kernel, m')
    BY <2>1, PollKeeps DEF Polls
  <2> QED BY <1>1, <2>1, <2>2 DEF Inv
<1> QED BY <1>2, <1>3

\* The inductive invariant holds always.
THEOREM AlwaysGood == Spec => []Inv
<1>1. Init => Inv
  BY InitGood
<1>2. Inv /\ [Next]_vars => Inv'
  BY NextGood
<1> QED BY <1>1, <1>2, PTL DEF Spec

\* The fields of the processor have their types (struct CPUState, st20.h).
THEOREM TypeCorrect == Spec => []TypeOK
<1>1. Inv => TypeOK
  <2>1. SUFFICES ASSUME Inv PROVE TypeOK
    OBVIOUS
  <2>2. m \in Processor /\ kernel \in Kernels
    BY <2>1 DEF Inv, Good
  <2> QED BY <2>2 DEF Processor, TypeOK
<1> QED BY <1>1, AlwaysGood, PTL

\* With handlers that mask their own group, requestTrap never stops on TRAP_REENTRY,
\* whatever traps, timers and interrupts come in.
THEOREM HandlersNeverReentered == Spec => []NeverReentered
<1>1. Inv => NeverReentered
  BY DEF Inv, Good, Masked, NeverReentered
<1> QED BY <1>1, AlwaysGood, PTL

\* After the last handler of a priority has returned its enables are what the program
\* set (enterTrap and returnFromTrap, however they nest).
THEOREM EnablesAreRestored == Spec => []MasksRestored
<1>1. Inv => MasksRestored
  <2>1. SUFFICES ASSUME Inv, NEW p \in Priority, \A i \in DOMAIN m.frames : m.frames[i].prio # p
        PROVE  m.mask[p] \in {kernel.mask[p], IF p = Low THEN kernel.mask[p] \ kernel.cleared
                                              ELSE kernel.mask[p]}
    BY DEF MasksRestored
  <2>2. ~Active(m, p)
    BY <2>1, FrameTypes DEF Inv, Good, Active
  <2> QED BY <2>1, <2>2 DEF Inv, Good, Masks, Enables
<1> QED BY <1>1, AlwaysGood, PTL

\* A trap of low priority about its own tasks is taken over low priority (requestTrap
\* and pollTimers put the others off).
THEOREM LowTrapsTrapLow == Spec => []OwnTrapsAtOwnPriority
<1>1. Inv => OwnTrapsAtOwnPriority
  BY FrameTypes DEF Inv, Good, OwnTraps, OwnTrapsAtOwnPriority
<1> QED BY <1>1, AlwaysGood, PTL

-----------------------------------------------------------------------------
\* Saved states.
LEMMA SavedIsValid ==
  ASSUME Inv, ~InterruptOnLowHandler
  PROVE  ValidShadow(m) /\ ValidFrames(m) /\ ValidIrqs(m)
<1> DEFINE f == Len(m.frames)
           n == Len(m.irqs)
<1>1. /\ m \in Processor /\ f \in Nat /\ n \in Nat /\ m.frames \in Seq(Frame)
      /\ (m.irqs = <<>> <=> n = 0) /\ (m.frames = <<>> <=> f = 0)
      /\ DOMAIN m.frames = 1 .. f /\ DOMAIN m.irqs = 1 .. n
  BY FrameTypes DEF Inv, Good
<1>2. /\ Nested(m.frames, m.irqs) /\ OnTop(m.frames, m.irqs, f, n, m.cpu)
      /\ PutAside(m) /\ Good(kernel, m)
  BY DEF Inv, Good, Stack
<1>3. ValidShadow(m)
  <2>1. SUFFICES ASSUME m.shadowValid
        PROVE  (m.cpu.prio = High \/ m.frames # <<>>) /\ m.shadow.prio = Low /\ m.shadow.running
    BY DEF ValidShadow
  <2>2. m.irqs # <<>> => m.cpu.prio = High
    BY <1>2, InterruptsAreHigh
  <2>3. CASE Replaced(m)
    <3>1. m.irqs # <<>> /\ m.irqs[1].replaced /\ 1 \in 1 .. n /\ m.shadow = m.irqs[1].caller
      BY <1>1, <1>2, <2>3 DEF Replaced, PutAside
    <3>2. m.irqs[1].caller.running /\ m.irqs[1].caller.prio = Low
      BY <1>2, <3>1 DEF PutAside
    <3> QED BY <2>2, <3>1, <3>2
  <2>4. CASE ~Replaced(m)
    BY <1>2, <2>1, <2>2, <2>4 DEF PutAside, LowBank, LowBankValid, Bottom
  <2> QED BY <2>3, <2>4
<1>4. ValidFrames(m)
  <2>1. \A i, j \in DOMAIN m.frames : i # j => m.frames[i].prio # m.frames[j].prio
    BY <1>1, <1>2 DEF Nested
  <2>2. m.frames # <<>> => Last(m.frames).prio = m.cpu.prio
    <3>1. SUFFICES ASSUME m.frames # <<>> PROVE Last(m.frames).prio = m.cpu.prio
      OBVIOUS
    <3>2. CASE m.irqs # <<>>
      BY <3>1, <3>2 DEF InterruptOnLowHandler, interruptHandlerActive
    <3>3. CASE m.irqs = <<>>
      <4>1. Last(m.frames) = m.frames[f] /\ f > 0 /\ n = 0
        BY <1>1, <3>1, <3>3, FrontAndLast
      <4> QED BY <1>2, <4>1 DEF OnTop
    <3> QED BY <3>2, <3>3
  <2> QED BY <2>1, <2>2 DEF ValidFrames
<1>5. ValidIrqs(m)
  <2>1. SUFFICES ASSUME NEW i \in 1 .. n
        PROVE  (i > 1 => m.irqs[i].level > m.irqs[i - 1].level) /\ m.irqs[i].depth <= f
    BY <1>1 DEF ValidIrqs
  <2>2. m.irqs[i].depth <= f
    BY <1>2 DEF Nested
  <2>3. i > 1 => m.irqs[i].level > m.irqs[i - 1].level
    <3>1. SUFFICES ASSUME i > 1 PROVE m.irqs[i].level > m.irqs[i - 1].level
      OBVIOUS
    <3>2. i - 1 \in 1 .. n /\ i - 1 < i
      BY <1>1, <3>1
    <3>3. m.irqs[i - 1].level < m.irqs[i].level
      BY <1>2, <3>2 DEF Nested
    <3>4. m.irqs[i].level \in Nat /\ m.irqs[i - 1].level \in Nat
      BY <1>1, <3>2, FrameTypes, TrapsAssumption DEF Irq
    <3> QED BY <3>3, <3>4
  <2> QED BY <2>2, <2>3
<1> QED BY <1>3, <1>4, <1>5

\* saveCPUState and loadCPUState: a saved state is valid, and comes back as it was.
THEOREM SavedStatesReturn == Spec => []SavedStateReturns
<1>1. Inv => SavedStateReturns
  <2> SUFFICES ASSUME Inv, m.pendingLow = <<>>, ~InterruptOnLowHandler
      PROVE  LET saved == saveCPUState(m)
             IN  validRuntime(saved) /\ loadCPUState(saved, m) = m
    BY DEF SavedStateReturns
  <2> DEFINE saved == saveCPUState(m)
  <2>1. /\ saved.cpu = m.cpu /\ saved.shadow = m.shadow /\ saved.shadowValid = m.shadowValid
        /\ saved.frames = m.frames /\ saved.irqs = m.irqs
    BY DEF saveCPUState, captureRuntime
  <2>2. validRuntime(saved)
    <3> HIDE DEF saved
    <3> QED BY <2>1, SavedIsValid DEF validRuntime, ValidShadow, ValidFrames, ValidIrqs
  <2>3. restoreRuntime(saved) = m
    <3>1. m \in Processor
      BY DEF Inv, Good
    <3> QED BY <3>1 DEF Processor, restoreRuntime, saveCPUState, captureRuntime, Guest
  <2> QED BY <2>2, <2>3 DEF loadCPUState
<1> QED BY <1>1, AlwaysGood, PTL

-----------------------------------------------------------------------------
\* What a poll leaves.  A handler runs.
LEMMA HandlersRun ==
  ASSUME NEW s, Good(kernel, s), HandlersActive(s)
  PROVE  s.cpu.running
<1> DEFINE f == Len(s.frames)
           n == Len(s.irqs)
<1>1. /\ f \in Nat /\ n \in Nat /\ (s.irqs = <<>> <=> n = 0) /\ (s.frames = <<>> <=> f = 0)
  BY FrameTypes DEF Good
<1>2. OnTop(s.frames, s.irqs, f, n, s.cpu)
  BY DEF Good, Stack
<1>3. CASE s.irqs # <<>>
  BY <1>3, InterruptsAreHigh
<1>4. CASE s.irqs = <<>>
  <2>1. n = 0 /\ f > 0
    BY <1>1, <1>4 DEF HandlersActive, trapHandlerActive, interruptHandlerActive
  <2> QED BY <1>2, <2>1 DEF OnTop
<1> QED BY <1>3, <1>4

\* Nothing is left to do if nothing runs; the rest of the traps put off wait only
\* for a mask that is no longer what the program set first.
Polled(s) ==
  s.error = "none" =>
    /\ ~s.cpu.running =>
         /\ s.queue[High] = <<>> /\ s.queue[Low] = <<>> /\ ~s.shadowValid
         /\ s.pendingLow = <<>> /\ s.pendingTimer = NoProc
         /\ s.late[High] = <<>> /\ s.late[Low] = <<>>
         /\ ~MayReport(s, Low) /\ ~MayReport(s, s.cpu.prio)
    /\ s.cpu.running /\ s.cpu.prio = Low /\ ~HandlersActive(s) /\ s.pendingLow # <<>> =>
         s.mask[Low] # kernel.mask[Low]

\* A handler leaves a poll nothing to do.
LEMMA ActivePolled ==
  ASSUME NEW s, Good(kernel, s), HandlersActive(s)
  PROVE  Polled(s)
  BY HandlersRun DEF Polled

\* A dispatch that enters no handler leaves the masks and the traps put off; one at
\* high priority with something to do stays there.
Dispatched(s, t) ==
  /\ t.frames = <<>> /\ t.error = "none" => t.mask = s.mask /\ t.pendingLow = s.pendingLow
  /\ t.frames = <<>> /\ s.cpu.prio = High /\ (s.cpu.running \/ s.queue[High] # <<>>) =>
       t.cpu.prio = High
  /\ ~t.cpu.running => t = s /\ Settled(s)
  /\ Leaves(s, t) /\ Good(kernel, t)

\* What dispatchProcess does below all handlers.
LEMMA DispatchIs ==
  ASSUME NEW s, Good(kernel, s), ~HandlersActive(s)
  PROVE  Dispatched(s, dispatchProcess(s))
<1> DEFINE t == dispatchProcess(s)
           Stays == s.cpu.prio = High /\ (s.cpu.running \/ s.queue[High] # <<>>)
           Result == /\ t.frames = <<>> /\ t.error = "none" =>
                          t.mask = s.mask /\ t.pendingLow = s.pendingLow
                     /\ t.frames = <<>> /\ Stays => t.cpu.prio = High
<1>1. /\ s \in Processor /\ s.cpu.prio \in Priority /\ Low \in Priority /\ High # Low
      /\ s.irqs = <<>>
  BY NoHandlers DEF Priority
<1>2. ASSUME t = ReportEmpty(s, s.cpu.prio), OwnQueueEmpty(s) PROVE Result
  <2>1. MayReport(s, s.cpu.prio)
    BY <1>2 DEF OwnQueueEmpty
  <2> HIDE DEF t
  <2>2. t.frames # <<>>
    BY <1>1, <1>2, <2>1, ReportEmptyEnters
  <2> QED BY <2>2
<1>3. ASSUME t = ReportEmpty(Drop(s), Low), BothQueuesEmpty(s) PROVE Result
  <2>1. MayReport(s, Low) /\ ~s.shadowValid
    BY <1>3 DEF BothQueuesEmpty
  <2> DEFINE d == Drop(s)
  <2>2. Good(kernel, d) /\ ~HandlersActive(d) /\ d.cpu.prio = Low
    BY <2>1, DropKeeps
  <2>3. MayReport(d, Low)
    BY <1>1, <2>1 DEF MayReport, Drop, Processor
  <2> HIDE DEF t, d
  <2>4. t.frames # <<>>
    BY <1>1, <1>3, <2>2, <2>3, ReportEmptyEnters DEF d
  <2> QED BY <2>4
<1>4. ASSUME t = ResumeShadow(s), s.shadowValid, ~s.cpu.running, s.queue[High] = <<>> PROVE Result
  <2>1. t.mask = s.mask /\ t.pendingLow = s.pendingLow
    BY <1>1, <1>4 DEF ResumeShadow, Processor
  <2> HIDE DEF t
  <2> QED BY <1>4, <2>1
<1>5. ASSUME NEW p \in Priority, t = Switch(s, p), MaySwitch(s, p), s.queue[High] # <<>> => p = High
      PROVE  Result
  <2> DEFINE w == Switched(s, p)
             q == Head(s.queue[p])
             r == requestTrap(w, "PROCESS", p, q)
  <2>1. Good(kernel, w) /\ w.cpu = Running(q, p) /\ q \in Of(p) /\ SameHandlers(s, w)
        /\ ~HandlersActive(w)
    BY <1>5, SwitchedKeeps
  <2>2. w.cpu.prio = p
    BY <2>1 DEF Running
  <2>3. Stays => p = High
    BY <1>1, <1>5 DEF MaySwitch
  <2>4. s.cpu.running => MayRequest(w, "PROCESS", p, q)
    BY <1>1, <1>5 DEF MayRequest, MaySwitch
  <2>5. q \in Proc \union {NoProc} /\ "PROCESS" \in Causes
    BY <2>1 DEF Of, Causes
  <2>6. ~Deferred(w, "PROCESS", p)
    BY DEF Deferred
  <2>7. t = IF s.cpu.running THEN r ELSE w
    BY <1>5, SwitchIs
  <2> HIDE DEF w, q, r
  <2>8. w.mask = s.mask /\ w.pendingLow = s.pendingLow
    BY <2>1 DEF SameHandlers
  <2>9. s.cpu.running => r = w \/ r.frames # <<>>
    <3>1. s.cpu.running /\ "PROCESS" \in w.mask[p] => r.frames # <<>>
      BY <2>1, <2>4, <2>5, <2>6, RequestEnters DEF r
    <3>2. "PROCESS" \notin w.mask[p] => r = w
      BY DEF r, requestTrap
    <3> QED BY <3>1, <3>2
  <2> HIDE DEF t
  <2> QED BY <2>2, <2>3, <2>7, <2>8, <2>9
<1>6. ASSUME t = s PROVE Result
  BY <1>6
<1>7. \/ t = s
      \/ t = ReportEmpty(s, s.cpu.prio) /\ OwnQueueEmpty(s)
      \/ t = ReportEmpty(Drop(s), Low) /\ BothQueuesEmpty(s)
      \/ t = ResumeShadow(s) /\ s.shadowValid /\ ~s.cpu.running /\ s.queue[High] = <<>>
      \/ \E p \in Priority : t = Switch(s, p) /\ MaySwitch(s, p)
                             /\ (s.queue[High] # <<>> => p = High)
  BY DispatchOutcomes
<1>8. Result
  <2> HIDE DEF t
  <2> QED BY <1>2, <1>3, <1>4, <1>5, <1>6, <1>7
<1>9. Leaves(s, t) /\ (~t.cpu.running => t = s /\ Settled(s)) /\ Good(kernel, t)
  BY DispatchSettles, DispatchKeeps
<1> HIDE DEF t
<1>10. Dispatched(s, t)
  BY <1>8, <1>9 DEF Dispatched
<1> QED BY <1>10 DEF t

\* What is dispatched after a process of priority p has become ready.
LEMMA DispatchReady ==
  ASSUME NEW s, Good(kernel, s), s.error = "none", NEW p \in Priority, s.queue[p] # <<>>,
         \/ s.pendingLow = <<>> \/ s.mask[Low] # kernel.mask[Low]
         \/ s.cpu.prio = High /\ p = High
  PROVE  Polled(dispatchProcess(s))
<1> DEFINE t == dispatchProcess(s)
<1>1. CASE HandlersActive(s)
  BY <1>1, ActivePolled DEF dispatchProcess
<1>2. CASE ~HandlersActive(s)
  <2>1. Dispatched(s, t)
    BY <1>2, DispatchIs
  <2> HIDE DEF t
  <2>2. Good(kernel, t)
    BY <2>1 DEF Dispatched
  <2>3. t.cpu.running
    BY <2>1 DEF Dispatched, Settled, Priority
  <2>4. CASE HandlersActive(t)
    BY <2>2, <2>4, ActivePolled DEF t
  <2>5. CASE ~HandlersActive(t)
    <3>1. t.frames = <<>>
      BY <2>5 DEF HandlersActive, trapHandlerActive
    <3>2. Polled(t)
      BY <2>1, <2>3, <3>1, TrapsAssumption DEF Dispatched, Polled
    <3> QED BY <3>2 DEF t
  <2> QED BY <2>4, <2>5
<1> QED BY <1>1, <1>2

\* A queue that a process has joined is not empty.
LEMMA EnqueueFills ==
  ASSUME NEW s, Good(kernel, s), NEW q \in Proc
  PROVE  LET t == enqueueProcess(s, q)
         IN  /\ t.queue[PriorityOf(q)] # <<>> /\ t.pendingTimer = s.pendingTimer
             /\ t.late = s.late
<1> DEFINE p == PriorityOf(q)
           t == enqueueProcess(s, q)
           a == Append(s.queue[p], q)
<1>1. s \in Processor /\ p \in Priority /\ s.queue \in [Priority -> Seq(Proc)]
  BY LowIsLow DEF Good, Processor
<1>2. a # <<>>
  <2>1. Len(a) = Len(s.queue[p]) + 1 /\ Len(s.queue[p]) \in Nat
    BY <1>1, AppendProperties, LenProperties
  <2>2. Len(a) # 0 /\ Len(<<>>) = 0
    BY <2>1, EmptySeq
  <2> QED BY <2>2
<1> HIDE DEF a
<1>3. t.queue = [s.queue EXCEPT ![p] = a] /\ t.pendingTimer = s.pendingTimer /\ t.late = s.late
  BY <1>1 DEF enqueueProcess, Processor, a
<1> HIDE DEF t
<1> QED BY <1>1, <1>2, <1>3 DEF t

\* A timer trap is taken, or its process takes part in a dispatch.
LEMMA TakeTimerNowPolled ==
  ASSUME NEW s, Good(kernel, s), TimerReady(s), s.error = "none",
         ~HandlersActive(s) /\ s.pendingLow # <<>> =>
           s.cpu.prio = High /\ PriorityOf(s.pendingTimer) = High
  PROVE  Polled(TakeTimerNow(s))
<1> DEFINE q == s.pendingTimer
           p == PriorityOf(q)
           t == TrapOrEnqueue(s, "TIMER", q)
           u == [t EXCEPT !.pendingTimer = NoProc]
<1>1. q \in Proc /\ p \in Priority /\ "TIMER" \in Causes /\ MayRequest(s, "TIMER", p, q)
      /\ s \in Processor
  BY LowIsLow DEF TimerReady, MayRequest, Causes, Good
<1>2. TakeTimerNow(s) = IF t.error # "none" THEN t
                        ELSE IF "TIMER" \in s.mask[p] THEN u ELSE dispatchProcess(u)
  BY DEF TakeTimerNow
<1>3. CASE "TIMER" \in s.mask[p]
  <2>1. t = requestTrap(s, "TIMER", p, q)
    BY <1>3 DEF TrapOrEnqueue
  <2>2. ~Deferred(s, "TIMER", p)
    BY DEF Deferred
  <2>3. t = Reentered(s) \/ t = EnterTrap(s, "TIMER", p, q)
    BY <1>1, <1>3, <2>1, <2>2, RequestOutcomes
  <2>4. CASE t = Reentered(s)
    <3>1. t.error # "none"
      BY <1>1, <2>4 DEF Reentered, Processor
    <3> HIDE DEF t
    <3> QED BY <1>2, <3>1 DEF Polled
  <2>5. CASE t = EnterTrap(s, "TIMER", p, q)
    <3>1. Entered(s, "TIMER", p, q, t) /\ t \in Processor
      <4>1. Entered(s, "TIMER", p, q, t)
        BY <1>1, <2>5, EnterTrapIs
      <4> HIDE DEF t
      <4> QED BY <4>1 DEF Entered
    <3>2. t.frames # <<>>
      <4> HIDE DEF t
      <4>1. Len(t.frames) = Len(s.frames) + 1 /\ Len(s.frames) \in Nat
        BY <1>1, <3>1, FrameTypes DEF Entered
      <4>2. Len(t.frames) # 0 /\ Len(<<>>) = 0
        BY <4>1, EmptySeq
      <4> QED BY <4>2
    <3>3. Good(kernel, t)
      BY <1>1, TrapOrEnqueueKeeps
    <3> HIDE DEF t
    <3>4. Good(kernel, u) /\ u.frames = t.frames
      BY <3>1, <3>3, PendingTimerKeeps DEF Processor
    <3> HIDE DEF u
    <3>5. Polled(u) /\ Polled(t)
      BY <3>2, <3>3, <3>4, ActivePolled DEF HandlersActive, trapHandlerActive
    <3> QED BY <1>2, <1>3, <3>5
  <2> QED BY <2>3, <2>4, <2>5
<1>4. CASE "TIMER" \notin s.mask[p]
  <2>1. t = enqueueProcess(s, q)
    BY <1>4 DEF TrapOrEnqueue
  <2>2. /\ Good(kernel, t) /\ SameHandlers(s, t) /\ SameBanks(s, t) /\ t.queue[p] # <<>>
    BY <1>1, <2>1, EnqueueKeeps, EnqueueFills
  <2> HIDE DEF t
  <2>3. t \in Processor
    BY <2>2 DEF Good
  <2>4. /\ Good(kernel, u) /\ u.frames = t.frames /\ u.irqs = t.irqs /\ u.queue = t.queue
        /\ u.cpu = t.cpu /\ u.mask = t.mask /\ u.pendingLow = t.pendingLow /\ u.error = t.error
    BY <2>2, <2>3, PendingTimerKeeps DEF Processor
  <2> HIDE DEF u
  <2>5. TakeTimerNow(s) = dispatchProcess(u)
    BY <1>2, <1>4, <2>2 DEF SameHandlers
  <2>6. CASE HandlersActive(u)
    BY <2>4, <2>5, <2>6, ActivePolled DEF dispatchProcess
  <2>7. CASE ~HandlersActive(u)
    <3>1. ~HandlersActive(s)
      BY <2>2, <2>4, <2>7 DEF SameHandlers, HandlersActive, trapHandlerActive,
         interruptHandlerActive
    <3>2. u.pendingLow = <<>> \/ (u.cpu.prio = High /\ p = High)
      BY <2>2, <2>4, <3>1 DEF SameHandlers, SameBanks
    <3>3. u.error = "none" /\ u.queue[p] # <<>>
      BY <2>2, <2>4 DEF SameHandlers
    <3> QED BY <1>1, <2>4, <2>5, <3>2, <3>3, DispatchReady
  <2> QED BY <2>6, <2>7
<1> QED BY <1>3, <1>4

\* The poll that has a timer trap pending leaves nothing undone.
LEMMA TakeTimerPolled ==
  ASSUME NEW s, Good(kernel, s), ~HandlersActive(s), s.error = "none", s.pendingTimer # NoProc,
         ~(s.pendingLow # <<>> /\ LowMayTrap(s))
  PROVE  Polled(TakeTimer(s))
<1> DEFINE p == PriorityOf(s.pendingTimer)
           below == p = Low /\ s.cpu.prio = High
           t == dispatchProcess(s)
<1>1. /\ s.pendingTimer \in Proc /\ s.irqs = <<>> /\ s.cpu.prio \in {High, Low}
      /\ p \in Priority /\ High # Low /\ s \in Processor
  <2>1. s.pendingTimer \in Proc
    BY DEF Good, Processor
  <2> QED BY <2>1, NoHandlers, LowIsLow
<1>2. Dispatched(s, t)
  BY DispatchIs
<1>3. s.pendingLow # <<>> => s.cpu.prio = High /\ (s.cpu.running \/ s.queue[High] # <<>>)
  BY <1>1 DEF LowMayTrap
<1>4. \/ TakeTimer(s) = t /\ (s.cpu.running \/ t.cpu.running \/ t.queue[High] # <<>>
                                \/ t.error # "none")
      \/ TakeTimer(s) = TakeTimerNow(t) /\ t.cpu.prio = Low /\ t.error = "none"
      \/ TakeTimer(s) = TakeTimerNow(Drop(t)) /\ ~t.cpu.running /\ t.error = "none"
      \/ TakeTimer(s) = TakeTimerNow(s) /\ ~below
  BY DEF TakeTimer, Drop
<1> HIDE DEF t
<1>5. /\ t.irqs = <<>> /\ t.pendingTimer = s.pendingTimer /\ Good(kernel, t)
      /\ ~t.cpu.running => t = s /\ Settled(s)
      /\ t.frames = <<>> /\ t.error = "none" => t.mask = s.mask /\ t.pendingLow = s.pendingLow
      /\ t.frames = <<>> /\ s.cpu.prio = High /\ (s.cpu.running \/ s.queue[High] # <<>>) =>
           t.cpu.prio = High
  BY <1>1, <1>2 DEF Leaves, Dispatched
<1>6. t.cpu.running => Polled(t)
  <2>1. CASE t.frames = <<>>
    BY <1>1, <1>3, <1>5, <2>1 DEF Polled
  <2>2. CASE t.frames # <<>>
    BY <1>5, <2>2, ActivePolled DEF HandlersActive, trapHandlerActive
  <2> QED BY <2>1, <2>2
<1>7. t.error # "none" => Polled(t)
  BY DEF Polled
<1>8. s.cpu.running \/ t.queue[High] # <<>> => t.cpu.running
  BY <1>5 DEF Settled
<1>9. t.cpu.prio = Low /\ t.error = "none" => Polled(TakeTimerNow(t))
  <2>1. SUFFICES ASSUME t.cpu.prio = Low, t.error = "none" PROVE Polled(TakeTimerNow(t))
    OBVIOUS
  <2>2. TimerReady(t)
    BY <1>1, <1>5, <2>1 DEF TimerReady
  <2>3. ~HandlersActive(t) => t.pendingLow = <<>>
    <3>1. ~HandlersActive(t) => t.frames = <<>>
      BY DEF HandlersActive, trapHandlerActive
    <3> QED BY <1>1, <1>3, <1>5, <2>1, <3>1
  <2> QED BY <1>5, <2>1, <2>2, <2>3, TakeTimerNowPolled
<1>10. ~t.cpu.running => Polled(TakeTimerNow(Drop(t)))
  <2>1. SUFFICES ASSUME ~t.cpu.running PROVE Polled(TakeTimerNow(Drop(s)))
    BY <1>5
  <2>2. ~s.shadowValid /\ s.queue[High] = <<>> /\ ~s.cpu.running
    BY <1>5, <2>1 DEF Settled
  <2>3. s.pendingLow = <<>>
    BY <1>3, <2>2
  <2> DEFINE d == Drop(s)
  <2>4. Good(kernel, d) /\ d.cpu.prio = Low
    BY <2>2, DropKeeps
  <2>5. d.irqs = s.irqs /\ d.pendingTimer = s.pendingTimer /\ d.pendingLow = s.pendingLow
        /\ d.error = s.error
    BY <1>1 DEF Drop, Processor
  <2> HIDE DEF d
  <2>6. Polled(TakeTimerNow(d))
    BY <1>1, <2>3, <2>4, <2>5, TakeTimerNowPolled DEF TimerReady
  <2> QED BY <2>6 DEF d
<1>11. ~below => Polled(TakeTimerNow(s))
  <2>1. SUFFICES ASSUME ~below PROVE Polled(TakeTimerNow(s))
    OBVIOUS
  <2>2. TimerReady(s)
    BY <1>1, <2>1 DEF TimerReady
  <2>3. s.pendingLow # <<>> => s.cpu.prio = High /\ p = High
    BY <1>1, <1>3, <2>1 DEF Priority
  <2> QED BY <2>2, <2>3, TakeTimerNowPolled
<1> QED BY <1>4, <1>6, <1>7, <1>8, <1>9, <1>10, <1>11

\* Nor does the poll that has a trap put off.
LEMMA TakeDeferredPolled ==
  ASSUME NEW s, Good(kernel, s), ~HandlersActive(s), s.error = "none", LowMayTrap(s),
         s.pendingLow # <<>>
  PROVE  Polled(TakeDeferred(s))
<1> DEFINE u == FirstDeferred(s)
           d == Head(s.pendingLow)
           t == enqueueProcess(u, d.proc)
           r == requestTrap(u, d.cause, Low, d.proc)
<1>1. TakeDeferred(s) = IF d.cause \in u.mask[Low] THEN r ELSE dispatchProcess(t)
  BY DEF TakeDeferred, FirstDeferred, ToLow
<1>2. /\ Good(kernel, u) /\ u.cpu.prio = Low /\ u.irqs = <<>> /\ ~HandlersActive(u)
      /\ d.proc \in LowProc /\ d.cause \in Causes /\ d.cause \in kernel.mask[Low]
  BY ToLowKeeps
<1>3. u.error = s.error
  <2>1. s \in Processor
    BY DEF Good
  <2> QED BY <2>1 DEF FirstDeferred, ToLow, Processor
<1> HIDE DEF u, d
<1>4. d.proc \in Proc /\ Low \in Priority /\ PriorityOf(d.proc) = Low /\ High # Low
  BY <1>2, TrapsAssumption DEF Priority, PriorityOf
<1>5. d.cause \in u.mask[Low] => Polled(r)
  <2>1. SUFFICES ASSUME d.cause \in u.mask[Low] PROVE Polled(r)
    OBVIOUS
  <2>2. MayRequest(u, d.cause, Low, d.proc) /\ ~Deferred(u, d.cause, Low)
    BY <1>2, <1>4 DEF MayRequest, Deferred
  <2>3. HandlersActive(r)
    BY <1>2, <1>4, <2>1, <2>2, RequestEnters
  <2>4. Good(kernel, r)
    BY <1>2, <1>4, <2>2, RequestKeeps
  <2> HIDE DEF r
  <2> QED BY <2>3, <2>4, ActivePolled
<1>6. d.cause \notin u.mask[Low] => Polled(dispatchProcess(t))
  <2>1. SUFFICES ASSUME d.cause \notin u.mask[Low] PROVE Polled(dispatchProcess(t))
    OBVIOUS
  <2>2. Good(kernel, t) /\ t.mask = u.mask /\ t.error = u.error /\ t.queue[Low] # <<>>
    BY <1>2, <1>4, EnqueueKeeps, EnqueueFills DEF SameHandlers
  <2> HIDE DEF t
  <2>3. t.mask[Low] # kernel.mask[Low]
    BY <1>2, <2>1, <2>2
  <2> QED BY <1>3, <1>4, <2>2, <2>3, DispatchReady
<1> QED BY <1>1, <1>5, <1>6

\* The processor has nothing left to do when a poll leaves nothing running.
LEMMA PollIsPolled ==
  ASSUME NEW s, Good(kernel, s)
  PROVE  Polled(pollTimers(s))
<1> DEFINE t == releaseTimers(s)
<1>1. /\ Good(kernel, t) /\ SameHandlers(s, t)
      /\ t.pendingTimer = NoProc => t.late[High] = <<>> /\ t.late[Low] = <<>>
  BY ReleaseKeeps
<1>2. CASE s.error # "none"
  BY <1>2 DEF pollTimers, Polled
<1>3. CASE s.error = "none"
  <2>1. t.error = "none"
    <3> HIDE DEF t
    <3> QED BY <1>1, <1>3 DEF SameHandlers
  <2>2. CASE HandlersActive(t)
    BY <1>1, <1>3, <2>2, ActivePolled DEF pollTimers
  <2>3. CASE ~HandlersActive(t) /\ t.pendingLow # <<>> /\ LowMayTrap(t)
    <3>1. pollTimers(s) = TakeDeferred(t)
      BY <1>3, <2>3 DEF pollTimers
    <3> HIDE DEF t
    <3> QED BY <1>1, <2>1, <2>3, <3>1, TakeDeferredPolled
  <2>4. CASE ~HandlersActive(t) /\ ~(t.pendingLow # <<>> /\ LowMayTrap(t))
             /\ t.pendingTimer # NoProc
    <3>1. pollTimers(s) = TakeTimer(t)
      BY <1>3, <2>4 DEF pollTimers
    <3> HIDE DEF t
    <3> QED BY <1>1, <2>1, <2>4, <3>1, TakeTimerPolled
  <2>5. CASE ~HandlersActive(t) /\ ~(t.pendingLow # <<>> /\ LowMayTrap(t))
             /\ t.pendingTimer = NoProc
    <3> DEFINE u == dispatchProcess(t)
    <3>1. pollTimers(s) = u
      BY <1>3, <2>5 DEF pollTimers
    <3> HIDE DEF t
    <3>2. Dispatched(t, u)
      BY <1>1, <2>5, DispatchIs
    <3> HIDE DEF u
    <3>3. t.cpu.prio \in {High, Low}
      BY <1>1, <2>5, NoHandlers
    <3>4. CASE ~u.cpu.running
      <4>1. u = t /\ Settled(t) /\ ~t.cpu.running
        BY <3>2, <3>4 DEF Dispatched
      <4>2. t.queue[High] = <<>> /\ t.queue[Low] = <<>> /\ ~t.shadowValid
            /\ ~OwnQueueEmpty(t) /\ ~BothQueuesEmpty(t)
        BY <4>1 DEF Settled
      <4>3. t.pendingLow = <<>>
        BY <2>5, <4>1, <4>2 DEF LowMayTrap
      <4>4. t.queue[t.cpu.prio] = <<>>
        BY <3>3, <4>2
      <4>5. ~MayReport(t, t.cpu.prio)
        BY <4>1, <4>2, <4>4 DEF OwnQueueEmpty
      <4>6. ~MayReport(t, Low)
        BY <3>3, <4>1, <4>2, <4>5 DEF BothQueuesEmpty
      <4> QED BY <1>1, <2>5, <3>1, <4>1, <4>2, <4>3, <4>5, <4>6 DEF Polled
    <3>5. CASE u.cpu.running /\ HandlersActive(u)
      BY <3>1, <3>2, <3>5, ActivePolled DEF Dispatched
    <3>6. CASE u.cpu.running /\ ~HandlersActive(u)
      <4>1. u.frames = <<>>
        BY <3>6 DEF HandlersActive, trapHandlerActive
      <4>2. ~LowMayTrap(t) => t.cpu.prio = High /\ (t.cpu.running \/ t.queue[High] # <<>>)
        BY <3>3 DEF LowMayTrap
      <4> QED BY <2>5, <3>1, <3>2, <3>6, <4>1, <4>2, TrapsAssumption DEF Dispatched, Polled
    <3> QED BY <3>4, <3>5, <3>6
  <2> QED BY <2>2, <2>3, <2>4, <2>5
<1>4. s.error = "none" \/ s.error # "none"
  OBVIOUS
<1> QED BY <1>2, <1>3

\* A poll that the fast path skips would have changed nothing, but for taking what is left of
\* the deferred traps.
LEMMA QuietPoll ==
  ASSUME NEW s, Good(kernel, s), Polled(s), s.error = "none", schedulerQuiet(s),
         pollTimers(s) # s
  PROVE  /\ s.pendingLow # <<>> /\ s.mask[Low] # kernel.mask[Low]
         /\ s.cpu.running /\ s.cpu.prio = Low /\ ~HandlersActive(s)
<1>1. /\ s.cpu.running /\ s.pendingTimer = NoProc /\ ~Preemptable(s)
      /\ s.late[High] = <<>> /\ s.late[Low] = <<>>
  BY DEF schedulerQuiet, Priority
<1>2. releaseTimers(s) = s
  BY <1>1 DEF releaseTimers, ReleaseDue
<1>3. ~HandlersActive(s)
  BY <1>2 DEF pollTimers
<1>4. s.cpu.prio \in {High, Low}
  BY <1>3, NoHandlers
<1>5. s.pendingLow # <<>> /\ LowMayTrap(s)
  <2>1. SUFFICES ASSUME ~(s.pendingLow # <<>> /\ LowMayTrap(s)) PROVE FALSE
    OBVIOUS
  <2>2. pollTimers(s) = dispatchProcess(s)
    BY <1>1, <1>2, <1>3, <2>1 DEF pollTimers
  <2>3. dispatchProcess(s) = s
    BY <1>1, <1>3, <1>4 DEF dispatchProcess, OwnQueueEmpty, BothQueuesEmpty, Preemptable
  <2> QED BY <2>2, <2>3
<1>6. s.cpu.prio = Low
  BY <1>1, <1>5 DEF LowMayTrap
<1>7. s.mask[Low] # kernel.mask[Low]
  BY <1>1, <1>3, <1>5, <1>6 DEF Polled, LowMayTrap
<1> QED BY <1>1, <1>3, <1>5, <1>6, <1>7

\* The processor is as a poll leaves it, from the start and after every step.
LEMMA AlwaysPolled == Spec => [](Inv /\ Polled(m))
<1>1. Init => Inv /\ Polled(m)
  <2>1. Init => m.cpu.running /\ m.pendingLow = <<>>
    BY DEF Init, Running
  <2> QED BY <2>1, InitGood DEF Polled
<1>2. Inv /\ Polled(m) /\ [Next]_vars => (Inv /\ Polled(m))'
  <2> SUFFICES ASSUME Inv, Polled(m), [Next]_vars PROVE (Inv /\ Polled(m))'
    OBVIOUS
  <2>1. Inv'
    BY NextGood
  <2>2. CASE UNCHANGED vars
    BY <2>1, <2>2 DEF vars, Polled, MayReport, HandlersActive, trapHandlerActive,
       interruptHandlerActive
  <2>3. CASE Next
    <3>1. kernel' = kernel /\ Polls
      BY <2>3, NextPolls DEF Inv
    <3>2. PICK s : Good(kernel, s) /\ m' = pollTimers(s)
      BY <3>1 DEF Polls
    <3>3. Polled(pollTimers(s))
      BY <3>2, PollIsPolled
    <3>4. Polled(m)'
      <4> DEFINE t == pollTimers(s)
      <4>1. m' = t /\ Polled(t)
        BY <3>2, <3>3
      <4> HIDE DEF t
      <4> QED BY <3>1, <4>1 DEF Polled, MayReport, HandlersActive, trapHandlerActive,
         interruptHandlerActive
    <3> QED BY <2>1, <3>4
  <2> QED BY <2>2, <2>3
<1> QED BY <1>1, <1>2, PTL DEF Spec

\* pollTimers leaves nothing undone, and a poll that the fast path skips (schedulerQuiet)
\* would have changed nothing, with the one exception of st20.cpp:2471: it could have taken
\* what is left of several deferred traps, of which the first had been disabled.
THEOREM NothingIsLeftUndone == Spec => []NothingLeftUndone
<1>1. Inv /\ Polled(m) => NothingLeftUndone
  BY QuietPoll DEF Inv, Polled, NothingLeftUndone, RestDeferred
<1> QED BY <1>1, AlwaysPolled, PTL
-----------------------------------------------------------------------------
(***************************************************************************)
(* No process is lost or runs twice, for every set up of the traps: the    *)
(* places of a process are counted by kind, in the lists, in the two       *)
(* banks, and held by the handlers.  Each operation is shown to keep the   *)
(* sum of every process, or to raise that of the one process that it was   *)
(* given (Conserves, Adds); an instruction takes its process from a place, *)
(* hands it over, and ends with a poll.                                    *)
(***************************************************************************)

\* How many elements of a sequence are in a set.
Number(s, M) == Cardinality({i \in 1 .. Len(s) : s[i] \in M})

\* A set of positions gains the next one, or does not.
LEMMA CountNext ==
  ASSUME NEW n \in Nat, NEW A \in SUBSET (1 .. n), NEW B, NEW c \in BOOLEAN,
         B = A \union (IF c THEN {n + 1} ELSE {})
  PROVE  /\ Cardinality(A) \in Nat /\ Cardinality(B) \in Nat
         /\ Cardinality(B) = Cardinality(A) + One(c)
<1>1. IsFiniteSet(A) /\ n + 1 \notin A
  <2>1. IsFiniteSet(1 .. n)
    BY FS_Interval
  <2>2. n + 1 \notin 1 .. n
    OBVIOUS
  <2> QED BY <2>1, <2>2, FS_Subset
<1>2. Cardinality(A) \in Nat
  BY <1>1, FS_CardinalityType
<1>3. CASE c
  <2>1. B = A \union {n + 1}
    BY <1>3
  <2> HIDE DEF One
  <2>2. Cardinality(B) = Cardinality(A) + 1
    BY <1>1, <2>1, FS_AddElement
  <2> QED BY <1>2, <1>3, <2>2 DEF One
<1>4. CASE ~c
  <2>1. B = A
    BY <1>4
  <2> QED BY <1>2, <1>4, <2>1 DEF One
<1> QED BY <1>3, <1>4

\* Positions that are moved on are as many.
LEMMA CountShifted ==
  ASSUME NEW n \in Nat, NEW k \in Nat, NEW A \in SUBSET (1 .. n)
  PROVE  LET B == {i + k : i \in A}
         IN  IsFiniteSet(A) /\ IsFiniteSet(B) /\ Cardinality(B) = Cardinality(A)
<1> DEFINE B == {i + k : i \in A}
           f == [i \in A |-> i + k]
<1>1. IsFiniteSet(A)
  <2>1. IsFiniteSet(1 .. n)
    BY FS_Interval
  <2> QED BY <2>1, FS_Subset
<1>2. f \in [A -> B]
  OBVIOUS
<1>3. \A a, b \in A : f[a] = f[b] => a = b
  OBVIOUS
<1>4. \A b \in B : \E a \in A : f[a] = b
  OBVIOUS
<1>5. f \in Bijection(A, B)
  BY <1>2, <1>3, <1>4 DEF Bijection, Injection, Surjection, IsInjective
<1>6. ExistsBijection(A, B)
  BY <1>5 DEF ExistsBijection
<1> QED BY <1>1, <1>6, FS_Bijection

\* Counting in an empty sequence, in one that is longer at the end, and in two.
LEMMA NumberType ==
  ASSUME NEW S, NEW s \in Seq(S), NEW M
  PROVE  Number(s, M) \in Nat /\ Number(<<>>, M) = 0
<1>1. IsFiniteSet(1 .. Len(s)) /\ Len(s) \in Nat
  BY LenProperties, FS_Interval
<1>2. Number(s, M) \in Nat
  BY <1>1, FS_Subset, FS_CardinalityType DEF Number
<1>3. {i \in 1 .. Len(<<>>) : <<>>[i] \in M} = {}
  BY EmptySeq
<1>4. Number(<<>>, M) = 0
  BY <1>3, FS_EmptySet DEF Number
<1> QED BY <1>2, <1>4

\* One more element at the end counts if it is in the set.
LEMMA NumberAppend ==
  ASSUME NEW S, NEW s \in Seq(S), NEW e \in S, NEW M
  PROVE  Number(Append(s, e), M) = Number(s, M) + One(e \in M)
<1> DEFINE n == Len(s)
           t == Append(s, e)
           A == {i \in 1 .. n : s[i] \in M}
           B == {i \in 1 .. Len(t) : t[i] \in M}
<1>1. n \in Nat /\ Len(t) = n + 1 /\ (\A i \in 1 .. n : t[i] = s[i]) /\ t[n + 1] = e
  BY AppendProperties, LenProperties
<1> HIDE DEF t, n
<1>2. A \in SUBSET (1 .. n) /\ (e \in M) \in BOOLEAN
  OBVIOUS
<1>3. B = A \union (IF e \in M THEN {n + 1} ELSE {})
  <2>1. 1 .. Len(t) = (1 .. n) \union {n + 1}
    BY <1>1
  <2>2. \A i \in 1 .. n : i # n + 1
    BY <1>1
  <2> QED BY <1>1, <2>1, <2>2
<1>4. Cardinality(B) = Cardinality(A) + One(e \in M)
  <2> HIDE DEF A, B
  <2> QED BY <1>1, <1>2, <1>3, CountNext
<1> QED BY <1>4 DEF Number, n, t

\* Two sequences, one after the other, count as the sum.
LEMMA NumberConcat ==
  ASSUME NEW S, NEW s \in Seq(S), NEW t \in Seq(S), NEW M
  PROVE  Number(s \o t, M) = Number(s, M) + Number(t, M)
<1> DEFINE n == Len(s)
           k == Len(t)
           u == s \o t
           A == {i \in 1 .. n : s[i] \in M}
           B == {i \in 1 .. k : t[i] \in M}
           C == {i + n : i \in B}
           D == {i \in 1 .. Len(u) : u[i] \in M}
<1>1. /\ n \in Nat /\ k \in Nat /\ Len(u) = n + k
      /\ \A i \in 1 .. n + k : u[i] = IF i <= n THEN s[i] ELSE t[i - n]
  BY ConcatProperties, LenProperties
<1> HIDE DEF u, n, k
<1>2. D = A \union C
  <2>1. ASSUME NEW i \in D PROVE i \in A \union C
    <3>1. i \in 1 .. n + k /\ u[i] \in M
      BY <1>1
    <3>2. CASE i <= n
      BY <1>1, <3>1, <3>2
    <3>3. CASE ~(i <= n)
      <4>1. i - n \in 1 .. k /\ i = (i - n) + n /\ u[i] = t[i - n]
        BY <1>1, <3>1, <3>3
      <4> QED BY <3>1, <4>1
    <3> QED BY <3>2, <3>3
  <2>2. ASSUME NEW i \in A PROVE i \in D
    <3>1. i \in 1 .. n + k /\ i <= n /\ s[i] \in M
      BY <1>1
    <3> QED BY <1>1, <3>1
  <2>3. ASSUME NEW i \in C PROVE i \in D
    <3>1. PICK j \in B : i = j + n
      OBVIOUS
    <3>2. i \in 1 .. n + k /\ ~(i <= n) /\ i - n = j /\ t[j] \in M
      BY <1>1, <3>1
    <3> QED BY <1>1, <3>2
  <2> QED BY <2>1, <2>2, <2>3
<1>3. A \intersect C = {}
  BY <1>1
<1>4. IsFiniteSet(A) /\ IsFiniteSet(B) /\ IsFiniteSet(C) /\ Cardinality(C) = Cardinality(B)
  <2>1. A \in SUBSET (1 .. n) /\ B \in SUBSET (1 .. k)
    OBVIOUS
  <2> HIDE DEF A, B
  <2> QED BY <1>1, <2>1, CountShifted
<1>5. Cardinality(D) = Cardinality(A) + Cardinality(B)
  <2> HIDE DEF A, B, C, D
  <2>1. Cardinality(A) \in Nat /\ Cardinality(C) \in Nat
    BY <1>4, FS_CardinalityType
  <2>2. Cardinality(A \union C) = Cardinality(A) + Cardinality(C) - Cardinality({})
    BY <1>3, <1>4, FS_Union
  <2> QED BY <1>2, <1>4, <2>1, <2>2, FS_EmptySet
<1> QED BY <1>5 DEF Number, n, k, u

\* The first element, and the rest.
LEMMA NumberOfOne ==
  ASSUME NEW S, NEW e \in S, NEW M
  PROVE  <<e>> \in Seq(S) /\ Number(<<e>>, M) = One(e \in M)
<1>1. <<>> \in Seq(S) /\ Number(<<>>, M) = 0
  BY EmptySeq, NumberType
<1>2. Append(<<>>, e) = <<e>>
  OBVIOUS
<1>3. Number(Append(<<>>, e), M) = 0 + One(e \in M)
  BY <1>1, NumberAppend
<1> QED BY <1>2, <1>3 DEF One

\* The first element counts apart from the rest.
LEMMA NumberTail ==
  ASSUME NEW S, NEW s \in Seq(S), s # <<>>, NEW M
  PROVE  /\ Head(s) \in S /\ Tail(s) \in Seq(S)
         /\ Number(s, M) = One(Head(s) \in M) + Number(Tail(s), M)
<1>1. Head(s) \in S /\ Tail(s) \in Seq(S)
  BY HeadTailProperties
<1>2. s = <<Head(s)>> \o Tail(s)
  <2>1. Len(s) \in Nat /\ Len(s) > 0
    BY EmptySeq, LenProperties
  <2>2. 1 \in 1 .. Len(s) /\ Len(s) \in 1 .. Len(s)
    BY <2>1
  <2>3. SubSeq(s, 1, Len(s)) = <<s[1]>> \o SubSeq(s, 1 + 1, Len(s))
    BY <2>2, SubSeqRecursiveFirst
  <2>4. SubSeq(s, 1, Len(s)) = s /\ Tail(s) = SubSeq(s, 2, Len(s))
    BY SubSeqFull, TailIsSubSeq
  <2>5. Head(s) = s[1] /\ 1 + 1 = 2
    <3>1. Head(SubSeq(s, 1, Len(s))) = s[1]
      BY <2>2, HeadTailOfSubSeq
    <3> QED BY <2>4, <3>1
  <2> QED BY <2>3, <2>4, <2>5
<1>3. Number(<<Head(s)>> \o Tail(s), M) = Number(<<Head(s)>>, M) + Number(Tail(s), M)
  <2>1. <<Head(s)>> \in Seq(S)
    BY <1>1, NumberOfOne
  <2> QED BY <1>1, <2>1, NumberConcat
<1>4. Number(<<Head(s)>>, M) = One(Head(s) \in M)
  BY <1>1, NumberOfOne
<1> QED BY <1>1, <1>2, <1>3, <1>4

\* The last element, and what comes before it.
LEMMA NumberFront ==
  ASSUME NEW S, NEW s \in Seq(S), s # <<>>, NEW M
  PROVE  Number(s, M) = Number(Front(s), M) + One(Last(s) \in M)
<1>1. /\ Len(s) \in Nat /\ Len(s) > 0 /\ Last(s) = s[Len(s)] /\ Last(s) \in S
      /\ Front(s) \in Seq(S) /\ Len(Front(s)) = Len(s) - 1
      /\ \A i \in 1 .. (Len(s) - 1) : Front(s)[i] = s[i]
  BY FrontAndLast
<1> DEFINE f == Front(s)
           e == Last(s)
           a == Append(f, e)
<1>2. f \in Seq(S) /\ e \in S
  BY <1>1
<1> HIDE DEF f, e
<1>3. a \in Seq(S) /\ Len(a) = Len(f) + 1 /\ (\A i \in 1 .. Len(f) : a[i] = f[i])
      /\ a[Len(f) + 1] = e
  BY <1>2, AppendProperties
<1> HIDE DEF a
<1>4. Len(a) = Len(s) /\ \A i \in 1 .. Len(a) : a[i] = s[i]
  BY <1>1, <1>3 DEF f, e
<1>5. a = s
  BY <1>3, <1>4, SeqEqual
<1>6. Number(a, M) = Number(f, M) + One(e \in M)
  BY <1>2, NumberAppend DEF a
<1> QED BY <1>5, <1>6 DEF f, e

\* Sets that agree on the elements of a sequence count the same.
LEMMA NumberSame ==
  ASSUME NEW S, NEW s \in Seq(S), NEW M, NEW N,
         \A i \in 1 .. Len(s) : (s[i] \in M) = (s[i] \in N)
  PROVE  Number(s, M) = Number(s, N)
<1>1. {i \in 1 .. Len(s) : s[i] \in M} = {i \in 1 .. Len(s) : s[i] \in N}
  OBVIOUS
<1> QED BY <1>1 DEF Number

-----------------------------------------------------------------------------
\* The places of a process, by kind.
Deferrals(q) == {d \in [cause : {"RUN", "SIGNAL"}, proc : LowProc] : d.proc = q}
FramesOf(s, q) == {f \in Frame : InFrame(s, q, f)}
IrqsOf(q) == {f \in Irq : InIrq(q, f)}

InBanks(s, q) ==
  One(s.cpu.running /\ s.cpu.wptr = q) + One(s.shadowValid /\ s.shadow.wptr = q)
InReady(s, q) == Number(s.queue[PriorityOf(q)], {q})
InLate(s, q) == Number(s.late[PriorityOf(q)], {q})
InWaiters(s, q) == Number(s.waiters, {q})
InDeferred(s, q) == Number(s.pendingLow, Deferrals(q))
InFrames(s, q) == Number(s.frames, FramesOf(s, q))
InIrqs(s, q) == Number(s.irqs, IrqsOf(q))
InWords(s, q) == One(InWord(s, q, High)) + One(InWord(s, q, Low))
Outside(s, q) ==
  One(q \in s.asleep) + One(q \in s.channel) + One(q \in s.tasks) + One(q \in s.stopped)

\* Their sum, and that all of them are numbers.
Counted(s, q) ==
  /\ Places(s, q) = InBanks(s, q) + InReady(s, q) + InLate(s, q) + InWaiters(s, q)
                    + One(s.pendingTimer = q) + InDeferred(s, q) + InFrames(s, q)
                    + InIrqs(s, q) + InWords(s, q) + Outside(s, q)
  /\ InBanks(s, q) \in Nat /\ InReady(s, q) \in Nat /\ InLate(s, q) \in Nat
  /\ InWaiters(s, q) \in Nat /\ One(s.pendingTimer = q) \in Nat /\ InDeferred(s, q) \in Nat
  /\ InFrames(s, q) \in Nat /\ InIrqs(s, q) \in Nat /\ InWords(s, q) \in Nat
  /\ Outside(s, q) \in Nat

\* How often a process is in a list.
LEMMA TimesIs ==
  ASSUME NEW S, NEW s \in Seq(S), NEW q
  PROVE  Times(q, s) = Number(s, {q}) /\ Number(s, {q}) \in Nat
<1>1. DOMAIN s = 1 .. Len(s)
  BY LenProperties
<1>2. {i \in DOMAIN s : s[i] = q} = {i \in 1 .. Len(s) : s[i] \in {q}}
  BY <1>1
<1>3. Number(s, {q}) \in Nat
  BY NumberType
<1> QED BY <1>2, <1>3 DEF Times, Number

\* How many of the two priorities a set has.
LEMMA PrioritiesIn ==
  ASSUME NEW A \in SUBSET Priority
  PROVE  Cardinality(A) = One(High \in A) + One(Low \in A)
<1>1. High # Low /\ Priority = {High, Low}
  BY TrapsAssumption DEF Priority
<1>2. CASE High \in A /\ Low \in A
  <2>1. A = {High} \union {Low}
    BY <1>1, <1>2
  <2>2. IsFiniteSet({High}) /\ Cardinality({High}) = 1 /\ Low \notin {High}
    BY <1>1, FS_Singleton
  <2>3. Cardinality({High} \union {Low}) = 1 + 1
    BY <2>2, FS_AddElement
  <2> QED BY <1>2, <2>1, <2>3 DEF One
<1>3. CASE High \in A /\ Low \notin A
  <2>1. A = {High}
    BY <1>1, <1>3
  <2> QED BY <1>3, <2>1, FS_Singleton DEF One
<1>4. CASE High \notin A /\ Low \in A
  <2>1. A = {Low}
    BY <1>1, <1>4
  <2> QED BY <1>4, <2>1, FS_Singleton DEF One
<1>5. CASE High \notin A /\ Low \notin A
  <2>1. A = {}
    BY <1>1, <1>5
  <2> QED BY <1>5, <2>1, FS_EmptySet DEF One
<1> QED BY <1>2, <1>3, <1>4, <1>5

\* Places counts a process in each kind of place.
LEMMA PlacesAre ==
  ASSUME NEW s \in Processor, NEW q \in Proc
  PROVE  Counted(s, q)
<1> DEFINE p == PriorityOf(q)
<1>1. p \in Priority
  BY DEF PriorityOf, Priority
<1>2. /\ s.queue[p] \in Seq(Proc) /\ s.late[p] \in Seq(Proc) /\ s.waiters \in Seq(Proc)
      /\ s.pendingLow \in Seq([cause : {"RUN", "SIGNAL"}, proc : LowProc])
      /\ s.frames \in Seq(Frame) /\ s.irqs \in Seq(Irq)
  BY <1>1 DEF Processor
<1>3. Times(q, s.queue[p]) = InReady(s, q) /\ InReady(s, q) \in Nat
  BY <1>2, TimesIs DEF InReady
<1>4. Times(q, s.late[p]) = InLate(s, q) /\ InLate(s, q) \in Nat
  BY <1>2, TimesIs DEF InLate
<1>5. Times(q, s.waiters) = InWaiters(s, q) /\ InWaiters(s, q) \in Nat
  BY <1>2, TimesIs DEF InWaiters
<1>6. Cardinality({i \in DOMAIN s.pendingLow : s.pendingLow[i].proc = q}) = InDeferred(s, q)
      /\ InDeferred(s, q) \in Nat
  <2> DEFINE d == s.pendingLow
  <2>1. DOMAIN d = 1 .. Len(d) /\ \A i \in 1 .. Len(d) : d[i] \in [cause : {"RUN", "SIGNAL"}, proc : LowProc]
    BY <1>2, LenProperties, ElementOfSeq
  <2>2. {i \in DOMAIN d : d[i].proc = q} = {i \in 1 .. Len(d) : d[i] \in Deferrals(q)}
    BY <2>1 DEF Deferrals
  <2>3. Number(s.pendingLow, Deferrals(q)) \in Nat
    BY <1>2, NumberType
  <2> QED BY <2>2, <2>3 DEF InDeferred, Number
<1>7. Cardinality({i \in DOMAIN s.frames : InFrame(s, q, s.frames[i])}) = InFrames(s, q)
      /\ InFrames(s, q) \in Nat
  <2>1. {i \in DOMAIN s.frames : InFrame(s, q, s.frames[i])}
          = {i \in 1 .. Len(s.frames) : s.frames[i] \in FramesOf(s, q)}
    BY FrameTypes DEF FramesOf
  <2>3. Number(s.frames, FramesOf(s, q)) \in Nat
    BY <1>2, NumberType
  <2> QED BY <2>1, <2>3 DEF InFrames, Number
<1>8. Cardinality({i \in DOMAIN s.irqs : InIrq(q, s.irqs[i])}) = InIrqs(s, q)
      /\ InIrqs(s, q) \in Nat
  <2>1. {i \in DOMAIN s.irqs : InIrq(q, s.irqs[i])}
          = {i \in 1 .. Len(s.irqs) : s.irqs[i] \in IrqsOf(q)}
    BY FrameTypes DEF IrqsOf
  <2>3. Number(s.irqs, IrqsOf(q)) \in Nat
    BY <1>2, NumberType
  <2> QED BY <2>1, <2>3 DEF InIrqs, Number
<1>9. Cardinality({x \in Priority : InWord(s, q, x)}) = InWords(s, q)
  <2> DEFINE A == {x \in Priority : InWord(s, q, x)}
  <2>1. A \in SUBSET Priority
    OBVIOUS
  <2>2. Cardinality(A) = One(High \in A) + One(Low \in A)
    <3> HIDE DEF A
    <3> QED BY <2>1, PrioritiesIn
  <2>3. (High \in A <=> InWord(s, q, High)) /\ (Low \in A <=> InWord(s, q, Low))
    BY DEF Priority
  <2> QED BY <2>2, <2>3 DEF InWords, One
<1>10. InBanks(s, q) \in Nat /\ One(s.pendingTimer = q) \in Nat /\ InWords(s, q) \in Nat
       /\ Outside(s, q) \in Nat
  BY DEF InBanks, InWords, Outside, One
<1>11. Places(s, q) =
         One(s.cpu.running /\ s.cpu.wptr = q) + One(s.shadowValid /\ s.shadow.wptr = q)
         + InReady(s, q) + InLate(s, q) + InWaiters(s, q)
         + One(s.pendingTimer = q) + InDeferred(s, q) + InFrames(s, q)
         + InIrqs(s, q) + InWords(s, q)
         + One(q \in s.asleep) + One(q \in s.channel) + One(q \in s.tasks) + One(q \in s.stopped)
  BY <1>3, <1>4, <1>5, <1>6, <1>7, <1>8, <1>9 DEF Places
<1>12. Places(s, q) = InBanks(s, q) + InReady(s, q) + InLate(s, q) + InWaiters(s, q)
                    + One(s.pendingTimer = q) + InDeferred(s, q) + InFrames(s, q)
                    + InIrqs(s, q) + InWords(s, q) + Outside(s, q)
  <2> DEFINE o1 == One(q \in s.asleep)
             o2 == One(q \in s.channel)
             o3 == One(q \in s.tasks)
             o4 == One(q \in s.stopped)
  <2>1. o1 \in Nat /\ o2 \in Nat /\ o3 \in Nat /\ o4 \in Nat /\ Outside(s, q) = o1 + o2 + o3 + o4
    BY DEF One, Outside
  <2> HIDE DEF o1, o2, o3, o4
  <2> QED BY <1>3, <1>4, <1>5, <1>6, <1>7, <1>8, <1>10, <1>11, <2>1 DEF InBanks, o1, o2, o3, o4
<1> QED BY <1>3, <1>4, <1>5, <1>6, <1>7, <1>8, <1>10, <1>12 DEF Counted

-----------------------------------------------------------------------------
\* The sum, and what an operation that goes on does with it: process x is in one
\* place more, and every other in as many as before.
Total(s, q) ==
  InBanks(s, q) + InReady(s, q) + InLate(s, q) + InWaiters(s, q) + One(s.pendingTimer = q)
  + InDeferred(s, q) + InFrames(s, q) + InIrqs(s, q) + InWords(s, q) + Outside(s, q)

\* As long as no trap goes wrong, t has x in one place more than s.
Adds(s, t, x) ==
  t.error = "none" =>
    /\ s.error = "none"
    /\ \A q \in Proc : /\ Places(s, q) \in Nat /\ Places(t, q) \in Nat
                       /\ Places(t, q) = Places(s, q) + One(q = x)

\* As long as no trap goes wrong, t has every process in as many places as s.
Conserves(s, t) == Adds(s, t, NoProc)

\* A change of the sums is a change of the places.
LEMMA TotalAdds ==
  ASSUME NEW s \in Processor, NEW t \in Processor, NEW x,
         t.error = "none" =>
           s.error = "none" /\ \A q \in Proc : Total(t, q) = Total(s, q) + One(q = x)
  PROVE  Adds(s, t, x)
<1>1. ASSUME NEW q \in Proc, NEW u \in Processor
      PROVE  Places(u, q) = Total(u, q) /\ Places(u, q) \in Nat
  <2>1. Counted(u, q)
    BY PlacesAre
  <2>2. Places(u, q) = Total(u, q)
    BY <2>1 DEF Counted, Total
  <2>3. Total(u, q) \in Nat
    BY <2>1 DEF Counted, Total
  <2> QED BY <2>2, <2>3
<1> QED BY <1>1 DEF Adds

\* One operation after another.
LEMMA AddsThen ==
  ASSUME NEW s, NEW t, NEW u, NEW x, Adds(s, t, x), Conserves(t, u)
  PROVE  Adds(s, u, x)
<1>1. SUFFICES ASSUME u.error = "none", NEW q \in Proc
      PROVE  /\ s.error = "none" /\ Places(s, q) \in Nat /\ Places(u, q) \in Nat
             /\ Places(u, q) = Places(s, q) + One(q = x)
  BY TrapsAssumption DEF Adds
<1>2. Places(u, q) = Places(t, q) + One(q = NoProc) /\ t.error = "none" /\ Places(u, q) \in Nat
      /\ Places(t, q) \in Nat
  BY <1>1 DEF Conserves, Adds
<1>3. Places(t, q) = Places(s, q) + One(q = x) /\ s.error = "none" /\ Places(s, q) \in Nat
  BY <1>1, <1>2 DEF Adds
<1>4. One(q = NoProc) = 0
  BY TrapsAssumption DEF One
<1> QED BY <1>2, <1>3, <1>4

\* An operation that conserves, and one that adds.
LEMMA ThenAdds ==
  ASSUME NEW s, NEW t, NEW u, NEW x, Conserves(s, t), Adds(t, u, x)
  PROVE  Adds(s, u, x)
<1>1. SUFFICES ASSUME u.error = "none", NEW q \in Proc
      PROVE  /\ s.error = "none" /\ Places(s, q) \in Nat /\ Places(u, q) \in Nat
             /\ Places(u, q) = Places(s, q) + One(q = x)
  BY TrapsAssumption DEF Adds
<1>2. Places(u, q) = Places(t, q) + One(q = x) /\ t.error = "none" /\ Places(u, q) \in Nat
      /\ Places(t, q) \in Nat
  BY <1>1 DEF Adds
<1>3. Places(t, q) = Places(s, q) + One(q = NoProc) /\ s.error = "none" /\ Places(s, q) \in Nat
  BY <1>1, <1>2 DEF Conserves, Adds
<1>4. One(q = NoProc) = 0
  BY TrapsAssumption DEF One
<1> QED BY <1>2, <1>3, <1>4

\* A process is taken from one place and then put into another.
LEMMA AddsBack ==
  ASSUME NEW s, NEW t, NEW u, NEW x, Adds(s, t, x), Adds(s, u, x), u.error = "none" => t.error = "none"
  PROVE  Conserves(t, u)
<1>1. SUFFICES ASSUME u.error = "none", NEW q \in Proc
      PROVE  /\ t.error = "none" /\ Places(t, q) \in Nat /\ Places(u, q) \in Nat
             /\ Places(u, q) = Places(t, q) + One(q = NoProc)
  BY DEF Adds, Conserves
<1>2. Places(u, q) = Places(s, q) + One(q = x) /\ Places(u, q) \in Nat /\ Places(s, q) \in Nat
  BY <1>1 DEF Adds
<1>3. Places(t, q) = Places(s, q) + One(q = x) /\ Places(t, q) \in Nat
  BY <1>1 DEF Adds
<1>4. One(q = NoProc) = 0
  BY TrapsAssumption DEF One
<1> QED BY <1>1, <1>2, <1>3, <1>4

\* What the handlers and the banks hold when nothing about them changes.
LEMMA SameHandlersHold ==
  ASSUME NEW s, NEW t, SameHandlers(s, t), NEW q
  PROVE  /\ InDeferred(t, q) = InDeferred(s, q) /\ InFrames(t, q) = InFrames(s, q)
         /\ InIrqs(t, q) = InIrqs(s, q) /\ InWords(t, q) = InWords(s, q)
<1>1. FramesOf(t, q) = FramesOf(s, q)
  BY DEF SameHandlers, FramesOf, InFrame, Resumes
<1>2. \A p : InWord(t, q, p) = InWord(s, q, p)
  BY DEF SameHandlers, InWord
<1> QED BY <1>1, <1>2 DEF SameHandlers, InDeferred, InFrames, InIrqs, InWords

\* Equal banks hold the same.
LEMMA SameBanksHold ==
  ASSUME NEW s, NEW t, SameBanks(s, t), NEW q
  PROVE  InBanks(t, q) = InBanks(s, q)
  BY DEF SameBanks, InBanks

\* A process joins its ready queue.
LEMMA EnqueueAdds ==
  ASSUME NEW s, Good(kernel, s), NEW x \in Proc
  PROVE  Adds(s, enqueueProcess(s, x), x)
<1> DEFINE p == PriorityOf(x)
           t == enqueueProcess(s, x)
           a == Append(s.queue[p], x)
<1>1. s \in Processor /\ p \in Priority /\ s.queue[p] \in Seq(Proc)
      /\ s.queue \in [Priority -> Seq(Proc)]
  BY LowIsLow DEF Good, Processor
<1>2. /\ Good(kernel, t) /\ SameHandlers(s, t) /\ SameBanks(s, t)
  BY EnqueueKeeps
<1>3. /\ t.queue = [s.queue EXCEPT ![p] = a] /\ t.late = s.late /\ t.waiters = s.waiters
      /\ t.pendingTimer = s.pendingTimer /\ t.asleep = s.asleep /\ t.channel = s.channel
      /\ t.tasks = s.tasks /\ t.stopped = s.stopped
  BY <1>1 DEF enqueueProcess, Processor
<1> HIDE DEF t
<1>4. t \in Processor /\ t.error = s.error
  BY <1>2 DEF Good, SameHandlers
<1>5. ASSUME NEW q \in Proc PROVE Total(t, q) = Total(s, q) + One(q = x)
  <2>1. InReady(t, q) = InReady(s, q) + One(q = x)
    <3>1. Number(a, {q}) = Number(s.queue[p], {q}) + One(x \in {q})
      BY <1>1, NumberAppend
    <3>2. Number(s.queue[PriorityOf(q)], {q}) \in Nat
      <4>1. Counted(s, q)
        BY <1>1, PlacesAre
      <4> QED BY <4>1 DEF Counted, InReady
    <3>3. CASE PriorityOf(q) = p
      BY <1>1, <1>3, <3>1, <3>3 DEF InReady, One
    <3>4. CASE PriorityOf(q) # p
      <4>1. q # x
        BY <3>4
      <4>2. t.queue[PriorityOf(q)] = s.queue[PriorityOf(q)]
        BY <1>1, <1>3, <3>4, LowIsLow
      <4> QED BY <3>2, <4>1, <4>2 DEF InReady, One
    <3> QED BY <3>3, <3>4
  <2>2. /\ InBanks(t, q) = InBanks(s, q) /\ InDeferred(t, q) = InDeferred(s, q)
        /\ InFrames(t, q) = InFrames(s, q) /\ InIrqs(t, q) = InIrqs(s, q)
        /\ InWords(t, q) = InWords(s, q)
    BY <1>2, SameHandlersHold, SameBanksHold
  <2>3. /\ InLate(t, q) = InLate(s, q) /\ InWaiters(t, q) = InWaiters(s, q)
        /\ Outside(t, q) = Outside(s, q) /\ t.pendingTimer = s.pendingTimer
    BY <1>3 DEF InLate, InWaiters, Outside
  <2>4. Counted(s, q)
    BY <1>1, PlacesAre
  <2>5. One(q = x) \in Nat
    BY DEF One
  <2> QED BY <2>1, <2>2, <2>3, <2>4, <2>5 DEF Total, Counted
<1>6. Adds(s, t, x)
  BY <1>1, <1>4, <1>5, TotalAdds
<1> QED BY <1>6 DEF t

\* A process with a handler is in no bank, and one with no descriptor in no word.
LEMMA NotOfProgram ==
  \A q \in Proc : /\ q # NoProc /\ One(q = NoProc) = 0
                  /\ \A p \in Priority : Handler[p] # q
                  /\ \A l \in Level : Vector[l] # q
  BY TrapsAssumption DEF One

\* What is carried to the handler of a trap: a process that has become ready, but not
\* the one whose preemption of another is told.
Carried(cause, x) == IF cause = "PROCESS" THEN NoProc ELSE x

\* What ran moves to the frame, and what is carried to the handler's workspace.
LEMMA EnterTrapAdds ==
  ASSUME NEW s, Good(kernel, s), NEW cause \in Causes, NEW p \in Priority,
         NEW x \in Proc \union {NoProc}, MayEnter(s, cause, p)
  PROVE  Adds(s, EnterTrap(s, cause, p, x), Carried(cause, x))
<1> DEFINE t == EnterTrap(s, cause, p, x)
           f == TrapFrame(s, cause, p)
           n == Len(s.frames)
           y == Carried(cause, x)
<1>1. s \in Processor /\ Entered(s, cause, p, x, t)
  BY EnterTrapIs DEF Good
<1> HIDE DEF t
<1>2. /\ n \in Nat /\ s.frames \in Seq(Frame) /\ DOMAIN s.frames = 1 .. n
      /\ \A i \in 1 .. n : s.frames[i] \in Frame /\ s.frames[i].prio # p
  BY <1>1, FrameTypes DEF MayEnter, Active
<1>3. /\ t \in Processor /\ f \in Frame /\ t.frames = Append(s.frames, f)
      /\ t.record = [s.record EXCEPT ![p] = TrapRecord(s, p)]
      /\ t.word = [s.word EXCEPT ![p] = TrapWord(s, p, x)]
      /\ Len(t.frames) = n + 1 /\ t.frames[n + 1] = f
      /\ \A i \in 1 .. n : t.frames[i] = s.frames[i]
      /\ t.cpu.wptr = Handler[p] /\ t.cpu.running /\ t.error = s.error
      /\ t.irqs = s.irqs /\ t.shadow = s.shadow /\ t.shadowValid = s.shadowValid
      /\ t.queue = s.queue /\ t.pendingLow = s.pendingLow /\ SamePlaces(s, t)
  BY <1>1 DEF Entered
<1>4. s.record \in [Priority -> [mask : SUBSET Causes, wptr : Workspace, valid : BOOLEAN]]
      /\ s.word \in [Priority -> Proc \union {NoProc}] /\ s.cpu \in Bank
  BY <1>1 DEF Processor
<1>5. s.word[p] = NoProc
  BY DEF Good, Records, MayEnter
<1>6. DOMAIN t.frames = 1 .. (n + 1)
  BY <1>3, FrameTypes
<1>7. ASSUME NEW q \in Proc PROVE Total(t, q) = Total(s, q) + One(q = y)
  <2> DEFINE b == One(s.cpu.running /\ s.cpu.wptr = q)
             a == One(s.shadowValid /\ s.shadow.wptr = q)
  <2>1. a \in Nat /\ b \in Nat /\ One(q = y) \in Nat
    BY DEF One
  <2>2. InBanks(s, q) = b + a /\ InBanks(t, q) = a
    <3>1. One(t.cpu.running /\ t.cpu.wptr = q) = 0
      BY <1>3, NotOfProgram DEF One
    <3> QED BY <1>3, <2>1, <3>1 DEF InBanks
  <2>3. InFrames(t, q) = InFrames(s, q) + b
    <3>1. Number(Append(s.frames, f), FramesOf(t, q))
            = Number(s.frames, FramesOf(t, q)) + One(f \in FramesOf(t, q))
      BY <1>2, <1>3, NumberAppend
    <3>2. Number(s.frames, FramesOf(t, q)) = Number(s.frames, FramesOf(s, q))
      <4>1. ASSUME NEW i \in 1 .. n
            PROVE  (s.frames[i] \in FramesOf(t, q)) = (s.frames[i] \in FramesOf(s, q))
        <5>1. s.frames[i] \in Frame /\ s.frames[i].prio # p /\ s.frames[i].prio \in Priority
          BY <1>2 DEF Frame
        <5>2. t.record[s.frames[i].prio] = s.record[s.frames[i].prio]
          BY <1>3, <1>4, <5>1
        <5> QED BY <5>1, <5>2 DEF FramesOf, InFrame, Resumes
      <4> QED BY <1>2, <4>1, NumberSame
    <3>3. (f \in FramesOf(t, q)) = (s.cpu.running /\ s.cpu.wptr = q)
      <4>1. f.prio = p /\ f.caller = s.cpu
        BY DEF TrapFrame
      <4>2. t.record[p] = TrapRecord(s, p)
        BY <1>3, <1>4
      <4>3. TrapRecord(s, p).wptr = s.cpu.wptr /\ TrapRecord(s, p).valid = (s.cpu.valid /\ s.cpu.running)
        BY DEF TrapRecord
      <4>4. InFrame(t, q, f) <=> (s.cpu.running /\ s.cpu.wptr = q)
        <5> HIDE DEF f
        <5>1. s.cpu.running \in BOOLEAN /\ s.cpu.valid \in BOOLEAN
          BY <1>4 DEF Bank
        <5>2. Resumes(t, p, s.cpu) = s.cpu.running
          BY <4>2, <4>3, <5>1 DEF Resumes
        <5> QED BY <4>1, <4>2, <4>3, <5>1, <5>2 DEF InFrame
      <4>5. f \in FramesOf(t, q) <=> (s.cpu.running /\ s.cpu.wptr = q)
        <5> HIDE DEF f
        <5> QED BY <1>3, <4>4 DEF FramesOf
      <4> QED BY <4>5
    <3> QED BY <1>3, <3>1, <3>2, <3>3 DEF InFrames
  <2>4. InWords(t, q) = InWords(s, q) + One(q = y)
    <3>1. ASSUME NEW r \in Priority, r # p PROVE InWord(t, q, r) = InWord(s, q, r)
      <4>1. t.word[r] = s.word[r]
        BY <1>3, <1>4, <3>1
      <4>2. \A i \in 1 .. (n + 1) : i \in 1 .. n \/ i = n + 1
        BY <1>2
      <4>3. (\A i \in 1 .. (n + 1) : t.frames[i].prio = r => t.frames[i].cause # "PROCESS")
            <=> (\A i \in 1 .. n : s.frames[i].prio = r => s.frames[i].cause # "PROCESS")
        <5>1. f.prio # r
          BY <3>1 DEF TrapFrame
        <5>2. \A i \in 1 .. n : i \in 1 .. (n + 1)
          BY <1>2
        <5> HIDE DEF f, n
        <5> QED BY <1>3, <4>2, <5>1, <5>2
      <4> QED BY <1>2, <1>6, <4>1, <4>3 DEF InWord
    <3>2. ~InWord(s, q, p)
      BY <1>5, NotOfProgram DEF InWord
    <3>3. InWord(t, q, p) = (q = y)
      <4>1. t.word[p] = x
        BY <1>3, <1>4, <1>5 DEF TrapWord
      <4>2. (\A i \in 1 .. (n + 1) : t.frames[i].prio = p => t.frames[i].cause # "PROCESS")
            <=> cause # "PROCESS"
        <5>1. f.prio = p /\ f.cause = cause
          BY DEF TrapFrame
        <5>2. n + 1 \in 1 .. (n + 1) /\ \A i \in 1 .. (n + 1) : i \in 1 .. n \/ i = n + 1
          BY <1>2
        <5>3. \A i \in 1 .. n : t.frames[i].prio # p
          BY <1>2, <1>3
        <5> HIDE DEF f, n
        <5> QED BY <1>3, <5>1, <5>2, <5>3
      <4> QED BY <1>6, <4>1, <4>2, NotOfProgram DEF InWord, Carried
    <3>4. High \in Priority /\ Low \in Priority /\ High # Low /\ (p = High \/ p = Low)
      BY TrapsAssumption DEF Priority
    <3>5. One(FALSE) = 0 /\ One(InWord(s, q, High)) \in Nat /\ One(InWord(s, q, Low)) \in Nat
          /\ One(InWord(s, q, p)) = 0
      BY <3>2 DEF One
    <3> HIDE DEF y
    <3>6. CASE p = High
      BY <2>1, <3>1, <3>2, <3>3, <3>4, <3>5, <3>6 DEF InWords
    <3>7. CASE p = Low
      BY <2>1, <3>1, <3>2, <3>3, <3>4, <3>5, <3>7 DEF InWords
    <3> QED BY <3>4, <3>6, <3>7
  <2>5. /\ InReady(t, q) = InReady(s, q) /\ InLate(t, q) = InLate(s, q)
        /\ InWaiters(t, q) = InWaiters(s, q) /\ Outside(t, q) = Outside(s, q)
        /\ t.pendingTimer = s.pendingTimer /\ InDeferred(t, q) = InDeferred(s, q)
        /\ InIrqs(t, q) = InIrqs(s, q)
    BY <1>3 DEF SamePlaces, InReady, InLate, InWaiters, Outside, InDeferred, InIrqs
  <2>6. Counted(s, q)
    BY <1>1, PlacesAre
  <2> HIDE DEF a, b, y
  <2> QED BY <2>1, <2>2, <2>3, <2>4, <2>5, <2>6 DEF Total, Counted
<1>8. Adds(s, t, y)
  <2> HIDE DEF y
  <2> QED BY <1>1, <1>3, <1>7, TotalAdds
<1> QED BY <1>8 DEF t

\* Outside the banks, the handlers and what is put off.
SameOutside(s, t) ==
  /\ t.queue = s.queue /\ t.late = s.late /\ t.waiters = s.waiters
  /\ t.pendingTimer = s.pendingTimer /\ t.asleep = s.asleep /\ t.channel = s.channel
  /\ t.tasks = s.tasks /\ t.stopped = s.stopped

\* Equal lists hold the same.
LEMMA SameOutsideHold ==
  ASSUME NEW s, NEW t, SameOutside(s, t), NEW q
  PROVE  /\ InReady(t, q) = InReady(s, q) /\ InLate(t, q) = InLate(s, q)
         /\ InWaiters(t, q) = InWaiters(s, q) /\ Outside(t, q) = Outside(s, q)
         /\ t.pendingTimer = s.pendingTimer
  BY DEF SameOutside, InReady, InLate, InWaiters, Outside

\* The banks exchange what they hold.
LEMMA BanksConserve ==
  ASSUME NEW s \in Processor, NEW t \in Processor, SameHandlers(s, t), SameOutside(s, t),
         \A q \in Proc : InBanks(t, q) = InBanks(s, q)
  PROVE  Conserves(s, t)
<1>1. ASSUME NEW q \in Proc PROVE Total(t, q) = Total(s, q) + One(q = NoProc)
  <2>1. Counted(s, q)
    BY PlacesAre
  <2>2. One(q = NoProc) = 0
    BY NotOfProgram
  <2>3. Total(t, q) = Total(s, q)
    BY SameHandlersHold, SameOutsideHold DEF Total
  <2>4. Total(s, q) \in Nat
    BY <2>1 DEF Counted, Total
  <2> QED BY <2>2, <2>3, <2>4
<1> QED BY <1>1, TotalAdds DEF Conserves, SameHandlers

\* A trap that is taken, or put off, carries its process.
LEMMA RequestAdds ==
  ASSUME NEW s, Good(kernel, s), NEW cause \in Causes, NEW p \in Priority,
         NEW x \in Proc \union {NoProc}, MayRequest(s, cause, p, x), cause \in s.mask[p]
  PROVE  Adds(s, requestTrap(s, cause, p, x), Carried(cause, x))
<1> DEFINE t == requestTrap(s, cause, p, x)
           y == Carried(cause, x)
<1>1. s \in Processor /\ Good(kernel, t)
  BY RequestKeeps DEF Good
<1>2. ASSUME t = Reentered(s) PROVE Adds(s, t, y)
  <2>1. t.error = "TRAP_REENTRY"
    BY <1>1, <1>2 DEF Reentered, Processor
  <2> HIDE DEF t
  <2> QED BY <2>1 DEF Adds
<1>3. ASSUME t = PutOff(s, cause, x), Deferred(s, cause, p), x \in LowProc PROVE Adds(s, t, y)
  <2> DEFINE e == [cause |-> cause, proc |-> x]
             a == Append(s.pendingLow, e)
             Entry == [cause : {"RUN", "SIGNAL"}, proc : LowProc]
  <2>1. s.pendingLow \in Seq(Entry) /\ e \in Entry
    BY <1>1, <1>3 DEF Processor, Deferred
  <2>2. t = [s EXCEPT !.pendingLow = a]
    BY <1>1, <1>3 DEF PutOff, Processor
  <2>3. y = x
    BY <1>3 DEF Carried, Deferred
  <2>4. t \in Processor
    BY <1>1 DEF Good
  <2> HIDE DEF t, a
  <2>5. /\ SameBanks(s, t) /\ SameOutside(s, t) /\ t.pendingLow = a /\ t.frames = s.frames
        /\ t.irqs = s.irqs /\ t.record = s.record /\ t.word = s.word /\ t.error = s.error
    BY <1>1, <2>2 DEF Processor, SameBanks, SameOutside
  <2>6. ASSUME NEW q \in Proc PROVE Total(t, q) = Total(s, q) + One(q = y)
    <3>1. InDeferred(t, q) = InDeferred(s, q) + One(q = y)
      <4>1. Number(a, Deferrals(q)) = Number(s.pendingLow, Deferrals(q)) + One(e \in Deferrals(q))
        <5> HIDE DEF e, Entry, y
        <5> QED BY <2>1, NumberAppend DEF a
      <4>2. e \in Deferrals(q) <=> q = y
        BY <2>1, <2>3 DEF Deferrals
      <4> QED BY <2>5, <4>1, <4>2 DEF InDeferred, One
    <3>2. FramesOf(t, q) = FramesOf(s, q) /\ \A r : InWord(t, q, r) = InWord(s, q, r)
      BY <2>5 DEF FramesOf, InFrame, Resumes, InWord
    <3>3. InFrames(t, q) = InFrames(s, q) /\ InIrqs(t, q) = InIrqs(s, q) /\ InWords(t, q) = InWords(s, q)
      BY <2>5, <3>2 DEF InFrames, InIrqs, InWords
    <3>4. Counted(s, q) /\ One(q = y) \in Nat
      BY <1>1, PlacesAre DEF One
    <3>5. /\ InReady(t, q) = InReady(s, q) /\ InLate(t, q) = InLate(s, q)
          /\ InWaiters(t, q) = InWaiters(s, q) /\ Outside(t, q) = Outside(s, q)
          /\ t.pendingTimer = s.pendingTimer /\ InBanks(t, q) = InBanks(s, q)
      BY <2>5, SameOutsideHold, SameBanksHold
    <3> HIDE DEF y
    <3> QED BY <3>1, <3>3, <3>4, <3>5 DEF Total, Counted
  <2> HIDE DEF y
  <2> QED BY <1>1, <2>4, <2>5, <2>6, TotalAdds
<1>4. ASSUME t = EnterTrap(s, cause, p, x), MayEnter(s, cause, p) PROVE Adds(s, t, y)
  BY <1>4, EnterTrapAdds
<1>5. \/ t = Reentered(s)
      \/ t = PutOff(s, cause, x) /\ Deferred(s, cause, p) /\ x \in LowProc
      \/ t = EnterTrap(s, cause, p, x) /\ MayEnter(s, cause, p)
  BY RequestOutcomes
<1> HIDE DEF t, y
<1>6. Adds(s, t, y)
  BY <1>2, <1>3, <1>4, <1>5
<1> QED BY <1>6 DEF t, y

\* A process that becomes ready is with the handler, or in its queue.
LEMMA TrapOrEnqueueAdds ==
  ASSUME NEW s, Good(kernel, s), NEW cause \in Causes, cause # "PROCESS", NEW x \in Proc,
         MayRequest(s, cause, PriorityOf(x), x)
  PROVE  Adds(s, TrapOrEnqueue(s, cause, x), x)
<1>1. PriorityOf(x) \in Priority /\ Carried(cause, x) = x
  BY LowIsLow DEF Carried
<1>2. CASE cause \in s.mask[PriorityOf(x)]
  <2>1. Adds(s, requestTrap(s, cause, PriorityOf(x), x), Carried(cause, x))
    BY <1>1, <1>2, RequestAdds
  <2> QED BY <1>1, <1>2, <2>1 DEF TrapOrEnqueue
<1>3. CASE cause \notin s.mask[PriorityOf(x)]
  BY <1>3, EnqueueAdds DEF TrapOrEnqueue
<1> QED BY <1>2, <1>3

\* Nothing changes.
LEMMA StaysConserves ==
  ASSUME NEW s \in Processor
  PROVE  Conserves(s, s)
<1>1. SameHandlers(s, s) /\ SameOutside(s, s)
  BY DEF SameHandlers, SameOutside
<1> QED BY <1>1, BanksConserve

\* A trap that carries nothing conserves every process.
LEMMA EmptyTrapConserves ==
  ASSUME NEW s, Good(kernel, s), NEW cause \in Causes, NEW p \in Priority,
         NEW x \in Proc \union {NoProc}, MayRequest(s, cause, p, x), Carried(cause, x) = NoProc
  PROVE  Conserves(s, requestTrap(s, cause, p, x))
<1>1. CASE cause \in s.mask[p]
  <2>1. Adds(s, requestTrap(s, cause, p, x), Carried(cause, x))
    BY <1>1, RequestAdds
  <2> QED BY <2>1 DEF Conserves
<1>2. CASE cause \notin s.mask[p]
  BY <1>2, StaysConserves DEF requestTrap, Good
<1> QED BY <1>1, <1>2

\* The report of an empty queue.
LEMMA ReportEmptyConserves ==
  ASSUME NEW s, Good(kernel, s), NEW p \in Priority, p = Low => s.irqs = <<>> /\ s.cpu.prio = Low
  PROVE  Conserves(s, ReportEmpty(s, p))
<1> DEFINE t == requestTrap(s, "QUEUE_EMPTY", p, NoProc)
           u == [t EXCEPT !.reported[p] = TRUE]
<1>1. MayRequest(s, "QUEUE_EMPTY", p, NoProc) /\ "QUEUE_EMPTY" \in Causes
      /\ Carried("QUEUE_EMPTY", NoProc) = NoProc
  BY DEF MayRequest, Causes, Carried
<1>2. Good(kernel, t) /\ Conserves(s, t)
  BY <1>1, RequestKeeps, EmptyTrapConserves
<1>3. ReportEmpty(s, p) = IF t.error = "none" THEN u ELSE t
  BY DEF ReportEmpty
<1> HIDE DEF t
<1>4. t \in Processor
  BY <1>2 DEF Good
<1>5. u \in Processor /\ SameHandlers(t, u) /\ SameBanks(t, u) /\ SameOutside(t, u)
  BY <1>4 DEF Processor, SameHandlers, SameBanks, SameOutside
<1> HIDE DEF u
<1>6. Conserves(t, u)
  BY <1>4, <1>5, BanksConserve, SameBanksHold
<1>7. Conserves(s, u)
  BY <1>2, <1>6, AddsThen DEF Conserves
<1> QED BY <1>2, <1>3, <1>7

\* An idle high priority gives way.
LEMMA DropConserves ==
  ASSUME NEW s, Good(kernel, s), ~HandlersActive(s), ~s.shadowValid, ~s.cpu.running
  PROVE  Conserves(s, Drop(s))
<1> DEFINE t == Drop(s)
<1>1. s \in Processor /\ t \in Processor /\ ~t.cpu.running
  BY DropKeeps DEF Good
<1>2. SameHandlers(s, t) /\ SameOutside(s, t) /\ t.shadow = s.shadow /\ t.shadowValid = s.shadowValid
  BY <1>1 DEF Processor, Drop, SameHandlers, SameOutside
<1> HIDE DEF t
<1>3. \A q \in Proc : InBanks(t, q) = InBanks(s, q)
  BY <1>1, <1>2 DEF InBanks, One
<1>4. Conserves(s, t)
  BY <1>1, <1>2, <1>3, BanksConserve
<1> QED BY <1>4 DEF t

\* The process put aside goes on.
LEMMA ResumeShadowConserves ==
  ASSUME NEW s, Good(kernel, s), ~HandlersActive(s), s.shadowValid, ~s.cpu.running
  PROVE  Conserves(s, ResumeShadow(s))
<1> DEFINE t == ResumeShadow(s)
<1>1. s \in Processor /\ t \in Processor /\ t.cpu = s.shadow /\ s.shadow.running
  BY ResumeShadowKeeps, NoHandlers DEF Good
<1>2. SameHandlers(s, t) /\ SameOutside(s, t) /\ t.shadowValid = FALSE
  BY <1>1 DEF Processor, ResumeShadow, SameHandlers, SameOutside
<1> HIDE DEF t
<1>3. \A q \in Proc : InBanks(t, q) = InBanks(s, q)
  BY <1>1, <1>2 DEF InBanks, One
<1>4. Conserves(s, t)
  BY <1>1, <1>2, <1>3, BanksConserve
<1> QED BY <1>4 DEF t

\* The next process of a queue runs, and what it preempts is put aside.
LEMMA SwitchConserves ==
  ASSUME NEW s, Good(kernel, s), ~HandlersActive(s), NEW p \in Priority, MaySwitch(s, p)
  PROVE  Conserves(s, Switch(s, p))
<1> DEFINE t == Switched(s, p)
           x == Head(s.queue[p])
           r == requestTrap(t, "PROCESS", p, x)
<1>1. /\ Good(kernel, t) /\ SameHandlers(s, t) /\ ~HandlersActive(t)
      /\ t.cpu = Running(x, p) /\ x \in Of(p)
      /\ t.queue = [s.queue EXCEPT ![p] = Tail(s.queue[p])]
      /\ t.shadow = IF s.cpu.running \/ s.cpu.prio = Low THEN s.cpu ELSE s.shadow
      /\ t.shadowValid = (s.shadowValid \/ s.cpu.running)
      /\ t.late = s.late
  BY SwitchedKeeps
<1>2. /\ s \in Processor /\ s.irqs = <<>> /\ s.cpu.running \in BOOLEAN
      /\ s.shadowValid \in BOOLEAN /\ (s.shadowValid => s.cpu.prio = High)
      /\ s.queue \in [Priority -> Seq(Proc)] /\ s.queue[p] # <<>> /\ High # Low
      /\ (s.cpu.running => s.cpu.prio = Low)
  <2>1. /\ s \in Processor /\ s.irqs = <<>> /\ s.cpu.running \in BOOLEAN
        /\ s.shadowValid \in BOOLEAN /\ (s.shadowValid => s.cpu.prio = High) /\ High # Low
    BY NoHandlers
  <2>2. s.queue \in [Priority -> Seq(Proc)]
    BY <2>1 DEF Processor
  <2>3. s.queue[p] # <<>> /\ (s.cpu.running => s.cpu.prio = Low)
    BY DEF MaySwitch
  <2> QED BY <2>1, <2>2, <2>3
<1>3. /\ t.waiters = s.waiters /\ t.pendingTimer = s.pendingTimer /\ t.asleep = s.asleep
      /\ t.channel = s.channel /\ t.tasks = s.tasks /\ t.stopped = s.stopped
  BY <1>2 DEF Switched, Processor
<1>4. Switch(s, p) = IF s.cpu.running THEN r ELSE t
  BY SwitchIs
<1> HIDE DEF t, x
<1>5. t \in Processor /\ x \in Proc /\ PriorityOf(x) = p /\ t.cpu.running /\ t.cpu.wptr = x
      /\ t.cpu.prio = p
  BY <1>1 DEF Good, Of, Running
<1>6. ASSUME NEW q \in Proc PROVE Total(t, q) = Total(s, q) + One(q = NoProc)
  <2> DEFINE e == One(x \in {q})
             b == One(s.cpu.running /\ s.cpu.wptr = q)
             a == One(s.shadowValid /\ s.shadow.wptr = q)
  <2>1. Counted(s, q) /\ One(q = NoProc) = 0 /\ e \in Nat /\ a \in Nat /\ b \in Nat
    BY <1>2, PlacesAre, NotOfProgram DEF One
  <2>2. InReady(s, q) = e + InReady(t, q) /\ InReady(t, q) \in Nat
    <3>1. Number(s.queue[p], {q}) = e + Number(Tail(s.queue[p]), {q})
      BY <1>2, NumberTail DEF x
    <3>2. Counted(t, q)
      BY <1>5, PlacesAre
    <3>3. CASE PriorityOf(q) = p
      BY <1>1, <1>2, <3>1, <3>2, <3>3 DEF InReady, Counted
    <3>4. CASE PriorityOf(q) # p
      <4>1. e = 0
        BY <1>5, <3>4 DEF One
      <4>2. t.queue[PriorityOf(q)] = s.queue[PriorityOf(q)]
        BY <1>1, <1>2, <3>4, LowIsLow
      <4> HIDE DEF e
      <4> QED BY <3>2, <4>1, <4>2 DEF InReady, Counted
    <3> QED BY <3>3, <3>4
  <2>3. InBanks(t, q) = InBanks(s, q) + e
    <3>1. One(t.cpu.running /\ t.cpu.wptr = q) = e
      BY <1>5 DEF One
    <3>2. One(t.shadowValid /\ t.shadow.wptr = q) = b + a
      <4>1. CASE s.cpu.running
        <5>1. s.shadowValid = FALSE /\ t.shadow = s.cpu /\ t.shadowValid
          BY <1>1, <1>2, <4>1
        <5> QED BY <4>1, <5>1 DEF One
      <4>2. CASE ~s.cpu.running
        BY <1>1, <1>2, <4>2 DEF One
      <4> QED BY <1>2, <4>1, <4>2
    <3> HIDE DEF e
    <3> QED BY <2>1, <3>1, <3>2 DEF InBanks
  <2>4. /\ InDeferred(t, q) = InDeferred(s, q) /\ InFrames(t, q) = InFrames(s, q)
        /\ InIrqs(t, q) = InIrqs(s, q) /\ InWords(t, q) = InWords(s, q)
    BY <1>1, SameHandlersHold
  <2>5. /\ InLate(t, q) = InLate(s, q) /\ InWaiters(t, q) = InWaiters(s, q)
        /\ Outside(t, q) = Outside(s, q) /\ t.pendingTimer = s.pendingTimer
    BY <1>1, <1>3 DEF InLate, InWaiters, Outside
  <2> HIDE DEF e, a, b
  <2> QED BY <2>1, <2>2, <2>3, <2>4, <2>5 DEF Total, Counted
<1>7. Conserves(s, t)
  BY <1>1, <1>2, <1>5, <1>6, TotalAdds DEF Conserves, SameHandlers
<1>8. CASE s.cpu.running
  <2>1. MayRequest(t, "PROCESS", p, x) /\ Carried("PROCESS", x) = NoProc /\ "PROCESS" \in Causes
    BY <1>1, <1>2, <1>5 DEF MayRequest, SameHandlers, Carried, Causes
  <2>2. Conserves(t, r)
    BY <1>1, <1>5, <2>1, EmptyTrapConserves
  <2> HIDE DEF r
  <2>3. Conserves(s, r)
    BY <1>7, <2>2, AddsThen DEF Conserves
  <2> QED BY <1>4, <1>8, <2>3
<1> QED BY <1>4, <1>7, <1>8

\* dispatchProcess loses nobody.
LEMMA DispatchConserves ==
  ASSUME NEW s, Good(kernel, s)
  PROVE  Conserves(s, dispatchProcess(s))
<1> DEFINE t == dispatchProcess(s)
<1>1. CASE HandlersActive(s)
  BY <1>1, StaysConserves DEF dispatchProcess, Good
<1>2. CASE ~HandlersActive(s)
  <2>1. /\ s \in Processor /\ s.cpu.prio \in Priority /\ Low \in Priority /\ High # Low
        /\ s.irqs = <<>>
    BY <1>2, NoHandlers DEF Priority
  <2>2. ASSUME t = ReportEmpty(Drop(s), Low), BothQueuesEmpty(s) PROVE Conserves(s, t)
    <3> DEFINE d == Drop(s)
    <3>1. Good(kernel, d) /\ d.cpu.prio = Low /\ Conserves(s, d) /\ ~HandlersActive(d)
      BY <1>2, <2>2, DropKeeps, DropConserves DEF BothQueuesEmpty
    <3> HIDE DEF t, d
    <3>2. Conserves(d, ReportEmpty(d, Low))
      BY <2>1, <3>1, NoHandlers, ReportEmptyConserves
    <3>3. Conserves(s, ReportEmpty(d, Low))
      BY <3>1, <3>2, AddsThen DEF Conserves
    <3> QED BY <2>2, <3>3 DEF d
  <2>3. ASSUME t = ReportEmpty(s, s.cpu.prio) PROVE Conserves(s, t)
    BY <2>1, <2>3, ReportEmptyConserves
  <2>4. ASSUME t = ResumeShadow(s), s.shadowValid, ~s.cpu.running PROVE Conserves(s, t)
    BY <1>2, <2>4, ResumeShadowConserves
  <2>5. ASSUME NEW p \in Priority, t = Switch(s, p), MaySwitch(s, p) PROVE Conserves(s, t)
    BY <1>2, <2>5, SwitchConserves
  <2>6. ASSUME t = s PROVE Conserves(s, t)
    BY <2>1, <2>6, StaysConserves
  <2>7. \/ t = s
        \/ t = ReportEmpty(s, s.cpu.prio)
        \/ t = ReportEmpty(Drop(s), Low) /\ BothQueuesEmpty(s)
        \/ t = ResumeShadow(s) /\ s.shadowValid /\ ~s.cpu.running
        \/ \E p \in Priority : t = Switch(s, p) /\ MaySwitch(s, p)
    BY <1>2, DispatchOutcomes
  <2> HIDE DEF t
  <2> QED BY <2>2, <2>3, <2>4, <2>5, <2>6, <2>7 DEF t
<1> QED BY <1>1, <1>2

-----------------------------------------------------------------------------
\* The places of the lists, and an operation that moves processes between them.
Listed(s, q) ==
  InReady(s, q) + InLate(s, q) + InWaiters(s, q) + One(s.pendingTimer = q) + Outside(s, q)

\* The places that the handlers and the traps hold.
Held(s, q) == InDeferred(s, q) + InFrames(s, q) + InIrqs(s, q) + InWords(s, q)

\* The sum, in three parts.
LEMMA TotalIs ==
  ASSUME NEW s \in Processor, NEW q \in Proc
  PROVE  /\ Total(s, q) = Listed(s, q) + InBanks(s, q) + Held(s, q)
         /\ Listed(s, q) \in Nat /\ InBanks(s, q) \in Nat /\ Held(s, q) \in Nat
<1> DEFINE y == One(s.pendingTimer = q)
<1>1. Counted(s, q)
  BY PlacesAre
<1>2. /\ InReady(s, q) \in Nat /\ InLate(s, q) \in Nat /\ InWaiters(s, q) \in Nat
      /\ Outside(s, q) \in Nat /\ InBanks(s, q) \in Nat /\ InDeferred(s, q) \in Nat
      /\ InFrames(s, q) \in Nat /\ InIrqs(s, q) \in Nat /\ InWords(s, q) \in Nat /\ y \in Nat
  BY <1>1 DEF Counted
<1>3. Listed(s, q) = InReady(s, q) + InLate(s, q) + InWaiters(s, q) + y + Outside(s, q)
  BY DEF Listed
<1>4. Total(s, q) = InBanks(s, q) + InReady(s, q) + InLate(s, q) + InWaiters(s, q) + y
          + InDeferred(s, q) + InFrames(s, q) + InIrqs(s, q) + InWords(s, q) + Outside(s, q)
  BY DEF Total
<1>5. Held(s, q) = InDeferred(s, q) + InFrames(s, q) + InIrqs(s, q) + InWords(s, q)
  BY DEF Held
<1> HIDE DEF y
<1>6. Listed(s, q) \in Nat /\ Held(s, q) \in Nat
  BY <1>2, <1>3, <1>5
<1>7. Total(s, q) = Listed(s, q) + InBanks(s, q) + Held(s, q)
  BY <1>2, <1>3, <1>4, <1>5
<1> QED BY <1>2, <1>6, <1>7

\* The same, with handlers and traps, or lists, that have not changed.
LEMMA SameHeld ==
  ASSUME NEW s, NEW t, SameHandlers(s, t), NEW q
  PROVE  Held(t, q) = Held(s, q)
  BY SameHandlersHold DEF Held

\* Equal lists list the same.
LEMMA SameListed ==
  ASSUME NEW s, NEW t, SameOutside(s, t), NEW q
  PROVE  Listed(t, q) = Listed(s, q)
  BY SameOutsideHold DEF Listed

\* With the handlers and the banks unchanged, what the lists gain is what is added.
LEMMA ListsAdd ==
  ASSUME NEW s \in Processor, NEW t \in Processor, SameHandlers(s, t), SameBanks(s, t), NEW x,
         \A q \in Proc : Listed(t, q) = Listed(s, q) + One(q = x)
  PROVE  Adds(s, t, x)
<1>1. ASSUME NEW q \in Proc PROVE Total(t, q) = Total(s, q) + One(q = x)
  <2> DEFINE e == One(q = x)
  <2>1. /\ Total(s, q) = Listed(s, q) + InBanks(s, q) + Held(s, q)
        /\ Listed(s, q) \in Nat /\ InBanks(s, q) \in Nat /\ Held(s, q) \in Nat
    BY TotalIs
  <2>2. Total(t, q) = Listed(t, q) + InBanks(t, q) + Held(t, q)
    BY TotalIs
  <2>3. Listed(t, q) = Listed(s, q) + e
    OBVIOUS
  <2>4. InBanks(t, q) = InBanks(s, q) /\ Held(t, q) = Held(s, q)
    BY SameHeld, SameBanksHold
  <2>5. e \in Nat
    BY DEF One
  <2> HIDE DEF e
  <2>6. Total(t, q) = Total(s, q) + e
    BY <2>1, <2>2, <2>3, <2>4, <2>5
  <2> QED BY <2>6 DEF e
<1> QED BY <1>1, TotalAdds DEF SameHandlers

\* The due processes of a priority move to its ready queue, or one to the pending trap.
LEMMA ReleaseDueConserves ==
  ASSUME NEW s, Good(kernel, s), NEW p \in Priority
  PROVE  Conserves(s, ReleaseDue(s, p))
<1> DEFINE t == ReleaseDue(s, p)
           x == Head(s.late[p])
           a == Tail(s.late[p])
           b == s.queue[p] \o s.late[p]
<1>1. /\ s \in Processor /\ s.late[p] \in Seq(Proc) /\ s.queue[p] \in Seq(Proc)
      /\ s.late[p] \in Seq(Of(p))
      /\ s.late \in [Priority -> Seq(Proc)] /\ s.queue \in [Priority -> Seq(Proc)]
  BY DEF Good, ListsByPriority, Processor
<1>2. /\ t \in Processor /\ SameHandlers(s, t) /\ SameBanks(s, t)
  BY ReleaseDueKeeps DEF Released, Good
<1>3. \A q \in Proc : q # NoProc /\ One(q = NoProc) = 0 /\ One(NoProc = q) = 0
  BY NotOfProgram DEF One
<1>4. CASE s.pendingTimer # NoProc \/ s.late[p] = <<>>
  <2>1. t = s
    BY <1>4 DEF ReleaseDue
  <2> HIDE DEF t
  <2>2. Conserves(s, t)
    BY <1>1, <2>1, StaysConserves
  <2> QED BY <2>2 DEF t
<1>5. CASE ~(s.pendingTimer # NoProc \/ s.late[p] = <<>>) /\ "TIMER" \in EnablesAfterReturn(s, p)
  <2>1. t = [s EXCEPT !.late[p] = a, !.pendingTimer = x]
    BY <1>1, <1>5 DEF ReleaseDue, Processor
  <2>2. x \in Of(p) /\ a \in Seq(Proc)
    BY <1>1, <1>5, HeadTailProperties
  <2> HIDE DEF t, x, a
  <2>3. /\ t.queue = s.queue /\ t.late = [s.late EXCEPT ![p] = a] /\ t.pendingTimer = x
        /\ t.waiters = s.waiters /\ t.asleep = s.asleep /\ t.channel = s.channel
        /\ t.tasks = s.tasks /\ t.stopped = s.stopped
    BY <1>1, <2>1 DEF Processor
  <2>4. ASSUME NEW q \in Proc PROVE Listed(t, q) = Listed(s, q) + One(q = NoProc)
    <3> DEFINE e == One(x \in {q})
    <3>1. InLate(s, q) = e + InLate(t, q)
      <4>1. Number(s.late[p], {q}) = e + Number(a, {q})
        BY <1>1, <1>5, NumberTail DEF x, a
      <4>2. CASE PriorityOf(q) = p
        BY <1>1, <2>3, <4>1, <4>2 DEF InLate
      <4>3. CASE PriorityOf(q) # p
        <5>1. e = 0
          BY <2>2, <4>3 DEF One, Of
        <5>2. t.late[PriorityOf(q)] = s.late[PriorityOf(q)]
          BY <1>1, <2>3, <4>3, LowIsLow
        <5>3. Counted(s, q)
          BY <1>1, PlacesAre
        <5> HIDE DEF e
        <5> QED BY <5>1, <5>2, <5>3 DEF InLate, Counted
      <4> QED BY <4>2, <4>3
    <3>2. One(t.pendingTimer = q) = e /\ One(s.pendingTimer = q) = 0
      <4>1. s.pendingTimer = NoProc
        BY <1>5
      <4> QED BY <1>3, <2>3, <4>1 DEF One
    <3>3. InReady(t, q) = InReady(s, q) /\ InWaiters(t, q) = InWaiters(s, q)
          /\ Outside(t, q) = Outside(s, q)
      BY <2>3 DEF InReady, InWaiters, Outside
    <3>4. Counted(s, q) /\ Counted(t, q) /\ e \in Nat
      BY <1>1, <1>2, PlacesAre DEF One
    <3> HIDE DEF e
    <3> QED BY <1>3, <3>1, <3>2, <3>3, <3>4 DEF Listed, Counted
  <2>5. Conserves(s, t)
    BY <1>1, <1>2, <2>4, ListsAdd DEF Conserves, t
  <2> QED BY <2>5 DEF t
<1>6. CASE ~(s.pendingTimer # NoProc \/ s.late[p] = <<>>) /\ "TIMER" \notin EnablesAfterReturn(s, p)
  <2>1. t = [s EXCEPT !.late[p] = <<>>, !.queue[p] = b, !.reported[p] = FALSE]
    BY <1>1, <1>6 DEF ReleaseDue, Processor
  <2> HIDE DEF t, b
  <2>3. /\ t.queue = [s.queue EXCEPT ![p] = b] /\ t.late = [s.late EXCEPT ![p] = <<>>]
        /\ t.pendingTimer = s.pendingTimer
        /\ t.waiters = s.waiters /\ t.asleep = s.asleep /\ t.channel = s.channel
        /\ t.tasks = s.tasks /\ t.stopped = s.stopped
    BY <1>1, <2>1 DEF Processor
  <2>4. ASSUME NEW q \in Proc PROVE Listed(t, q) = Listed(s, q) + One(q = NoProc)
    <3>1. InReady(t, q) + InLate(t, q) = InReady(s, q) + InLate(s, q)
      <4>0. Counted(s, q)
        BY <1>1, PlacesAre
      <4>1. Number(b, {q}) = Number(s.queue[p], {q}) + Number(s.late[p], {q})
            /\ Number(<<>>, {q}) = 0
        BY <1>1, NumberConcat, NumberType DEF b
      <4>2. CASE PriorityOf(q) = p
        <5>1. InReady(t, q) = Number(b, {q}) /\ InLate(t, q) = Number(<<>>, {q})
          BY <1>1, <2>3, <4>2 DEF InReady, InLate
        <5>2. InReady(s, q) = Number(s.queue[p], {q}) /\ InLate(s, q) = Number(s.late[p], {q})
          BY <4>2 DEF InReady, InLate
        <5>3. InReady(s, q) \in Nat /\ InLate(s, q) \in Nat
          BY <4>0 DEF Counted
        <5> QED BY <4>1, <5>1, <5>2, <5>3
      <4>3. CASE PriorityOf(q) # p
        BY <1>1, <2>3, <4>3, LowIsLow DEF InLate, InReady
      <4> QED BY <4>2, <4>3
    <3>3. InWaiters(t, q) = InWaiters(s, q) /\ Outside(t, q) = Outside(s, q)
      BY <2>3 DEF InWaiters, Outside
    <3>4. Counted(s, q) /\ Counted(t, q)
      BY <1>1, <1>2, PlacesAre DEF t
    <3> DEFINE y == One(s.pendingTimer = q)
    <3>5. y \in Nat /\ One(t.pendingTimer = q) = y
      BY <2>3 DEF One
    <3>6. /\ InReady(s, q) \in Nat /\ InLate(s, q) \in Nat /\ InWaiters(s, q) \in Nat
          /\ Outside(s, q) \in Nat /\ InReady(t, q) \in Nat /\ InLate(t, q) \in Nat
      BY <3>4 DEF Counted
    <3>7. Listed(s, q) = InReady(s, q) + InLate(s, q) + InWaiters(s, q) + y + Outside(s, q)
          /\ Listed(t, q) = InReady(t, q) + InLate(t, q) + InWaiters(t, q) + y + Outside(t, q)
      BY <3>5 DEF Listed
    <3>8. One(q = NoProc) = 0
      BY <1>3
    <3> HIDE DEF y
    <3> QED BY <3>1, <3>3, <3>5, <3>6, <3>7, <3>8
  <2>5. Conserves(s, t)
    BY <1>1, <1>2, <2>4, ListsAdd DEF Conserves, t
  <2> QED BY <2>5 DEF t
<1> QED BY <1>4, <1>5, <1>6

\* releaseDueTimers conserves every process.
LEMMA ReleaseConserves ==
  ASSUME NEW s, Good(kernel, s)
  PROVE  Conserves(s, releaseTimers(s))
<1> DEFINE u == ReleaseDue(s, High)
<1>1. High \in Priority /\ Low \in Priority
  BY DEF Priority
<1>2. Good(kernel, u) /\ Conserves(s, u)
  BY <1>1, ReleaseDueKeeps, ReleaseDueConserves DEF Released
<1> HIDE DEF u
<1>3. Conserves(u, ReleaseDue(u, Low))
  BY <1>1, <1>2, ReleaseDueConserves
<1>4. Conserves(s, ReleaseDue(u, Low))
  BY <1>2, <1>3, AddsThen DEF Conserves
<1> QED BY <1>4 DEF releaseTimers, u

\* The first deferred trap is taken out, with its process.
LEMMA FirstDeferredTakes ==
  ASSUME NEW s, Good(kernel, s), ~HandlersActive(s), LowMayTrap(s), s.pendingLow # <<>>
  PROVE  Adds(FirstDeferred(s), s, Head(s.pendingLow).proc) /\ FirstDeferred(s).error = s.error
<1> DEFINE u == FirstDeferred(s)
           d == Head(s.pendingLow)
           a == Tail(s.pendingLow)
           c == IF s.cpu.prio = Low THEN s.cpu
                ELSE [s.shadow EXCEPT !.prio = Low, !.running = s.shadowValid]
           e == [c EXCEPT !.valid = c.valid \/ c.running]
           Entry == [cause : {"RUN", "SIGNAL"}, proc : LowProc]
<1>1. /\ s \in Processor /\ s.cpu.prio \in {High, Low} /\ High # Low
      /\ s.shadowValid => s.cpu.prio = High
      /\ s.shadowValid \in BOOLEAN /\ s.cpu.running \in BOOLEAN
  BY NoHandlers
<1>2. s.shadow \in Bank /\ s.cpu \in Bank /\ s.pendingLow \in Seq(Entry)
  BY <1>1 DEF Processor
<1>3. c.wptr = (IF s.cpu.prio = Low THEN s.cpu.wptr ELSE s.shadow.wptr)
      /\ c.running = (IF s.cpu.prio = Low THEN s.cpu.running ELSE s.shadowValid) /\ c \in Bank
  <2>1. CASE s.cpu.prio = Low
    BY <1>2, <2>1
  <2>2. CASE s.cpu.prio # Low
    <3>1. c = [s.shadow EXCEPT !.prio = Low, !.running = s.shadowValid]
      BY <2>2
    <3> HIDE DEF c
    <3> QED BY <1>1, <1>2, <2>2, <3>1 DEF Bank, Priority
  <2> QED BY <2>1, <2>2
<1> HIDE DEF c
<1>4. e.wptr = c.wptr /\ e.running = c.running
  BY <1>3 DEF Bank
<1>5. u = [s EXCEPT !.cpu = e, !.shadowValid = FALSE, !.pendingLow = a]
  <2>1. ToLow(s) = [s EXCEPT !.cpu = c, !.shadowValid = FALSE]
    <3>1. CASE s.cpu.prio = Low
      <4>1. c = s.cpu /\ s.shadowValid = FALSE
        BY <1>1, <3>1 DEF c
      <4> QED BY <1>1, <3>1, <4>1 DEF ToLow, Processor
    <3>2. CASE s.cpu.prio # Low
      BY <3>2 DEF ToLow, c
    <3> QED BY <3>1, <3>2
  <2> HIDE DEF c
  <2>2. ToLow(s).cpu = c
    BY <1>1, <2>1 DEF Processor
  <2> QED BY <1>1, <2>1, <2>2 DEF FirstDeferred, Processor
<1>6. u \in Processor
  BY ToLowKeeps DEF Good
<1> HIDE DEF u, e, a, d
<1>7. /\ u.cpu = e /\ u.shadowValid = FALSE /\ u.pendingLow = a /\ SameOutside(s, u)
      /\ u.frames = s.frames /\ u.irqs = s.irqs /\ u.record = s.record /\ u.word = s.word
      /\ u.error = s.error
  BY <1>1, <1>5 DEF Processor, SameOutside
<1>8. ASSUME NEW q \in Proc PROVE Total(s, q) = Total(u, q) + One(q = d.proc)
  <2>1. InDeferred(s, q) = InDeferred(u, q) + One(q = d.proc)
    <3>1. Number(s.pendingLow, Deferrals(q)) = One(d \in Deferrals(q)) + Number(a, Deferrals(q))
          /\ d \in Entry
      <4>1. s.pendingLow \in Seq(Entry) /\ s.pendingLow # <<>>
        BY <1>2
      <4> HIDE DEF Entry
      <4> QED BY <4>1, NumberTail DEF d, a
    <3>2. d \in Deferrals(q) <=> q = d.proc
      BY <3>1 DEF Deferrals
    <3>3. Counted(u, q)
      BY <1>6, PlacesAre
    <3>4. Number(s.pendingLow, Deferrals(q)) = One(q = d.proc) + Number(a, Deferrals(q))
      BY <3>1, <3>2 DEF One
    <3>5. One(q = d.proc) \in Nat
      BY DEF One
    <3> QED BY <1>7, <3>3, <3>4, <3>5 DEF InDeferred, Counted
  <2>2. InBanks(s, q) = InBanks(u, q)
    <3>1. CASE s.cpu.prio = Low
      <4>1. s.shadowValid = FALSE
        BY <1>1, <3>1
      <4> QED BY <1>3, <1>4, <1>7, <3>1, <4>1 DEF InBanks, One
    <3>2. CASE s.cpu.prio # Low
      <4>1. s.cpu.running = FALSE
        BY <1>1, <3>2 DEF LowMayTrap
      <4> QED BY <1>3, <1>4, <1>7, <3>2, <4>1 DEF InBanks, One
    <3> QED BY <3>1, <3>2
  <2>3. FramesOf(u, q) = FramesOf(s, q) /\ \A r : InWord(u, q, r) = InWord(s, q, r)
    BY <1>7 DEF FramesOf, InFrame, Resumes, InWord
  <2>4. InFrames(u, q) = InFrames(s, q) /\ InIrqs(u, q) = InIrqs(s, q) /\ InWords(u, q) = InWords(s, q)
    BY <1>7, <2>3 DEF InFrames, InIrqs, InWords
  <2>5. Listed(u, q) = Listed(s, q)
    BY <1>7, SameListed
  <2> DEFINE g == One(q = d.proc)
  <2>6. Counted(u, q) /\ g \in Nat
    BY <1>6, PlacesAre DEF One
  <2>7. Held(s, q) = Held(u, q) + g
    <3>1. InDeferred(s, q) = InDeferred(u, q) + g
      BY <2>1
    <3>2. InDeferred(u, q) \in Nat /\ InFrames(u, q) \in Nat /\ InIrqs(u, q) \in Nat
          /\ InWords(u, q) \in Nat
      BY <2>6 DEF Counted
    <3> HIDE DEF g
    <3> QED BY <2>4, <2>6, <3>1, <3>2 DEF Held
  <2>8. /\ Total(u, q) = Listed(u, q) + InBanks(u, q) + Held(u, q)
        /\ Listed(u, q) \in Nat /\ InBanks(u, q) \in Nat /\ Held(u, q) \in Nat
    BY <1>6, TotalIs
  <2>9. Total(s, q) = Listed(s, q) + InBanks(s, q) + Held(s, q)
    BY <1>1, TotalIs
  <2>10. Total(s, q) = Total(u, q) + g
    <3> HIDE DEF g
    <3> QED BY <2>2, <2>5, <2>6, <2>7, <2>8, <2>9
  <2> QED BY <2>10
<1>9. Adds(u, s, d.proc)
  BY <1>1, <1>6, <1>7, <1>8, TotalAdds
<1> QED BY <1>7, <1>9 DEF u, d

\* A deferred trap is taken, or its process put in its queue.
LEMMA TakeDeferredConserves ==
  ASSUME NEW s, Good(kernel, s), ~HandlersActive(s), LowMayTrap(s), s.pendingLow # <<>>
  PROVE  Conserves(s, TakeDeferred(s))
<1> DEFINE u == FirstDeferred(s)
           d == Head(s.pendingLow)
           v == requestTrap(u, d.cause, Low, d.proc)
           w == enqueueProcess(u, d.proc)
<1>1. TakeDeferred(s) = IF d.cause \in u.mask[Low] THEN v ELSE dispatchProcess(w)
  BY DEF TakeDeferred, FirstDeferred, ToLow
<1>2. /\ Good(kernel, u) /\ u.cpu.prio = Low /\ u.irqs = <<>>
      /\ d.proc \in LowProc /\ d.cause \in Causes
  BY ToLowKeeps
<1>3. Adds(u, s, d.proc) /\ u.error = s.error
  BY FirstDeferredTakes
<1>4. d.cause # "PROCESS"
  BY ToLowKeeps
<1> HIDE DEF u, d
<1>5. d.proc \in Proc /\ Low \in Priority /\ Carried(d.cause, d.proc) = d.proc
  BY <1>2, <1>4, TrapsAssumption DEF Priority, Carried
<1>6. MayRequest(u, d.cause, Low, d.proc)
  BY <1>2 DEF MayRequest
<1>7. CASE d.cause \in u.mask[Low]
  <2>1. Adds(u, v, Carried(d.cause, d.proc))
    BY <1>2, <1>5, <1>6, <1>7, RequestAdds
  <2> HIDE DEF v
  <2>2. v.error = "none" => s.error = "none"
    BY <1>3, <2>1 DEF Adds
  <2>3. Conserves(s, v)
    BY <1>3, <1>5, <2>1, <2>2, AddsBack
  <2> QED BY <1>1, <1>7, <2>3
<1>8. CASE d.cause \notin u.mask[Low]
  <2>1. Adds(u, w, d.proc) /\ Good(kernel, w)
    BY <1>2, <1>5, EnqueueAdds, EnqueueKeeps
  <2> HIDE DEF w
  <2>2. w.error = "none" => s.error = "none"
    BY <1>3, <2>1 DEF Adds
  <2>3. Conserves(s, w)
    BY <1>3, <2>1, <2>2, AddsBack
  <2>4. Conserves(w, dispatchProcess(w))
    BY <2>1, DispatchConserves
  <2>5. Conserves(s, dispatchProcess(w))
    BY <2>3, <2>4, AddsThen DEF Conserves
  <2> QED BY <1>1, <1>8, <2>5
<1> QED BY <1>7, <1>8

\* A process is put into one place and then taken from another.
LEMMA AddsThenTakes ==
  ASSUME NEW s, NEW t, NEW u, NEW x, Adds(s, t, x), Adds(u, t, x), u.error = t.error
  PROVE  Conserves(s, u)
<1>1. SUFFICES ASSUME u.error = "none", NEW q \in Proc
      PROVE  /\ s.error = "none" /\ Places(s, q) \in Nat /\ Places(u, q) \in Nat
             /\ Places(u, q) = Places(s, q) + One(q = NoProc)
  BY TrapsAssumption DEF Adds, Conserves
<1>2. Places(t, q) = Places(s, q) + One(q = x) /\ s.error = "none" /\ Places(s, q) \in Nat
  BY <1>1 DEF Adds
<1>3. Places(t, q) = Places(u, q) + One(q = x) /\ Places(u, q) \in Nat
  BY <1>1 DEF Adds
<1>4. One(q = NoProc) = 0 /\ One(q = x) \in Nat
  BY TrapsAssumption DEF One
<1> QED BY <1>1, <1>2, <1>3, <1>4

\* A state with an error holds nobody to account.
LEMMA ErrorConserves ==
  ASSUME NEW s, NEW t, t.error # "none"
  PROVE  Conserves(s, t)
  BY DEF Conserves, Adds

\* The pending timer trap is taken.
LEMMA TakeTimerNowConserves ==
  ASSUME NEW s, Good(kernel, s), TimerReady(s)
  PROVE  Conserves(s, TakeTimerNow(s))
<1> DEFINE x == s.pendingTimer
           t == TrapOrEnqueue(s, "TIMER", x)
           u == [t EXCEPT !.pendingTimer = NoProc]
<1>1. MayRequest(s, "TIMER", PriorityOf(x), x) /\ x \in Proc /\ "TIMER" \in Causes
      /\ PriorityOf(x) \in Priority /\ "TIMER" # "PROCESS"
  BY LowIsLow DEF MayRequest, TimerReady, Causes
<1>2. Good(kernel, t) /\ Adds(s, t, x)
  <2>1. Good(kernel, t)
    BY <1>1, TrapOrEnqueueKeeps
  <2>2. Adds(s, t, x)
    BY <1>1, TrapOrEnqueueAdds
  <2> QED BY <2>1, <2>2
<1>3. t.pendingTimer = x
  <2>1. requestTrap(s, "TIMER", PriorityOf(x), x).pendingTimer = x
    BY <1>1, RequestLeaves DEF Leaves
  <2>2. enqueueProcess(s, x).pendingTimer = x
    BY <1>1, EnqueueFills
  <2> QED BY <2>1, <2>2 DEF TrapOrEnqueue
<1>4. \/ TakeTimerNow(s) = t /\ t.error # "none"
      \/ TakeTimerNow(s) = u \/ TakeTimerNow(s) = dispatchProcess(u)
  BY DEF TakeTimerNow
<1> HIDE DEF t
<1>5. Good(kernel, u) /\ t \in Processor
  BY <1>2, PendingTimerKeeps DEF Good
<1>6. /\ SameHandlers(u, t) /\ SameBanks(u, t) /\ u.pendingTimer = NoProc /\ u.error = t.error
      /\ u.queue = t.queue /\ u.late = t.late /\ u.waiters = t.waiters /\ u.asleep = t.asleep
      /\ u.channel = t.channel /\ u.tasks = t.tasks /\ u.stopped = t.stopped
  BY <1>5 DEF Processor, SameHandlers, SameBanks
<1> HIDE DEF u, x
<1>7. Adds(u, t, x)
  <2>1. ASSUME NEW q \in Proc PROVE Listed(t, q) = Listed(u, q) + One(q = x)
    <3> DEFINE e == One(q = x)
    <3>1. One(u.pendingTimer = q) = 0 /\ One(t.pendingTimer = q) = e /\ e \in Nat
      BY <1>3, <1>6, NotOfProgram DEF One
    <3>2. /\ InReady(u, q) = InReady(t, q) /\ InLate(u, q) = InLate(t, q)
          /\ InWaiters(u, q) = InWaiters(t, q) /\ Outside(u, q) = Outside(t, q)
      BY <1>6 DEF InReady, InLate, InWaiters, Outside
    <3>3. Counted(t, q)
      BY <1>5, PlacesAre
    <3>4. /\ InReady(t, q) \in Nat /\ InLate(t, q) \in Nat /\ InWaiters(t, q) \in Nat
          /\ Outside(t, q) \in Nat
      BY <3>3 DEF Counted
    <3>5. Listed(t, q) = InReady(t, q) + InLate(t, q) + InWaiters(t, q) + e + Outside(t, q)
          /\ Listed(u, q) = InReady(t, q) + InLate(t, q) + InWaiters(t, q) + 0 + Outside(t, q)
      BY <3>1, <3>2 DEF Listed
    <3>6. Listed(t, q) = Listed(u, q) + e
      <4> HIDE DEF e
      <4> QED BY <3>1, <3>4, <3>5
    <3> QED BY <3>6
  <2> QED BY <1>5, <1>6, <2>1, ListsAdd DEF Good
<1>8. Conserves(s, u)
  BY <1>2, <1>6, <1>7, AddsThenTakes
<1>9. Conserves(u, dispatchProcess(u))
  BY <1>5, DispatchConserves
<1>10. Conserves(s, dispatchProcess(u))
  BY <1>8, <1>9, AddsThen DEF Conserves
<1>11. t.error # "none" => Conserves(s, t)
  BY ErrorConserves
<1> QED BY <1>4, <1>8, <1>10, <1>11

\* The pending timer trap is taken when the processor has the right priority.
LEMMA TakeTimerConserves ==
  ASSUME NEW s, Good(kernel, s), ~HandlersActive(s), s.pendingTimer # NoProc
  PROVE  Conserves(s, TakeTimer(s))
<1> DEFINE p == PriorityOf(s.pendingTimer)
           below == p = Low /\ s.cpu.prio = High
           t == dispatchProcess(s)
<1>1. s.pendingTimer \in Proc /\ s.irqs = <<>> /\ s.cpu.prio \in {High, Low}
  BY NoHandlers DEF Good, Processor
<1>2. Good(kernel, t) /\ Leaves(s, t) /\ (~t.cpu.running => t = s /\ Settled(s))
      /\ Conserves(s, t)
  BY DispatchKeeps, DispatchSettles, DispatchConserves
<1>3. t.irqs = <<>> /\ t.pendingTimer = s.pendingTimer
  BY <1>1, <1>2 DEF Leaves
<1>4. \/ TakeTimer(s) = t
      \/ TakeTimer(s) = TakeTimerNow(t) /\ t.cpu.prio = Low
      \/ TakeTimer(s) = TakeTimerNow(Drop(t)) /\ ~t.cpu.running
      \/ TakeTimer(s) = TakeTimerNow(s) /\ ~below
  BY DEF TakeTimer, Drop
<1>5. t.cpu.prio = Low => Conserves(s, TakeTimerNow(t))
  <2>1. t.cpu.prio = Low => Conserves(t, TakeTimerNow(t))
    BY <1>1, <1>2, <1>3, TakeTimerNowConserves DEF TimerReady
  <2> HIDE DEF t
  <2> QED BY <1>2, <2>1, AddsThen DEF Conserves
<1>6. ~t.cpu.running => Conserves(s, TakeTimerNow(Drop(t)))
  <2>1. SUFFICES ASSUME ~t.cpu.running PROVE Conserves(s, TakeTimerNow(Drop(s)))
    BY <1>2
  <2>2. ~s.shadowValid /\ ~s.cpu.running
    BY <1>2, <2>1 DEF Settled
  <2> DEFINE d == Drop(s)
  <2>3. Good(kernel, d) /\ d.cpu.prio = Low /\ Conserves(s, d)
    BY <2>2, DropKeeps, DropConserves
  <2>4. d.irqs = s.irqs /\ d.pendingTimer = s.pendingTimer
    BY DEF Drop, Good, Processor
  <2> HIDE DEF d
  <2>5. Conserves(d, TakeTimerNow(d))
    BY <1>1, <2>3, <2>4, TakeTimerNowConserves DEF TimerReady
  <2>6. Conserves(s, TakeTimerNow(d))
    BY <2>3, <2>5, AddsThen DEF Conserves
  <2> QED BY <2>6 DEF d
<1>7. ~below => Conserves(s, TakeTimerNow(s))
  BY <1>1, TakeTimerNowConserves DEF TimerReady
<1> HIDE DEF t
<1> QED BY <1>2, <1>4, <1>5, <1>6, <1>7

\* The poll loses nobody.
LEMMA PollConserves ==
  ASSUME NEW s, Good(kernel, s)
  PROVE  Conserves(s, pollTimers(s))
<1> DEFINE t == releaseTimers(s)
<1>1. Good(kernel, t) /\ Conserves(s, t)
  BY ReleaseKeeps, ReleaseConserves
<1>2. \/ pollTimers(s) = s \/ pollTimers(s) = t
      \/ /\ ~HandlersActive(t) /\ pollTimers(s) = TakeDeferred(t)
         /\ t.pendingLow # <<>> /\ LowMayTrap(t)
      \/ ~HandlersActive(t) /\ pollTimers(s) = TakeTimer(t) /\ t.pendingTimer # NoProc
      \/ pollTimers(s) = dispatchProcess(t)
  <2>1. s.error \in {"none", "TRAP_REENTRY"}
    BY DEF Good, Processor
  <2> QED BY <2>1 DEF pollTimers
<1> HIDE DEF t
<1>3. ASSUME NEW u, Conserves(t, u) PROVE Conserves(s, u)
  BY <1>1, <1>3, AddsThen DEF Conserves
<1>4. Conserves(s, s)
  BY StaysConserves DEF Good
<1> QED BY <1>1, <1>2, <1>3, <1>4, TakeDeferredConserves, TakeTimerConserves, DispatchConserves

-----------------------------------------------------------------------------
\* The instructions.  As long as no trap has gone wrong, every process has one place.
Placed(s) == s.error = "none" => \A q \in Proc : Places(s, q) = 1

\* An operation that conserves keeps every process in one place.
LEMMA PlacedAfter ==
  ASSUME NEW s, NEW t, Placed(s), Conserves(s, t)
  PROVE  Placed(t)
<1>1. SUFFICES ASSUME t.error = "none", NEW q \in Proc PROVE Places(t, q) = 1
  BY DEF Placed
<1>2. Places(t, q) = Places(s, q) + One(q = NoProc) /\ s.error = "none"
  BY <1>1 DEF Conserves, Adds
<1>3. Places(s, q) = 1 /\ One(q = NoProc) = 0
  BY <1>2, NotOfProgram DEF Placed
<1> QED BY <1>2, <1>3

\* A sleeper that is due is in the list of those.
LEMMA OversleptConserves ==
  ASSUME NEW s, Good(kernel, s), NEW x \in s.asleep
  PROVE  Conserves(s, Overslept(s, x))
<1> DEFINE t == Overslept(s, x)
           p == PriorityOf(x)
           a == Append(s.late[p], x)
           y == s.asleep \ {x}
<1>1. s \in Processor /\ x \in Proc /\ p \in Priority
  BY LowIsLow DEF Good, Processor
<1>2. s.late[p] \in Seq(Proc) /\ s.late \in [Priority -> Seq(Proc)]
  BY <1>1 DEF Processor
<1>3. t \in Processor /\ SameHandlers(s, t) /\ SameBanks(s, t)
  BY <1>1, OversleptKeeps DEF Good
<1>4. t = [s EXCEPT !.asleep = y, !.late[p] = a]
  BY <1>1 DEF Overslept, Processor
<1> HIDE DEF t, a, p, y
<1>5. /\ t.queue = s.queue /\ t.late = [s.late EXCEPT ![p] = a] /\ t.asleep = y
      /\ t.pendingTimer = s.pendingTimer /\ t.waiters = s.waiters
      /\ t.channel = s.channel /\ t.tasks = s.tasks /\ t.stopped = s.stopped
  BY <1>1, <1>4 DEF Processor
<1>6. ASSUME NEW q \in Proc PROVE Listed(t, q) = Listed(s, q) + One(q = NoProc)
  <2> DEFINE e == One(x \in {q})
             z == One(s.pendingTimer = q)
             o == One(q \in s.channel) + One(q \in s.tasks) + One(q \in s.stopped)
  <2>1. InLate(t, q) = InLate(s, q) + e
    <3>1. Number(a, {q}) = Number(s.late[p], {q}) + e
      BY <1>1, <1>2, NumberAppend DEF a
    <3>2. CASE PriorityOf(q) = p
      BY <1>1, <1>2, <1>5, <3>1, <3>2 DEF InLate
    <3>3. CASE PriorityOf(q) # p
      <4>1. e = 0
        BY <3>3 DEF One, p
      <4>2. t.late[PriorityOf(q)] = s.late[PriorityOf(q)]
        BY <1>2, <1>5, <3>3, LowIsLow
      <4>3. Counted(s, q)
        BY <1>1, PlacesAre
      <4> HIDE DEF e
      <4> QED BY <4>1, <4>2, <4>3 DEF InLate, Counted
    <3> QED BY <3>2, <3>3
  <2>2. One(q \in s.asleep) = One(q \in t.asleep) + e /\ One(q \in t.asleep) \in Nat /\ e \in Nat
    BY <1>5 DEF One, y
  <2>3. o \in Nat /\ z \in Nat
    BY DEF One
  <2>4. Outside(s, q) = One(q \in s.asleep) + o /\ Outside(t, q) = One(q \in t.asleep) + o
    <3>1. /\ One(q \in s.asleep) \in Nat /\ One(q \in t.asleep) \in Nat /\ One(q \in s.channel) \in Nat
          /\ One(q \in s.tasks) \in Nat /\ One(q \in s.stopped) \in Nat
      BY DEF One
    <3> QED BY <1>5, <3>1 DEF Outside
  <2>5. Counted(s, q)
    BY <1>1, PlacesAre
  <2>6. InReady(s, q) \in Nat /\ InLate(s, q) \in Nat /\ InWaiters(s, q) \in Nat
    BY <2>5 DEF Counted
  <2>7. Listed(s, q) = InReady(s, q) + InLate(s, q) + InWaiters(s, q) + z + Outside(s, q)
        /\ Listed(t, q) = InReady(s, q) + InLate(t, q) + InWaiters(s, q) + z + Outside(t, q)
    BY <1>5 DEF Listed, InReady, InWaiters
  <2>8. One(q = NoProc) = 0
    BY NotOfProgram
  <2> HIDE DEF e, z, o
  <2> QED BY <2>1, <2>2, <2>3, <2>4, <2>6, <2>7, <2>8
<1>7. Conserves(s, t)
  BY <1>1, <1>3, <1>6, ListsAdd DEF Conserves
<1> QED BY <1>7 DEF t

\* The end of an instruction.
LEMMA FinishPlaced ==
  ASSUME NEW s, Good(kernel, s), Placed(s), Finish(s)
  PROVE  Placed(m')
<1>1. PICK q \in s.asleep \union {NoProc} :
        m' = IF q = NoProc THEN pollTimers(s) ELSE pollTimers(Overslept(s, q))
  BY DEF Finish, Overslept
<1>2. CASE q = NoProc
  <2>1. Placed(pollTimers(s))
    BY PollConserves, PlacedAfter
  <2> QED BY <1>1, <1>2, <2>1
<1>3. CASE q # NoProc
  <2> DEFINE t == Overslept(s, q)
  <2>1. q \in s.asleep /\ q \in Proc
    BY <1>1, <1>3 DEF Good, Processor
  <2>2. Good(kernel, t) /\ Conserves(s, t)
    BY <2>1, OversleptKeeps, OversleptConserves
  <2> HIDE DEF t
  <2>3. Placed(pollTimers(t))
    BY <2>2, PollConserves, PlacedAfter
  <2> QED BY <1>1, <1>3, <2>3 DEF t
<1> QED BY <1>2, <1>3

\* A process that runs, or is in the hands of a handler, is in no list.
LEMMA InNoList ==
  ASSUME NEW s, Good(kernel, s), Placed(s), s.error = "none", NEW x \in Proc,
         InBanks(s, x) > 0 \/ Held(s, x) > 0
  PROVE  x \notin s.asleep /\ x \notin s.channel /\ x \notin s.tasks /\ x \notin s.stopped
<1>1. s \in Processor
  BY DEF Good
<1>2. /\ Total(s, x) = Listed(s, x) + InBanks(s, x) + Held(s, x)
      /\ Listed(s, x) \in Nat /\ InBanks(s, x) \in Nat /\ Held(s, x) \in Nat
  BY <1>1, TotalIs
<1>3. Counted(s, x)
  BY <1>1, PlacesAre
<1>4. Total(s, x) = 1
  BY <1>3 DEF Counted, Total, Placed
<1>5. Listed(s, x) = 0
  BY <1>2, <1>4
<1> DEFINE y == One(s.pendingTimer = x)
           a == One(x \in s.asleep)
           b == One(x \in s.channel)
           c == One(x \in s.tasks)
           d == One(x \in s.stopped)
<1>6. a \in Nat /\ b \in Nat /\ c \in Nat /\ d \in Nat /\ y \in Nat
  BY DEF One
<1>7. InReady(s, x) \in Nat /\ InLate(s, x) \in Nat /\ InWaiters(s, x) \in Nat
  BY <1>3 DEF Counted
<1>8. InReady(s, x) + InLate(s, x) + InWaiters(s, x) + y + (a + b + c + d) = 0
  BY <1>5 DEF Listed, Outside
<1>9. a = 0 /\ b = 0 /\ c = 0 /\ d = 0
  <2> HIDE DEF a, b, c, d, y
  <2> QED BY <1>6, <1>7, <1>8
<1> QED BY <1>9 DEF One

\* The process that executes is in no list.
LEMMA CurrentInNoList ==
  ASSUME Good(kernel, m), Placed(m), Executing
  PROVE  /\ Current \in Proc /\ Current \notin m.asleep /\ Current \notin m.channel
         /\ Current \notin m.tasks /\ Current \notin m.stopped
<1>1. Current \in Proc /\ m.cpu.running /\ m.error = "none"
  BY ProgramExecutes
<1> DEFINE e == One(m.shadowValid /\ m.shadow.wptr = Current)
<1>2. InBanks(m, Current) = 1 + e /\ e \in Nat
  BY <1>1 DEF InBanks, One, Current
<1>3. InBanks(m, Current) > 0
  <2> HIDE DEF e
  <2> QED BY <1>2
<1> QED BY <1>1, <1>3, InNoList

\* The executing process is put somewhere, and suspended.
LEMMA PutPlaced ==
  ASSUME Good(kernel, m), Placed(m), Executing, NEW s \in Processor, SameHandlers(m, s),
         SameBanks(m, s), s.queue = m.queue, s.late = m.late,
         \A q \in Proc : Listed(s, q) = Listed(m, q) + One(q = Current)
  PROVE  Good(kernel, suspendProcess(s)) /\ Placed(suspendProcess(s))
<1> DEFINE t == suspendProcess(s)
           c == [s.cpu EXCEPT !.running = FALSE, !.intdis = FALSE, !.valid = FALSE]
<1>1. Good(kernel, t)
  BY PutKeeps
<1>2. s.cpu \in Bank /\ c \in Bank
  BY DEF Processor, Bank
<1>3. t = [s EXCEPT !.cpu = c]
  BY <1>2 DEF suspendProcess, Processor, Bank
<1>4. Current \in Proc /\ m.cpu.running /\ m.cpu.wptr = Current /\ m \in Processor
  BY ProgramExecutes DEF Current, Good
<1>5. ~c.running
  BY <1>2 DEF Bank
<1> HIDE DEF t, c
<1>6. /\ SameHandlers(m, t) /\ SameOutside(s, t) /\ t.cpu = c
      /\ t.shadow = m.shadow /\ t.shadowValid = m.shadowValid /\ t \in Processor
  BY <1>1, <1>3 DEF SameHandlers, SameBanks, SameOutside, Processor, Good
<1>7. ASSUME NEW q \in Proc PROVE Total(t, q) = Total(m, q) + One(q = NoProc)
  <2> DEFINE e == One(q = Current)
             a == One(m.shadowValid /\ m.shadow.wptr = q)
  <2>1. InBanks(m, q) = e + a /\ InBanks(t, q) = 0 + a /\ e \in Nat /\ a \in Nat
    BY <1>4, <1>5, <1>6 DEF InBanks, One
  <2>2. Listed(t, q) = Listed(m, q) + e
    BY <1>6, SameListed
  <2>3. Held(t, q) = Held(m, q)
    BY <1>6, SameHeld
  <2>4. /\ Total(m, q) = Listed(m, q) + InBanks(m, q) + Held(m, q)
        /\ Listed(m, q) \in Nat /\ InBanks(m, q) \in Nat /\ Held(m, q) \in Nat
    BY <1>4, TotalIs
  <2>5. Total(t, q) = Listed(t, q) + InBanks(t, q) + Held(t, q)
    BY <1>6, TotalIs
  <2>6. One(q = NoProc) = 0
    BY NotOfProgram
  <2> HIDE DEF e, a
  <2> QED BY <2>1, <2>2, <2>3, <2>4, <2>5, <2>6
<1>8. Conserves(m, t)
  BY <1>4, <1>6, <1>7, TotalAdds DEF Conserves, SameHandlers
<1>9. Placed(t)
  BY <1>8, PlacedAfter
<1> QED BY <1>1, <1>9 DEF t

\* A process joins one of the sets of those that wait, or are in nobody's hands.
Joins(s, t, x) ==
  /\ t.queue = s.queue /\ t.late = s.late /\ t.waiters = s.waiters
  /\ t.pendingTimer = s.pendingTimer
  /\ \/ /\ t.asleep = s.asleep \union {x} /\ x \notin s.asleep
        /\ t.channel = s.channel /\ t.tasks = s.tasks /\ t.stopped = s.stopped
     \/ /\ t.channel = s.channel \union {x} /\ x \notin s.channel
        /\ t.asleep = s.asleep /\ t.tasks = s.tasks /\ t.stopped = s.stopped
     \/ /\ t.tasks = s.tasks \union {x} /\ x \notin s.tasks
        /\ t.asleep = s.asleep /\ t.channel = s.channel /\ t.stopped = s.stopped
     \/ /\ t.stopped = s.stopped \union {x} /\ x \notin s.stopped
        /\ t.asleep = s.asleep /\ t.channel = s.channel /\ t.tasks = s.tasks

\* Joining a list adds one to the places of the process.
LEMMA JoinsAdds ==
  ASSUME NEW s \in Processor, NEW t, NEW x, Joins(s, t, x), NEW q \in Proc
  PROVE  Listed(t, q) = Listed(s, q) + One(q = x)
<1> DEFINE a == One(q \in s.asleep)
           b == One(q \in s.channel)
           c == One(q \in s.tasks)
           d == One(q \in s.stopped)
           a2 == One(q \in t.asleep)
           b2 == One(q \in t.channel)
           c2 == One(q \in t.tasks)
           d2 == One(q \in t.stopped)
           e == One(q = x)
           y == One(s.pendingTimer = q)
<1>1. a \in Nat /\ b \in Nat /\ c \in Nat /\ d \in Nat /\ e \in Nat /\ y \in Nat
  BY DEF One
<1>2. \/ a2 = a + e /\ b2 = b /\ c2 = c /\ d2 = d
      \/ a2 = a /\ b2 = b + e /\ c2 = c /\ d2 = d
      \/ a2 = a /\ b2 = b /\ c2 = c + e /\ d2 = d
      \/ a2 = a /\ b2 = b /\ c2 = c /\ d2 = d + e
  BY DEF Joins, One
<1>3. Outside(s, q) = a + b + c + d /\ Outside(t, q) = a2 + b2 + c2 + d2
  BY DEF Outside
<1>4. Listed(s, q) = InReady(s, q) + InLate(s, q) + InWaiters(s, q) + y + Outside(s, q)
      /\ Listed(t, q) = InReady(s, q) + InLate(s, q) + InWaiters(s, q) + y + Outside(t, q)
  BY DEF Joins, Listed, InReady, InLate, InWaiters
<1>5. Counted(s, q)
  BY PlacesAre
<1>6. InReady(s, q) \in Nat /\ InLate(s, q) \in Nat /\ InWaiters(s, q) \in Nat
  BY <1>5 DEF Counted
<1>7. Outside(t, q) = Outside(s, q) + e /\ Outside(s, q) \in Nat
  <2> HIDE DEF a, b, c, d, e, a2, b2, c2, d2
  <2> QED BY <1>1, <1>2, <1>3
<1>8. Listed(t, q) = Listed(s, q) + e
  <2> HIDE DEF y, e
  <2> QED BY <1>1, <1>4, <1>6, <1>7
<1> QED BY <1>8

\* A process that was taken from one place becomes ready.
LEMMA WakesPlaced ==
  ASSUME Placed(m), NEW s, Good(kernel, s), s.error = m.error, NEW x \in Proc, Adds(s, m, x),
         NEW cause \in Causes, cause # "PROCESS", MayRequest(s, cause, PriorityOf(x), x)
  PROVE  Good(kernel, TrapOrEnqueue(s, cause, x)) /\ Placed(TrapOrEnqueue(s, cause, x))
<1> DEFINE v == TrapOrEnqueue(s, cause, x)
<1>1. Good(kernel, v) /\ Adds(s, v, x)
  BY TrapOrEnqueueKeeps, TrapOrEnqueueAdds
<1> HIDE DEF v
<1>2. v.error = "none" => m.error = "none"
  BY <1>1 DEF Adds
<1>3. Conserves(m, v)
  BY <1>1, <1>2, AddsBack
<1>4. Placed(v)
  BY <1>3, PlacedAfter
<1> QED BY <1>1, <1>4 DEF v

\* runp and startp.
LEMMA RunPlaced ==
  ASSUME Good(kernel, m), Placed(m), NEW q \in Proc, Run(q)
  PROVE  Placed(m')
<1> DEFINE s == [m EXCEPT !.stopped = @ \ {q}]
<1>1. s \in Processor /\ SameHandlers(m, s) /\ SameHandlers(s, m) /\ SameBanks(m, s)
      /\ SameBanks(s, m) /\ s.queue = m.queue /\ s.late = m.late
  BY DEF Good, Processor, SameHandlers, SameBanks
<1>2. Finish(TrapOrEnqueue(s, "RUN", q)) /\ q \in m.stopped
  BY DEF Run
<1>3. Joins(s, m, q)
  BY <1>2 DEF Good, Processor, Joins
<1> HIDE DEF s
<1>4. Good(kernel, s) /\ s.error = m.error
  BY <1>1, OutsideKeeps DEF SameHandlers
<1>5. MayRequest(s, "RUN", PriorityOf(q), q) /\ "RUN" \in Causes /\ "RUN" # "PROCESS"
  BY LowIsLow DEF MayRequest, Causes
<1>6. Adds(s, m, q)
  BY <1>1, <1>3, JoinsAdds, ListsAdd DEF Good
<1>7. Good(kernel, TrapOrEnqueue(s, "RUN", q)) /\ Placed(TrapOrEnqueue(s, "RUN", q))
  BY <1>4, <1>5, <1>6, WakesPlaced
<1> QED BY <1>2, <1>7, FinishPlaced

\* in or out with a partner that waits.
LEMMA CommunicatePlaced ==
  ASSUME Good(kernel, m), Placed(m), NEW q \in Proc, Communicate(q)
  PROVE  Placed(m')
<1> DEFINE s == [m EXCEPT !.channel = @ \ {q}]
<1>1. s \in Processor /\ SameHandlers(m, s) /\ SameHandlers(s, m) /\ SameBanks(m, s)
      /\ SameBanks(s, m) /\ s.queue = m.queue /\ s.late = m.late
  BY DEF Good, Processor, SameHandlers, SameBanks
<1>2. Finish(TrapOrEnqueue(s, "INTERNALCH", q)) /\ q \in m.channel /\ Executing
  BY DEF Communicate
<1>3. Joins(s, m, q)
  BY <1>2 DEF Good, Processor, Joins
<1> HIDE DEF s
<1>4. Good(kernel, s) /\ s.error = m.error
  BY <1>1, OutsideKeeps DEF SameHandlers
<1>5. MayRequest(s, "INTERNALCH", PriorityOf(q), q) /\ "INTERNALCH" \in Causes
      /\ "INTERNALCH" # "PROCESS"
  <2>1. s.irqs = <<>>
    BY <1>1, <1>2, ProgramExecutes, NoHandlers DEF SameHandlers
  <2> QED BY <2>1 DEF MayRequest, Causes
<1>6. Adds(s, m, q)
  BY <1>1, <1>3, JoinsAdds, ListsAdd DEF Good
<1>7. Good(kernel, TrapOrEnqueue(s, "INTERNALCH", q)) /\ Placed(TrapOrEnqueue(s, "INTERNALCH", q))
  BY <1>4, <1>5, <1>6, WakesPlaced
<1> QED BY <1>2, <1>7, FinishPlaced

\* A process stops, sleeps or waits in a channel.
LEMMA StopPlaced ==
  ASSUME Good(kernel, m), Placed(m), Stop \/ Sleep \/ AwaitChannel
  PROVE  Placed(m')
<1>1. Executing
  BY DEF Stop, Sleep, AwaitChannel
<1>2. /\ Current \in Proc /\ Current \notin m.asleep /\ Current \notin m.channel
      /\ Current \notin m.stopped /\ m \in Processor
  BY <1>1, CurrentInNoList DEF Good
<1>3. PICK s \in {[m EXCEPT !.stopped = @ \union {Current}], [m EXCEPT !.asleep = @ \union {Current}],
                  [m EXCEPT !.channel = @ \union {Current}]} : Finish(suspendProcess(s))
  BY DEF Stop, Sleep, AwaitChannel
<1>4. s \in Processor /\ SameHandlers(m, s) /\ SameBanks(m, s) /\ s.queue = m.queue
      /\ s.late = m.late
  <2> DEFINE a == m.stopped \union {Current}
             b == m.asleep \union {Current}
             c == m.channel \union {Current}
  <2>1. a \in SUBSET Proc /\ b \in SUBSET Proc /\ c \in SUBSET Proc
    BY <1>2 DEF Processor
  <2>2. s = [m EXCEPT !.stopped = a] \/ s = [m EXCEPT !.asleep = b] \/ s = [m EXCEPT !.channel = c]
    BY <1>3
  <2> HIDE DEF a, b, c
  <2>3. CASE s = [m EXCEPT !.stopped = a]
    BY <1>2, <2>1, <2>3 DEF Processor, SameHandlers, SameBanks
  <2>4. CASE s = [m EXCEPT !.asleep = b]
    BY <1>2, <2>1, <2>4 DEF Processor, SameHandlers, SameBanks
  <2>5. CASE s = [m EXCEPT !.channel = c]
    BY <1>2, <2>1, <2>5 DEF Processor, SameHandlers, SameBanks
  <2> QED BY <2>2, <2>3, <2>4, <2>5
<1>5. Joins(m, s, Current)
  BY <1>2, <1>3 DEF Processor, Joins
<1>6. \A q \in Proc : Listed(s, q) = Listed(m, q) + One(q = Current)
  BY <1>2, <1>5, JoinsAdds
<1>7. Good(kernel, suspendProcess(s)) /\ Placed(suspendProcess(s))
  BY <1>1, <1>4, <1>6, PutPlaced
<1> QED BY <1>3, <1>7, FinishPlaced

\* Nothing moves in the lists, or in the hands of the handlers.
LEMMA NothingMoves ==
  ASSUME Good(kernel, m), Placed(m), NEW s \in Processor, SameHandlers(m, s), SameOutside(m, s),
         s.shadow = m.shadow, s.shadowValid = m.shadowValid, s.cpu.wptr = m.cpu.wptr,
         s.cpu.running = m.cpu.running
  PROVE  Placed(s)
<1>1. \A q \in Proc : InBanks(s, q) = InBanks(m, q)
  BY DEF InBanks
<1>2. Conserves(m, s)
  BY <1>1, BanksConserve DEF Good
<1> QED BY <1>2, PlacedAfter

\* A process takes the semaphore, or queues for it.
LEMMA WaitPlaced ==
  ASSUME Good(kernel, m), Placed(m), Wait
  PROVE  Placed(m')
<1>1. Executing /\ Current \in Proc /\ m \in Processor
  BY DEF Wait, Executing, Good
<1>2. CASE m.count # 0
  <2> DEFINE c == m.count - 1
             s == [m EXCEPT !.count = c]
  <2>1. c \in 0 .. MaxCount
    <3>1. m.count \in 0 .. MaxCount /\ MaxCount \in Nat
      BY <1>1, TrapsAssumption DEF Processor
    <3> QED BY <1>2, <3>1
  <2>2. Finish(s)
    BY <1>2 DEF Wait
  <2> HIDE DEF c
  <2>3. s \in Processor /\ SameHandlers(m, s) /\ SameBanks(m, s) /\ SameOutside(m, s)
    BY <1>1, <2>1 DEF Processor, SameHandlers, SameBanks, SameOutside
  <2> HIDE DEF s
  <2>4. Good(kernel, s) /\ Placed(s)
    BY <2>3, OutsideKeeps, NothingMoves DEF SameOutside, SameBanks
  <2> QED BY <2>2, <2>4, FinishPlaced
<1>3. CASE m.count = 0
  <2> DEFINE w == Append(m.waiters, Current)
             s == [m EXCEPT !.waiters = w]
  <2>1. w \in Seq(Proc) /\ m.waiters \in Seq(Proc)
    BY <1>1, AppendProperties DEF Processor
  <2>2. Finish(suspendProcess(s))
    BY <1>3 DEF Wait
  <2>3. \A q : Number(w, {q}) = Number(m.waiters, {q}) + One(Current \in {q})
    BY <1>1, <2>1, NumberAppend
  <2> HIDE DEF w
  <2>4. s \in Processor /\ SameHandlers(m, s) /\ SameBanks(m, s) /\ s.queue = m.queue
        /\ s.late = m.late /\ s.waiters = w /\ s.pendingTimer = m.pendingTimer
        /\ s.asleep = m.asleep /\ s.channel = m.channel /\ s.tasks = m.tasks
        /\ s.stopped = m.stopped
    BY <1>1, <2>1 DEF Processor, SameHandlers, SameBanks
  <2> HIDE DEF s
  <2>5. ASSUME NEW q \in Proc PROVE Listed(s, q) = Listed(m, q) + One(q = Current)
    <3> DEFINE e == One(q = Current)
               y == One(m.pendingTimer = q)
    <3>1. InWaiters(s, q) = InWaiters(m, q) + e
      <4>1. One(Current \in {q}) = e
        BY DEF One
      <4> QED BY <2>3, <2>4, <4>1 DEF InWaiters
    <3>2. Listed(s, q) = InReady(m, q) + InLate(m, q) + InWaiters(s, q) + y + Outside(m, q)
          /\ Listed(m, q) = InReady(m, q) + InLate(m, q) + InWaiters(m, q) + y + Outside(m, q)
      BY <2>4 DEF Listed, InReady, InLate, Outside
    <3>3. Counted(m, q)
      BY <1>1, PlacesAre
    <3>4. /\ InReady(m, q) \in Nat /\ InLate(m, q) \in Nat /\ InWaiters(m, q) \in Nat
          /\ Outside(m, q) \in Nat /\ y \in Nat /\ e \in Nat
      BY <3>3 DEF Counted, One
    <3> HIDE DEF y, e
    <3>5. Listed(s, q) = Listed(m, q) + e
      BY <3>1, <3>2, <3>4
    <3> QED BY <3>5 DEF e
  <2>6. Good(kernel, suspendProcess(s)) /\ Placed(suspendProcess(s))
    BY <1>1, <2>4, <2>5, PutPlaced
  <2> QED BY <2>2, <2>6, FinishPlaced
<1> QED BY <1>2, <1>3

\* signalSemaphore, by the program or by an interrupt handler.
LEMMA SignalPlaced ==
  ASSUME Good(kernel, m), Placed(m), Signal \/ InterruptSignal
  PROVE  Placed(m')
<1>1. MaySignal /\ Finish(signalSemaphore(m))
  BY DEF Signal, InterruptSignal
<1>2. m \in Processor /\ m.waiters \in Seq(Proc)
  BY DEF Good, Processor
<1>3. Good(kernel, signalSemaphore(m))
  BY <1>1, SignalSemaphoreKeeps
<1>4. CASE m.waiters = <<>>
  <2> DEFINE c == m.count + 1
             s == [m EXCEPT !.count = c]
  <2>1. signalSemaphore(m) = s
    BY <1>4 DEF signalSemaphore
  <2> HIDE DEF c
  <2>2. SameHandlers(m, s) /\ SameBanks(m, s) /\ SameOutside(m, s)
    BY <1>2 DEF Processor, SameHandlers, SameBanks, SameOutside
  <2> HIDE DEF s
  <2>3. Placed(s)
    BY <1>3, <2>1, <2>2, NothingMoves DEF SameBanks, Good
  <2> QED BY <1>1, <1>3, <2>1, <2>3, FinishPlaced
<1>5. CASE m.waiters # <<>>
  <2> DEFINE w == Tail(m.waiters)
             x == Head(m.waiters)
             s == [m EXCEPT !.waiters = w]
  <2>1. w \in Seq(Proc) /\ x \in Proc
        /\ \A q : Number(m.waiters, {q}) = One(x \in {q}) + Number(w, {q})
    BY <1>2, <1>5, NumberTail
  <2>2. signalSemaphore(m) = TrapOrEnqueue(s, "SIGNAL", x)
    BY <1>5 DEF signalSemaphore
  <2> HIDE DEF w, x
  <2>3. s \in Processor /\ SameHandlers(m, s) /\ SameBanks(m, s) /\ s.queue = m.queue
        /\ s.late = m.late /\ s.waiters = w /\ s.pendingTimer = m.pendingTimer
        /\ s.asleep = m.asleep /\ s.channel = m.channel /\ s.tasks = m.tasks
        /\ s.stopped = m.stopped /\ SameHandlers(s, m) /\ SameBanks(s, m)
    BY <1>2, <2>1 DEF Processor, SameHandlers, SameBanks
  <2> HIDE DEF s
  <2>4. Good(kernel, s) /\ MayRequest(s, "SIGNAL", PriorityOf(x), x) /\ "SIGNAL" \in Causes
        /\ "SIGNAL" # "PROCESS" /\ s.error = m.error
    BY <2>1, <2>3, OutsideKeeps, LowIsLow DEF MayRequest, SameHandlers, Causes
  <2>5. ASSUME NEW q \in Proc PROVE Listed(m, q) = Listed(s, q) + One(q = x)
    <3> DEFINE e == One(q = x)
               y == One(m.pendingTimer = q)
    <3>1. InWaiters(m, q) = e + InWaiters(s, q)
      <4>1. One(x \in {q}) = e
        BY DEF One
      <4> QED BY <2>1, <2>3, <4>1 DEF InWaiters
    <3>2. Listed(s, q) = InReady(m, q) + InLate(m, q) + InWaiters(s, q) + y + Outside(m, q)
          /\ Listed(m, q) = InReady(m, q) + InLate(m, q) + InWaiters(m, q) + y + Outside(m, q)
      BY <2>3 DEF Listed, InReady, InLate, Outside
    <3>3. Counted(m, q) /\ Counted(s, q)
      BY <1>2, <2>3, PlacesAre
    <3>4. /\ InReady(m, q) \in Nat /\ InLate(m, q) \in Nat /\ InWaiters(s, q) \in Nat
          /\ Outside(m, q) \in Nat /\ y \in Nat /\ e \in Nat
      BY <3>3 DEF Counted, One
    <3> HIDE DEF y, e
    <3>5. Listed(m, q) = Listed(s, q) + e
      BY <3>1, <3>2, <3>4
    <3> QED BY <3>5 DEF e
  <2>6. Adds(s, m, x)
    BY <1>2, <2>3, <2>5, ListsAdd
  <2>7. Placed(TrapOrEnqueue(s, "SIGNAL", x))
    BY <2>1, <2>4, <2>6, WakesPlaced
  <2> QED BY <1>1, <1>3, <2>2, <2>7, FinishPlaced
<1> QED BY <1>4, <1>5

\* The sums are the same.
LEMMA SameTotals ==
  ASSUME Good(kernel, m), Placed(m), NEW t, Good(kernel, t), t.error = m.error,
         \A q \in Proc : Total(t, q) = Total(m, q)
  PROVE  Placed(t)
<1>1. SUFFICES ASSUME t.error = "none", NEW q \in Proc PROVE Places(t, q) = 1
  BY DEF Placed
<1>2. m \in Processor /\ t \in Processor
  BY DEF Good
<1>3. Counted(m, q) /\ Counted(t, q)
  BY <1>2, PlacesAre
<1>4. Places(t, q) = Total(t, q) /\ Places(m, q) = Total(m, q)
  BY <1>3 DEF Counted, Total
<1>5. Places(m, q) = 1
  BY <1>1 DEF Placed
<1> QED BY <1>4, <1>5

\* A timeslice: the process goes to the back of its queue, or to the kernel.
LEMMA TimeslicePlaced ==
  ASSUME Good(kernel, m), Placed(m), Timeslice
  PROVE  Placed(m')
<1> DEFINE x == Current
           p == m.cpu.prio
           c == [m.cpu EXCEPT !.running = FALSE, !.intdis = FALSE]
           s == [m EXCEPT !.cpu = c]
<1>1. /\ Executing /\ x \in Proc /\ m \in Processor /\ m.cpu \in Bank /\ p \in Priority
      /\ ~HandlersActive(m) /\ m.cpu.running /\ m.irqs = <<>> /\ m.cpu.wptr = x
  <2>1. Executing
    BY DEF Timeslice
  <2>2. m \in Processor /\ m.cpu \in Bank
    BY DEF Good, Processor
  <2>3. x \in Proc /\ ~HandlersActive(m) /\ m.cpu.running
    BY <2>1, ProgramExecutes
  <2>4. m.irqs = <<>>
    BY <2>3, NoHandlers
  <2> QED BY <2>1, <2>2, <2>3, <2>4 DEF Bank, Current
<1>2. IF "TIMESLICE" \in m.mask[p] THEN Finish(requestTrap(s, "TIMESLICE", p, x))
      ELSE Finish(enqueueProcess(s, x))
  <2>1. s = [m EXCEPT !.cpu.running = FALSE, !.cpu.intdis = FALSE]
    BY <1>1 DEF Processor, Bank
  <2> QED BY <2>1 DEF Timeslice
<1>3. c \in Bank /\ c.wptr = m.cpu.wptr /\ c.prio = m.cpu.prio /\ ~c.running
  BY <1>1 DEF Bank
<1> HIDE DEF c
<1>4. /\ s \in Processor /\ SameHandlers(m, s) /\ s.queue = m.queue /\ s.late = m.late
      /\ s.shadow = m.shadow /\ s.shadowValid = m.shadowValid /\ s.cpu = c /\ SameOutside(m, s)
  BY <1>1, <1>3 DEF Processor, SameHandlers, SameOutside
<1> HIDE DEF s
<1>5. Good(kernel, s)
  BY <1>1, <1>3, <1>4, ProgramBank DEF Current
<1>6. s.irqs = <<>> /\ s.cpu.prio = p /\ s.mask = m.mask /\ s.error = m.error
  BY <1>1, <1>3, <1>4 DEF SameHandlers
<1> HIDE DEF x, p
<1>7. MayRequest(s, "TIMESLICE", p, x) /\ "TIMESLICE" \in Causes /\ Carried("TIMESLICE", x) = x
  BY <1>6 DEF MayRequest, Causes, Carried
<1>8. ASSUME NEW q \in Proc PROVE Total(m, q) = Total(s, q) + One(q = x)
  <2> DEFINE e == One(q = x)
             a == One(m.shadowValid /\ m.shadow.wptr = q)
  <2>1. InBanks(m, q) = e + a /\ InBanks(s, q) = 0 + a /\ e \in Nat /\ a \in Nat
    BY <1>1, <1>3, <1>4 DEF InBanks, One
  <2>2. Listed(s, q) = Listed(m, q) /\ Held(s, q) = Held(m, q)
    BY <1>4, SameListed, SameHeld
  <2>3. /\ Total(m, q) = Listed(m, q) + InBanks(m, q) + Held(m, q)
        /\ Listed(m, q) \in Nat /\ InBanks(m, q) \in Nat /\ Held(m, q) \in Nat
    BY <1>1, TotalIs
  <2>4. Total(s, q) = Listed(s, q) + InBanks(s, q) + Held(s, q)
    BY <1>4, TotalIs
  <2> HIDE DEF e, a
  <2>5. Total(m, q) = Total(s, q) + e
    BY <2>1, <2>2, <2>3, <2>4
  <2> QED BY <2>5 DEF e
<1>9. Adds(s, m, x)
  BY <1>1, <1>4, <1>6, <1>8, TotalAdds
<1>10. ASSUME NEW v, Good(kernel, v), Adds(s, v, x), Finish(v) PROVE Placed(m')
  <2>1. v.error = "none" => m.error = "none"
    BY <1>6, <1>10 DEF Adds
  <2>2. Conserves(m, v)
    BY <1>9, <1>10, <2>1, AddsBack
  <2>3. Placed(v)
    BY <2>2, PlacedAfter
  <2> QED BY <1>10, <2>3, FinishPlaced
<1>11. CASE "TIMESLICE" \in m.mask[p]
  <2> DEFINE v == requestTrap(s, "TIMESLICE", p, x)
  <2>1. Good(kernel, v)
    BY <1>1, <1>5, <1>7, RequestKeeps
  <2>2. Adds(s, v, Carried("TIMESLICE", x))
    BY <1>1, <1>5, <1>6, <1>7, <1>11, RequestAdds
  <2>3. Finish(v)
    BY <1>2, <1>11
  <2> HIDE DEF v
  <2> QED BY <1>7, <1>10, <2>1, <2>2, <2>3
<1>12. CASE "TIMESLICE" \notin m.mask[p]
  <2> DEFINE v == enqueueProcess(s, x)
  <2>1. Good(kernel, v) /\ Adds(s, v, x)
    BY <1>1, <1>5, EnqueueKeeps, EnqueueAdds
  <2>2. Finish(v)
    BY <1>2, <1>12
  <2> HIDE DEF v
  <2> QED BY <1>10, <2>1, <2>2
<1> QED BY <1>11, <1>12

\* Interrupts are disabled and enabled.
LEMMA IntDisablePlaced ==
  ASSUME Good(kernel, m), Placed(m), IntDis \/ IntEnb
  PROVE  Placed(m')
<1>1. Executing /\ \E b \in BOOLEAN : Finish([m EXCEPT !.cpu.intdis = b])
  BY DEF IntDis, IntEnb
<1>2. PICK b \in BOOLEAN : Finish([m EXCEPT !.cpu.intdis = b])
  BY <1>1
<1> DEFINE c == [m.cpu EXCEPT !.intdis = b]
           s == [m EXCEPT !.cpu = c]
<1>3. m \in Processor /\ m.cpu \in Bank
  BY DEF Good, Processor
<1>4. c \in Bank /\ c.wptr = m.cpu.wptr /\ c.prio = m.cpu.prio /\ c.running = m.cpu.running
  BY <1>3 DEF Bank
<1>5. Finish(s)
  BY <1>2, <1>3 DEF Processor, Bank
<1> HIDE DEF c
<1>6. /\ s \in Processor /\ SameHandlers(m, s) /\ s.queue = m.queue /\ s.late = m.late
      /\ s.shadow = m.shadow /\ s.shadowValid = m.shadowValid /\ s.cpu = c /\ SameOutside(m, s)
  BY <1>3, <1>4 DEF Processor, SameHandlers, SameOutside
<1> HIDE DEF s
<1>7. Good(kernel, s)
  BY <1>1, <1>4, <1>6, ProgramExecutes, ProgramBank DEF Current
<1>8. Placed(s)
  BY <1>4, <1>6, NothingMoves
<1> QED BY <1>5, <1>7, <1>8, FinishPlaced

\* The handlers hold the same, whatever the masks.
LEMMA SameFramesHold ==
  ASSUME NEW s, NEW t, t.frames = s.frames, t.irqs = s.irqs, t.record = s.record,
         t.word = s.word, t.pendingLow = s.pendingLow, NEW q
  PROVE  Held(t, q) = Held(s, q)
<1>1. FramesOf(t, q) = FramesOf(s, q)
  BY DEF FramesOf, InFrame, Resumes
<1>2. \A p : InWord(t, q, p) = InWord(s, q, p)
  BY DEF InWord
<1> QED BY <1>1, <1>2 DEF Held, InDeferred, InFrames, InIrqs, InWords

\* High priority disables traps of low priority.
LEMMA TrapDisablePlaced ==
  ASSUME kernel \in Kernels, Good(kernel, m), Placed(m), TrapDisable
  PROVE  Placed(m')
<1> DEFINE s == TrapsDisabled
<1>1. Good(kernel, s) /\ Finish(s) /\ m \in Processor /\ s \in Processor
  BY TrapDisableKeeps DEF Good
<1>2. /\ SameBanks(m, s) /\ SameOutside(m, s) /\ s.frames = m.frames /\ s.irqs = m.irqs
      /\ s.record = m.record /\ s.word = m.word /\ s.pendingLow = m.pendingLow
      /\ s.error = m.error
  BY <1>1 DEF TrapsDisabled, Processor, SameBanks, SameOutside
<1> HIDE DEF s
<1>3. ASSUME NEW q \in Proc PROVE Total(s, q) = Total(m, q)
  <2>1. Listed(s, q) = Listed(m, q) /\ InBanks(s, q) = InBanks(m, q) /\ Held(s, q) = Held(m, q)
    BY <1>2, SameListed, SameBanksHold, SameFramesHold
  <2>2. Total(m, q) = Listed(m, q) + InBanks(m, q) + Held(m, q)
    BY <1>1, TotalIs
  <2>3. Total(s, q) = Listed(s, q) + InBanks(s, q) + Held(s, q)
    BY <1>1, TotalIs
  <2> QED BY <2>1, <2>2, <2>3
<1>4. Placed(s)
  BY <1>1, <1>2, <1>3, SameTotals
<1> QED BY <1>1, <1>4, FinishPlaced

\* An idle processor goes on to the next deadline.
LEMMA AdvancePlaced ==
  ASSUME Good(kernel, m), Placed(m), Advance
  PROVE  Placed(m')
  BY FinishPlaced DEF Advance

\* A task is put at the front of the high priority queue.
LEMMA InsertQueuePlaced ==
  ASSUME Good(kernel, m), Placed(m), NEW p \in Priority, NEW x \in Proc, InsertQueue(p, x)
  PROVE  Placed(m')
<1> DEFINE s == Inserted(x)
           b == <<x>> \o m.queue[High]
<1>1. /\ Good(kernel, s) /\ Finish(s) /\ m \in Processor /\ s \in Processor
      /\ x \in m.tasks /\ PriorityOf(x) = High
  BY InsertQueueKeeps DEF Good, InsertQueue
<1>2. m.queue[High] \in Seq(Proc) /\ High \in Priority /\ m.queue \in [Priority -> Seq(Proc)]
      /\ m.tasks \in SUBSET Proc
  BY <1>1 DEF Processor, Priority
<1>3. s = [m EXCEPT !.tasks = m.tasks \ {x}, !.queue[High] = b, !.reported[High] = FALSE]
  BY <1>1 DEF Inserted, Processor
<1>4. \A q : Number(b, {q}) = One(x \in {q}) + Number(m.queue[High], {q})
  <2>1. <<x>> \in Seq(Proc) /\ \A q : Number(<<x>>, {q}) = One(x \in {q})
    BY NumberOfOne
  <2> DEFINE o == <<x>>
             r == m.queue[High]
  <2>2. o \in Seq(Proc) /\ r \in Seq(Proc)
    BY <1>2, <2>1
  <2> HIDE DEF o, r
  <2>3. \A q : Number(o \o r, {q}) = Number(o, {q}) + Number(r, {q})
    BY <2>2, NumberConcat
  <2> QED BY <2>1, <2>3 DEF o, r
<1> HIDE DEF s, b
<1>5. /\ SameHandlers(m, s) /\ SameBanks(m, s) /\ s.queue = [m.queue EXCEPT ![High] = b]
      /\ s.late = m.late /\ s.waiters = m.waiters /\ s.pendingTimer = m.pendingTimer
      /\ s.asleep = m.asleep /\ s.channel = m.channel /\ s.stopped = m.stopped
      /\ s.tasks = m.tasks \ {x} /\ s.error = m.error
  BY <1>1, <1>3 DEF Processor, SameHandlers, SameBanks
<1>6. ASSUME NEW q \in Proc PROVE Listed(s, q) = Listed(m, q) + One(q = NoProc)
  <2> DEFINE e == One(x \in {q})
             y == One(m.pendingTimer = q)
             o == One(q \in m.asleep) + One(q \in m.channel) + One(q \in m.stopped)
  <2>1. Counted(m, q)
    BY <1>1, PlacesAre
  <2>2. InReady(m, q) \in Nat /\ InLate(m, q) \in Nat /\ InWaiters(m, q) \in Nat
    BY <2>1 DEF Counted
  <2>3. InReady(s, q) = e + InReady(m, q)
    <3>1. CASE PriorityOf(q) = High
      <4>1. s.queue[PriorityOf(q)] = b
        BY <1>2, <1>5, <3>1
      <4> QED BY <1>4, <3>1, <4>1 DEF InReady
    <3>2. CASE PriorityOf(q) # High
      <4>1. e = 0
        BY <1>1, <3>2 DEF One
      <4>2. s.queue[PriorityOf(q)] = m.queue[PriorityOf(q)]
        BY <1>2, <1>5, <3>2, LowIsLow
      <4> HIDE DEF e
      <4> QED BY <2>2, <4>1, <4>2 DEF InReady
    <3> QED BY <3>1, <3>2
  <2>4. One(q \in m.tasks) = One(q \in s.tasks) + e /\ One(q \in s.tasks) \in Nat /\ e \in Nat
    BY <1>1, <1>5 DEF One
  <2>5. o \in Nat /\ y \in Nat
    BY DEF One
  <2>6. Outside(m, q) = o + One(q \in m.tasks) /\ Outside(s, q) = o + One(q \in s.tasks)
    <3>1. /\ One(q \in m.asleep) \in Nat /\ One(q \in m.channel) \in Nat
          /\ One(q \in m.tasks) \in Nat /\ One(q \in s.tasks) \in Nat /\ One(q \in m.stopped) \in Nat
      BY DEF One
    <3> QED BY <1>5, <3>1 DEF Outside
  <2>7. Listed(m, q) = InReady(m, q) + InLate(m, q) + InWaiters(m, q) + y + Outside(m, q)
        /\ Listed(s, q) = InReady(s, q) + InLate(m, q) + InWaiters(m, q) + y + Outside(s, q)
    BY <1>5 DEF Listed, InLate, InWaiters
  <2>8. One(q = NoProc) = 0
    BY NotOfProgram
  <2> HIDE DEF e, y, o
  <2> QED BY <2>2, <2>3, <2>4, <2>5, <2>6, <2>7, <2>8
<1>7. Placed(s)
  <2>1. Conserves(m, s)
    BY <1>1, <1>5, <1>6, ListsAdd DEF Conserves
  <2> QED BY <2>1, PlacedAfter
<1> QED BY <1>1, <1>7, FinishPlaced DEF s

\* The kernel takes the process it is told of.
LEMMA KeepPlaced ==
  ASSUME Good(kernel, m), Placed(m), NEW p \in Priority, Keep(p)
  PROVE  Placed(m')
<1> DEFINE s == Kept(p)
           x == m.word[p]
           f == Len(m.frames)
           cause == Last(m.frames).cause
<1>1. /\ Good(kernel, s) /\ Finish(s) /\ m \in Processor /\ s \in Processor
      /\ Handling(p) /\ x # NoProc /\ x \in Proc
  <2>1. Good(kernel, s) /\ Finish(s)
    BY KeepKeeps
  <2>2. m \in Processor /\ s \in Processor /\ Handling(p) /\ x # NoProc
    BY <2>1 DEF Good, Keep
  <2>3. x \in Proc
    BY <2>2 DEF Processor
  <2> QED BY <2>1, <2>2, <2>3
<1>2. OnFrame(m, p) /\ m.error = "none"
  BY <1>1, HandlerExecutes
<1>3. /\ f \in Nat /\ f \in 1 .. f /\ m.frames[f].prio = p /\ Last(m.frames) = m.frames[f]
      /\ \A i \in 1 .. f : i # f => m.frames[i].prio # p
      /\ DOMAIN m.frames = 1 .. f
  <2>1. f \in Nat /\ f \in 1 .. f /\ \A i \in 1 .. f : i # f => m.frames[i].prio # p
    BY <1>2, LastCaller
  <2>2. m.frames[f].prio = p /\ Last(m.frames) = m.frames[f]
    BY <1>2 DEF OnFrame
  <2>3. DOMAIN m.frames = 1 .. f
    BY <1>1, FrameTypes
  <2> QED BY <2>1, <2>2, <2>3
<1>4. m.tasks \in SUBSET Proc /\ m.word \in [Priority -> Proc \union {NoProc}]
  BY <1>1 DEF Processor
<1>5. s = [m EXCEPT !.word[p] = NoProc,
                    !.tasks = IF cause = "PROCESS" THEN m.tasks ELSE m.tasks \union {x}]
  BY DEF Kept
<1> HIDE DEF s, f, cause, x
<1>6. /\ SameBanks(m, s) /\ s.word = [m.word EXCEPT ![p] = NoProc]
      /\ s.queue = m.queue /\ s.late = m.late /\ s.waiters = m.waiters
      /\ s.pendingTimer = m.pendingTimer /\ s.asleep = m.asleep /\ s.channel = m.channel
      /\ s.stopped = m.stopped /\ s.error = m.error /\ s.frames = m.frames
      /\ s.record = m.record /\ s.irqs = m.irqs /\ s.pendingLow = m.pendingLow
      /\ s.tasks = IF cause = "PROCESS" THEN m.tasks ELSE m.tasks \union {x}
  BY <1>1, <1>5 DEF Processor, SameBanks
<1>7. ASSUME NEW q \in Proc
      PROVE  InWords(m, q) = InWords(s, q) + One(cause # "PROCESS" /\ q = x)
  <2>1. InWord(m, q, p) <=> cause # "PROCESS" /\ q = x
    <3>1. (\A i \in DOMAIN m.frames : m.frames[i].prio = p => m.frames[i].cause # "PROCESS")
            <=> cause # "PROCESS"
      BY <1>3 DEF cause
    <3> QED BY <3>1 DEF InWord, x
  <2>2. ~InWord(s, q, p)
    BY <1>4, <1>6, NotOfProgram DEF InWord
  <2>3. \A y \in Priority : y # p => (InWord(s, q, y) <=> InWord(m, q, y))
    BY <1>4, <1>6 DEF InWord
  <2>4. (p = High \/ p = Low) /\ High # Low /\ High \in Priority /\ Low \in Priority
    BY TrapsAssumption DEF Priority
  <2> DEFINE e == One(cause # "PROCESS" /\ q = x)
  <2>5. /\ One(InWord(m, q, p)) = e /\ One(InWord(s, q, p)) = 0 /\ e \in Nat
        /\ \A y \in Priority : y # p => One(InWord(s, q, y)) = One(InWord(m, q, y))
        /\ \A y : One(InWord(m, q, y)) \in Nat
    BY <2>1, <2>2, <2>3 DEF One
  <2> HIDE DEF e
  <2>6. InWords(m, q) = InWords(s, q) + e
    <3>1. CASE p = High
      BY <2>4, <2>5, <3>1 DEF InWords
    <3>2. CASE p = Low
      BY <2>4, <2>5, <3>2 DEF InWords
    <3> QED BY <2>4, <3>1, <3>2
  <2> QED BY <2>6 DEF e
<1>8. ASSUME NEW q \in Proc
      PROVE  Held(m, q) = Held(s, q) + One(cause # "PROCESS" /\ q = x) /\ Held(s, q) \in Nat
  <2>1. FramesOf(s, q) = FramesOf(m, q)
    BY <1>6 DEF FramesOf, InFrame, Resumes
  <2>2. InDeferred(s, q) = InDeferred(m, q) /\ InFrames(s, q) = InFrames(m, q)
        /\ InIrqs(s, q) = InIrqs(m, q)
    BY <1>6, <2>1 DEF InDeferred, InFrames, InIrqs
  <2>3. Counted(s, q)
    BY <1>1, PlacesAre
  <2>4. InDeferred(s, q) \in Nat /\ InFrames(s, q) \in Nat /\ InIrqs(s, q) \in Nat
        /\ InWords(s, q) \in Nat
    BY <2>3 DEF Counted
  <2> DEFINE e == One(cause # "PROCESS" /\ q = x)
  <2>5. InWords(m, q) = InWords(s, q) + e /\ e \in Nat
    BY <1>7 DEF One
  <2> HIDE DEF e
  <2>6. Held(m, q) = Held(s, q) + e /\ Held(s, q) \in Nat
    BY <2>2, <2>4, <2>5 DEF Held
  <2> QED BY <2>6 DEF e
<1>9. ASSUME NEW q \in Proc
      PROVE  Listed(s, q) = Listed(m, q) + One(cause # "PROCESS" /\ q = x)
  <2>1. CASE cause = "PROCESS"
    <3>1. Listed(s, q) = Listed(m, q)
      BY <1>6, <2>1, SameListed DEF SameOutside
    <3>2. One(cause # "PROCESS" /\ q = x) = 0
      BY <2>1 DEF One
    <3>3. Listed(m, q) \in Nat
      BY <1>1, TotalIs
    <3> QED BY <3>1, <3>2, <3>3
  <2>2. CASE cause # "PROCESS"
    <3>1. x \notin m.tasks
      <4>1. Held(m, x) = Held(s, x) + 1 /\ Held(s, x) \in Nat
        BY <1>1, <1>8, <2>2 DEF One
      <4>2. Held(m, x) > 0
        BY <4>1
      <4> QED BY <1>1, <1>2, <4>2, InNoList
    <3>2. Joins(m, s, x)
      BY <1>6, <2>2, <3>1 DEF Joins
    <3>3. Listed(s, q) = Listed(m, q) + One(q = x)
      BY <1>1, <3>2, JoinsAdds
    <3> QED BY <2>2, <3>3 DEF One
  <2> QED BY <2>1, <2>2
<1>10. ASSUME NEW q \in Proc PROVE Total(s, q) = Total(m, q)
  <2> DEFINE e == One(cause # "PROCESS" /\ q = x)
  <2>1. Listed(s, q) = Listed(m, q) + e /\ Held(m, q) = Held(s, q) + e /\ e \in Nat
        /\ InBanks(s, q) = InBanks(m, q)
    BY <1>6, <1>8, <1>9, SameBanksHold DEF One
  <2>2. /\ Total(m, q) = Listed(m, q) + InBanks(m, q) + Held(m, q)
        /\ Listed(m, q) \in Nat /\ InBanks(m, q) \in Nat /\ Held(m, q) \in Nat
    BY <1>1, TotalIs
  <2>3. Total(s, q) = Listed(s, q) + InBanks(s, q) + Held(s, q) /\ Held(s, q) \in Nat
    BY <1>1, TotalIs
  <2> HIDE DEF e
  <2> QED BY <2>1, <2>2, <2>3
<1>11. Placed(s)
  BY <1>1, <1>6, <1>10, SameTotals
<1> QED BY <1>1, <1>11, FinishPlaced

\* The frame of the handler that runs, apart from the others.
LEMMA LastFrame ==
  ASSUME Good(kernel, m), NEW p \in Priority, OnFrame(m, p), NEW M
  PROVE  /\ Number(m.frames, M) = Number(Front(m.frames), M) + One(Last(m.frames) \in M)
         /\ Front(m.frames) \in Seq(Frame) /\ Last(m.frames) \in Frame
         /\ Last(m.frames).prio = p /\ Number(Front(m.frames), M) \in Nat
         /\ \A i \in 1 .. Len(Front(m.frames)) :
              Front(m.frames)[i] \in Frame /\ Front(m.frames)[i].prio # p
<1>1. m.frames \in Seq(Frame) /\ Len(m.frames) \in Nat /\ Len(m.frames) > 0
      /\ m.frames # <<>> /\ Last(m.frames).prio = p /\ Last(m.frames) = m.frames[Len(m.frames)]
  BY FrameTypes DEF Good, OnFrame
<1>2. /\ Front(m.frames) \in Seq(Frame) /\ Len(Front(m.frames)) = Len(m.frames) - 1
      /\ Last(m.frames) \in Frame
      /\ \A i \in 1 .. (Len(m.frames) - 1) : Front(m.frames)[i] = m.frames[i]
  BY <1>1, FrontAndLast
<1>3. Number(m.frames, M) = Number(Front(m.frames), M) + One(Last(m.frames) \in M)
  BY <1>1, NumberFront
<1>4. Number(Front(m.frames), M) \in Nat
  BY <1>2, NumberType
<1>5. \A i \in 1 .. Len(m.frames) : m.frames[i] \in Frame
  BY FrameTypes DEF Good
<1>6. \A i \in 1 .. Len(m.frames) : i # Len(m.frames) => m.frames[i].prio # p
  BY LastCaller
<1>7. \A i \in 1 .. Len(Front(m.frames)) :
        Front(m.frames)[i] \in Frame /\ Front(m.frames)[i].prio # p
  <2>1. SUFFICES ASSUME NEW i \in 1 .. Len(Front(m.frames))
        PROVE  Front(m.frames)[i] \in Frame /\ Front(m.frames)[i].prio # p
    OBVIOUS
  <2>2. i \in 1 .. (Len(m.frames) - 1) /\ i \in 1 .. Len(m.frames) /\ i # Len(m.frames)
    BY <1>1, <1>2, <2>1
  <2> QED BY <1>2, <1>5, <1>6, <2>2
<1> QED BY <1>1, <1>2, <1>3, <1>4, <1>7

\* A task takes the place of the trapped process, which the kernel keeps.
LEMMA SwitchTaskPlaced ==
  ASSUME Good(kernel, m), Placed(m), NEW p \in Priority, NEW x \in Proc, SwitchTask(p, x)
  PROVE  Placed(m')
<1> DEFINE s == TaskSwitched(p, x)
           f == Last(m.frames)
           old == m.record[p]
           res == Resumes(m, p, f.caller)
           r == [old EXCEPT !.wptr = x, !.valid = TRUE]
           y == (m.tasks \ {x}) \union (IF res THEN {old.wptr} ELSE {})
<1>1. /\ Good(kernel, s) /\ Finish(s) /\ m \in Processor /\ s \in Processor
      /\ Handling(p) /\ x \in m.tasks /\ f.caller.prio = p
  <2>1. Good(kernel, s) /\ Finish(s)
    BY SwitchTaskKeeps
  <2> QED BY <2>1 DEF Good, SwitchTask
<1>2. OnFrame(m, p) /\ m.error = "none"
  BY <1>1, HandlerExecutes
<1>3. f \in Frame /\ f.prio = p
  BY <1>2, LastFrame
<1>4. old \in [mask : SUBSET Causes, wptr : Workspace, valid : BOOLEAN]
      /\ m.record \in [Priority -> [mask : SUBSET Causes, wptr : Workspace, valid : BOOLEAN]]
  BY <1>1 DEF Processor
<1>5. s = [m EXCEPT !.record[p] = r, !.tasks = y]
  BY <1>1 DEF TaskSwitched, Processor
<1>6. r.wptr = x /\ r.valid = TRUE
  BY <1>4
<1> HIDE DEF s, r, y
<1>7. /\ SameBanks(m, s) /\ s.record = [m.record EXCEPT ![p] = r] /\ s.tasks = y
      /\ s.queue = m.queue /\ s.late = m.late /\ s.waiters = m.waiters
      /\ s.pendingTimer = m.pendingTimer /\ s.asleep = m.asleep /\ s.channel = m.channel
      /\ s.stopped = m.stopped /\ s.error = m.error /\ s.frames = m.frames
      /\ s.word = m.word /\ s.irqs = m.irqs /\ s.pendingLow = m.pendingLow
  BY <1>1, <1>5 DEF Processor, SameBanks
<1> HIDE DEF f, old, res
<1>8. ASSUME NEW q \in Proc
      PROVE  /\ InFrames(m, q) \in Nat
             /\ InFrames(m, q) + One(q = x) = InFrames(s, q) + One(res /\ old.wptr = q)
  <2> DEFINE M == FramesOf(m, q)
             N == FramesOf(s, q)
             front == Front(m.frames)
  <2>1. /\ Number(m.frames, M) = Number(front, M) + One(f \in M)
        /\ Number(m.frames, N) = Number(front, N) + One(f \in N)
        /\ front \in Seq(Frame) /\ Number(front, M) \in Nat
        /\ \A i \in 1 .. Len(front) : front[i] \in Frame /\ front[i].prio # p
    <3> HIDE DEF M, N
    <3> QED BY <1>2, LastFrame DEF f
  <2>2. Number(front, M) = Number(front, N)
    <3>1. ASSUME NEW i \in 1 .. Len(front) PROVE (front[i] \in M) = (front[i] \in N)
      <4>1. front[i].prio \in Priority /\ front[i].prio # p /\ front[i] \in Frame
        BY <2>1 DEF Frame
      <4>2. s.record[front[i].prio] = m.record[front[i].prio]
        BY <1>4, <1>7, <4>1
      <4> HIDE DEF front
      <4> QED BY <4>1, <4>2 DEF FramesOf, InFrame, Resumes
    <3> HIDE DEF M, N, front
    <3> QED BY <2>1, <3>1, NumberSame
  <2>3. f \in M <=> res /\ old.wptr = q
    BY <1>1, <1>3 DEF FramesOf, InFrame, res, old
  <2>4. f \in N <=> q = x
    <3>1. s.record[p] = r
      BY <1>4, <1>7
    <3>2. Resumes(s, p, f.caller)
      BY <1>6, <3>1 DEF Resumes
    <3> QED BY <1>1, <1>3, <1>6, <3>1, <3>2 DEF FramesOf, InFrame, f
  <2> DEFINE a == One(res /\ old.wptr = q)
             b == One(q = x)
  <2>5. One(f \in M) = a /\ One(f \in N) = b /\ a \in Nat /\ b \in Nat
    <3> HIDE DEF M, N
    <3> QED BY <2>3, <2>4 DEF One
  <2>6. InFrames(m, q) = Number(m.frames, M) /\ InFrames(s, q) = Number(m.frames, N)
    BY <1>7 DEF InFrames
  <2> HIDE DEF M, N, front, a, b
  <2>7. InFrames(m, q) \in Nat /\ InFrames(m, q) + b = InFrames(s, q) + a
    BY <2>1, <2>2, <2>5, <2>6
  <2> QED BY <2>7 DEF a, b
<1>9. ASSUME NEW q \in Proc
      PROVE  Held(m, q) + One(q = x) = Held(s, q) + One(res /\ old.wptr = q)
  <2> DEFINE a == One(res /\ old.wptr = q)
             b == One(q = x)
  <2>1. \A z : InWord(s, q, z) = InWord(m, q, z)
    BY <1>7 DEF InWord
  <2>2. InDeferred(s, q) = InDeferred(m, q) /\ InIrqs(s, q) = InIrqs(m, q)
        /\ InWords(s, q) = InWords(m, q)
    BY <1>7, <2>1 DEF InDeferred, InIrqs, InWords
  <2>3. Counted(m, q) /\ Counted(s, q)
    BY <1>1, PlacesAre
  <2>4. InDeferred(m, q) \in Nat /\ InIrqs(m, q) \in Nat /\ InWords(m, q) \in Nat
        /\ InFrames(m, q) \in Nat /\ InFrames(s, q) \in Nat
    BY <2>3 DEF Counted
  <2>5. InFrames(m, q) + b = InFrames(s, q) + a /\ a \in Nat /\ b \in Nat
    BY <1>8 DEF One
  <2> HIDE DEF a, b
  <2>6. Held(m, q) + b = Held(s, q) + a
    BY <2>2, <2>4, <2>5 DEF Held
  <2> QED BY <2>6 DEF a, b
<1>10. ASSUME NEW q \in Proc, res, old.wptr = q PROVE q \notin m.tasks
  <2>1. Held(m, q) + One(q = x) = Held(s, q) + 1 /\ One(q = x) \in {0, 1}
    BY <1>9, <1>10 DEF One
  <2>2. InFrames(m, q) + One(q = x) = InFrames(s, q) + 1
    BY <1>8, <1>10 DEF One
  <2>3. Held(m, q) \in Nat /\ Held(s, q) \in Nat
    BY <1>1, TotalIs
  <2>4. q = x => Held(s, q) > 0
    <3>1. SUFFICES ASSUME q = x PROVE Held(s, q) > 0
      OBVIOUS
    <3>2. s.record[p] = r /\ f \in FramesOf(s, q)
      <4>1. s.record[p] = r
        BY <1>4, <1>7
      <4> QED BY <1>1, <1>3, <1>6, <3>1, <4>1 DEF FramesOf, InFrame, Resumes
    <3>3. InFrames(s, q) = Number(Front(m.frames), FramesOf(s, q)) + 1
          /\ Number(Front(m.frames), FramesOf(s, q)) \in Nat
      <4>1. /\ Number(m.frames, FramesOf(s, q))
                 = Number(Front(m.frames), FramesOf(s, q)) + One(f \in FramesOf(s, q))
            /\ Number(Front(m.frames), FramesOf(s, q)) \in Nat
        BY <1>2, LastFrame DEF f
      <4> QED BY <1>7, <3>2, <4>1 DEF InFrames, One
    <3>4. Counted(s, q)
      BY <1>1, PlacesAre
    <3>5. InDeferred(s, q) \in Nat /\ InIrqs(s, q) \in Nat /\ InWords(s, q) \in Nat
      BY <3>4 DEF Counted
    <3> QED BY <3>3, <3>5 DEF Held
  <2>5. Held(m, q) > 0
    <3>1. CASE q = x
      BY <2>1, <2>3, <2>4, <3>1 DEF One
    <3>2. CASE q # x
      BY <2>1, <2>3, <3>2 DEF One
    <3> QED BY <3>1, <3>2
  <2> QED BY <1>1, <1>2, <2>5, InNoList
<1>11. ASSUME NEW q \in Proc
       PROVE  Listed(s, q) + One(q = x) = Listed(m, q) + One(res /\ old.wptr = q)
  <2> DEFINE a == One(res /\ old.wptr = q)
             b == One(q = x)
             c == One(q \in m.tasks)
             d == One(q \in s.tasks)
             e == One(m.pendingTimer = q)
             o == One(q \in m.asleep) + One(q \in m.channel) + One(q \in m.stopped)
  <2>1. d + b = c + a /\ a \in Nat /\ b \in Nat /\ c \in Nat /\ d \in Nat
    <3>1. q \in s.tasks <=> (q \in m.tasks /\ q # x) \/ (res /\ old.wptr = q)
      BY <1>7 DEF y
    <3>2. CASE q = x
      <4>1. a = 0 /\ b = 1 /\ c = 1 /\ d = 0
        BY <1>1, <1>10, <3>1, <3>2 DEF One
      <4> QED BY <4>1
    <3>3. CASE q # x /\ res /\ old.wptr = q
      <4>1. a = 1 /\ b = 0 /\ c = 0 /\ d = 1
        BY <1>10, <3>1, <3>3 DEF One
      <4> QED BY <4>1
    <3>4. CASE q # x /\ ~(res /\ old.wptr = q)
      <4>1. a = 0 /\ b = 0 /\ c = d /\ c \in Nat
        BY <3>1, <3>4 DEF One
      <4> HIDE DEF a, b, c, d
      <4> QED BY <4>1
    <3> QED BY <3>2, <3>3, <3>4
  <2>2. o \in Nat /\ e \in Nat
    BY DEF One
  <2>3. Outside(m, q) = o + c /\ Outside(s, q) = o + d
    <3>1. /\ One(q \in m.asleep) \in Nat /\ One(q \in m.channel) \in Nat
          /\ One(q \in m.stopped) \in Nat
      BY DEF One
    <3> HIDE DEF a, b
    <3> QED BY <1>7, <2>1, <3>1 DEF Outside
  <2>4. Counted(m, q)
    BY <1>1, PlacesAre
  <2>5. InReady(m, q) \in Nat /\ InLate(m, q) \in Nat /\ InWaiters(m, q) \in Nat
    BY <2>4 DEF Counted
  <2>6. Listed(m, q) = InReady(m, q) + InLate(m, q) + InWaiters(m, q) + e + Outside(m, q)
        /\ Listed(s, q) = InReady(m, q) + InLate(m, q) + InWaiters(m, q) + e + Outside(s, q)
    BY <1>7 DEF Listed, InReady, InLate, InWaiters
  <2> HIDE DEF a, b, c, d, e, o
  <2>7. Listed(s, q) + b = Listed(m, q) + a
    BY <2>1, <2>2, <2>3, <2>5, <2>6
  <2> QED BY <2>7 DEF a, b
<1>12. ASSUME NEW q \in Proc PROVE Total(s, q) = Total(m, q)
  <2> DEFINE a == One(res /\ old.wptr = q)
             b == One(q = x)
  <2>1. /\ Listed(s, q) + b = Listed(m, q) + a /\ Held(m, q) + b = Held(s, q) + a
        /\ a \in Nat /\ b \in Nat /\ InBanks(s, q) = InBanks(m, q)
    BY <1>7, <1>9, <1>11, SameBanksHold DEF One
  <2>2. /\ Total(m, q) = Listed(m, q) + InBanks(m, q) + Held(m, q)
        /\ Listed(m, q) \in Nat /\ InBanks(m, q) \in Nat /\ Held(m, q) \in Nat
    BY <1>1, TotalIs
  <2>3. Total(s, q) = Listed(s, q) + InBanks(s, q) + Held(s, q)
        /\ Listed(s, q) \in Nat /\ Held(s, q) \in Nat
    BY <1>1, TotalIs
  <2> HIDE DEF a, b
  <2> QED BY <2>1, <2>2, <2>3
<1>13. Placed(s)
  BY <1>1, <1>7, <1>12, SameTotals
<1> QED BY <1>1, <1>13, FinishPlaced

\* The kernel returns: what its frame holds runs again.
LEMMA TretPlaced ==
  ASSUME Good(kernel, m), Placed(m), NEW p \in Priority, Tret(p)
  PROVE  Placed(m')
<1> DEFINE t == returnFromTrap(m)
           f == Last(m.frames)
           c == Resumed(m, p)
           front == Front(m.frames)
<1>1. /\ OnFrame(m, p) /\ m.word[p] = NoProc /\ Good(kernel, t) /\ Finish(t)
      /\ m \in Processor /\ t \in Processor
  <2>1. OnFrame(m, p) /\ m.word[p] = NoProc /\ Good(kernel, t) /\ Finish(t)
    BY TretKeeps
  <2> HIDE DEF t
  <2> QED BY <2>1 DEF Good
<1>2. t.frames = front /\ t.irqs = m.irqs /\ t.cpu = c
  BY <1>1, ReturnFromTrapKeeps
<1>3. /\ f \in Frame /\ f.prio = p /\ front \in Seq(Frame)
      /\ \A i \in 1 .. Len(front) : front[i] \in Frame /\ front[i].prio # p
  BY <1>1, LastFrame
<1>4. c \in Bank
  BY <1>1, ResumedIsOnTop
<1>5. m.cpu.wptr = Handler[p]
  BY HandlerExecutes DEF Tret
<1>6. /\ SameOutside(m, t) /\ t.record = m.record /\ t.word = m.word
      /\ t.pendingLow = m.pendingLow /\ t.error = m.error
      /\ t.shadow = m.shadow /\ t.shadowValid = m.shadowValid
  <2> DEFINE e == m.record[p].mask
             rep == [z \in Priority |-> m.reported[z] /\ ~(c.running /\ z = c.prio)
                                        /\ ~(f.cause # "QUEUE_EMPTY" /\ z = p)]
  <2>0. m \in Processor /\ f.prio = p
    BY <1>1, <1>3
  <2>1. t = [m EXCEPT !.mask[p] = e, !.cpu = c, !.frames = front, !.reported = rep]
    BY <2>0 DEF returnFromTrap, Resumed, Processor
  <2> HIDE DEF t, e, rep, front, c
  <2> QED BY <1>1, <2>1 DEF SameOutside, Processor
<1> HIDE DEF t
<1>7. ASSUME NEW q \in Proc
      PROVE  /\ InFrames(m, q) = InFrames(t, q) + One(c.running /\ c.wptr = q)
             /\ InFrames(t, q) \in Nat
  <2> DEFINE M == FramesOf(m, q)
  <2>1. Number(m.frames, M) = Number(front, M) + One(f \in M) /\ Number(front, M) \in Nat
    <3> HIDE DEF M
    <3> QED BY <1>1, LastFrame DEF f
  <2>2. f \in M <=> c.running /\ c.wptr = q
    <3>1. f.caller \in Bank /\ m.record[p] \in [mask : SUBSET Causes, wptr : Workspace, valid : BOOLEAN]
      BY <1>1, <1>3 DEF Frame, Processor
    <3>2. CASE f.caller.prio # p
      <4>1. c = f.caller
        BY <3>2 DEF Resumed
      <4> QED BY <1>3, <3>2, <4>1 DEF FramesOf, InFrame
    <3>3. CASE f.caller.prio = p
      <4> DEFINE b == f.caller
                 r == m.record[p]
                 res == Resumes(m, p, b)
      <4>1. c = [b EXCEPT !.wptr = r.wptr, !.valid = r.valid, !.running = res]
        BY <3>3 DEF Resumed
      <4>2. c.wptr = r.wptr /\ c.running = res
        <5> HIDE DEF c, b, r, res
        <5> QED BY <3>1, <4>1 DEF Bank, b
      <4>3. f \in M <=> res /\ r.wptr = q
        <5> HIDE DEF c
        <5> QED BY <1>3, <3>3 DEF FramesOf, InFrame
      <4> HIDE DEF b, r, res, M, c
      <4> QED BY <4>2, <4>3
    <3> QED BY <3>2, <3>3
  <2>3. FramesOf(t, q) = M
    BY <1>6 DEF FramesOf, InFrame, Resumes
  <2>4. InFrames(m, q) = Number(m.frames, M) /\ InFrames(t, q) = Number(front, M)
    BY <1>2, <2>3 DEF InFrames
  <2>5. One(f \in M) = One(c.running /\ c.wptr = q)
    <3> HIDE DEF M, c, f
    <3> QED BY <2>2 DEF One
  <2> QED BY <2>1, <2>4, <2>5
<1>8. ASSUME NEW q \in Proc PROVE InWords(t, q) = InWords(m, q)
  <2>1. ~InWord(t, q, p) /\ ~InWord(m, q, p)
    BY <1>1, <1>6, NotOfProgram DEF InWord
  <2>2. ASSUME NEW z \in Priority, z # p PROVE InWord(t, q, z) <=> InWord(m, q, z)
    <3>1. DOMAIN m.frames = 1 .. Len(m.frames) /\ DOMAIN front = 1 .. Len(front)
      BY <1>1, <1>3, FrameTypes, LenProperties
    <3>2. /\ Len(m.frames) \in Nat /\ Len(front) = Len(m.frames) - 1
          /\ m.frames[Len(m.frames)].prio = p
          /\ \A i \in 1 .. (Len(m.frames) - 1) : front[i] = m.frames[i]
      <4>1. m.frames \in Seq(Frame) /\ Len(m.frames) \in Nat /\ Len(m.frames) > 0
            /\ m.frames # <<>> /\ m.frames[Len(m.frames)].prio = p
        BY <1>1, FrameTypes DEF OnFrame
      <4> QED BY <4>1, FrontAndLast
    <3> DEFINE n == Len(m.frames)
    <3>3. \A i \in 1 .. n : i = n \/ i \in 1 .. (n - 1)
      BY <3>2
    <3>4. \A i \in 1 .. (n - 1) : i \in 1 .. n
      BY <3>2
    <3>5. (\A i \in DOMAIN m.frames : m.frames[i].prio = z => m.frames[i].cause # "PROCESS")
            <=> (\A i \in DOMAIN front : front[i].prio = z => front[i].cause # "PROCESS")
      <4> HIDE DEF n, front
      <4> QED BY <2>2, <3>1, <3>2, <3>3, <3>4 DEF n
    <3> HIDE DEF front
    <3> QED BY <1>2, <1>6, <3>5 DEF InWord
  <2>3. \A z \in Priority : InWord(t, q, z) <=> InWord(m, q, z)
    BY <2>1, <2>2
  <2>4. \A z \in Priority : One(InWord(t, q, z)) = One(InWord(m, q, z))
    BY <2>3 DEF One
  <2>5. High \in Priority /\ Low \in Priority
    BY DEF Priority
  <2> QED BY <2>4, <2>5 DEF InWords
<1>9. ASSUME NEW q \in Proc PROVE Total(t, q) = Total(m, q)
  <2> DEFINE e == One(c.running /\ c.wptr = q)
             a == One(m.shadowValid /\ m.shadow.wptr = q)
  <2>1. InBanks(m, q) = 0 + a /\ InBanks(t, q) = e + a /\ a \in Nat /\ e \in Nat
    <3>1. m.cpu.wptr # q
      BY <1>5, NotOfProgram
    <3> HIDE DEF c
    <3> QED BY <1>2, <1>6, <3>1 DEF InBanks, One
  <2>2. Listed(t, q) = Listed(m, q)
    BY <1>6, SameListed
  <2>3. Held(m, q) = Held(t, q) + e
    <3>1. InDeferred(t, q) = InDeferred(m, q) /\ InIrqs(t, q) = InIrqs(m, q)
      BY <1>2, <1>6 DEF InDeferred, InIrqs
    <3>2. InWords(t, q) = InWords(m, q) /\ InFrames(m, q) = InFrames(t, q) + e
          /\ InFrames(t, q) \in Nat
      BY <1>7, <1>8
    <3>3. Counted(t, q)
      BY <1>1, PlacesAre
    <3>4. InDeferred(t, q) \in Nat /\ InIrqs(t, q) \in Nat /\ InWords(t, q) \in Nat
      BY <3>3 DEF Counted
    <3> HIDE DEF e
    <3> QED BY <2>1, <3>1, <3>2, <3>4 DEF Held
  <2>4. /\ Total(m, q) = Listed(m, q) + InBanks(m, q) + Held(m, q)
        /\ Listed(m, q) \in Nat /\ InBanks(m, q) \in Nat /\ Held(m, q) \in Nat
    BY <1>1, TotalIs
  <2>5. Total(t, q) = Listed(t, q) + InBanks(t, q) + Held(t, q) /\ Held(t, q) \in Nat
    BY <1>1, TotalIs
  <2> HIDE DEF a, e
  <2> QED BY <2>1, <2>2, <2>3, <2>4, <2>5
<1>10. Placed(t)
  BY <1>1, <1>6, <1>9, SameTotals
<1> QED BY <1>1, <1>10, FinishPlaced DEF t

\* An interrupt is taken: what ran, or what was put aside, moves to its frame.
LEMMA InterruptPlaced ==
  ASSUME kernel \in Kernels, Good(kernel, m), Placed(m), NEW l \in Level, Interrupt(l)
  PROVE  Placed(m')
<1> DEFINE t == enterExternalInterrupt(m, l)
           x == IrqFrame(m, l)
           replace == m.cpu.running /\ m.cpu.prio = Low
           irqs == Append(m.irqs, x)
           shadow == IF replace THEN m.cpu ELSE m.shadow
           valid == m.shadowValid \/ replace
           c == Running(Vector[l], High)
<1>1. /\ Good(kernel, t) /\ m' = pollTimers(t)
  BY InterruptKeeps
<1>2. /\ m \in Processor /\ m.cpu \in Bank /\ m.shadow \in Bank /\ m.shadowValid \in BOOLEAN
      /\ m.irqs \in Seq(Irq) /\ Len(m.frames) \in Nat /\ m.cpu.prio \in {High, Low}
  <2>1. m \in Processor /\ m.cpu \in Bank /\ m.shadow \in Bank /\ m.shadowValid \in BOOLEAN
        /\ m.irqs \in Seq(Irq) /\ Len(m.frames) \in Nat
    BY FrameTypes DEF Good, Processor
  <2> QED BY <2>1 DEF Bank, Priority
<1>3. /\ x \in Irq /\ x.caller = m.cpu /\ x.previous = m.shadow /\ x.wasValid = m.shadowValid
      /\ (x.replaced <=> replace)
  BY <1>2 DEF Irq, IrqFrame, Bank
<1>4. c.wptr = Vector[l]
  BY DEF Running
<1>5. t = [m EXCEPT !.irqs = irqs, !.shadow = shadow, !.shadowValid = valid, !.cpu = c]
  BY <1>2 DEF enterExternalInterrupt, IrqFrame, Processor
<1> HIDE DEF t, irqs, shadow, valid, c, x
<1>6. /\ t \in Processor /\ t.irqs = irqs /\ t.shadow = shadow /\ t.shadowValid = valid
      /\ t.cpu = c /\ t.frames = m.frames /\ t.record = m.record /\ t.word = m.word
      /\ t.pendingLow = m.pendingLow /\ t.error = m.error /\ SameOutside(m, t)
  BY <1>1, <1>2, <1>5 DEF Good, Processor, SameOutside
<1>7. ASSUME NEW q \in Proc PROVE Total(t, q) = Total(m, q)
  <2> DEFINE e == One(x \in IrqsOf(q))
             a == One(m.cpu.running /\ m.cpu.wptr = q)
             b == One(m.shadowValid /\ m.shadow.wptr = q)
             d == One(t.shadowValid /\ t.shadow.wptr = q)
  <2>1. a \in Nat /\ b \in Nat /\ d \in Nat /\ e \in Nat
    BY DEF One
  <2>2. InBanks(m, q) = a + b /\ InBanks(t, q) = 0 + d
    <3>1. t.cpu.wptr # q
      BY <1>4, <1>6, NotOfProgram
    <3>2. One(t.cpu.running /\ t.cpu.wptr = q) = 0
      BY <3>1 DEF One
    <3> QED BY <3>2 DEF InBanks
  <2>3. a + b = d + e
    <3>1. x \in IrqsOf(q) <=> \/ m.cpu.running /\ m.cpu.prio = High /\ m.cpu.wptr = q
                              \/ replace /\ m.shadowValid /\ m.shadow.wptr = q
      BY <1>3 DEF IrqsOf, InIrq
    <3>2. CASE replace
      <4>1. t.shadowValid /\ t.shadow = m.cpu
        BY <1>6, <3>2 DEF shadow, valid
      <4>2. x \in IrqsOf(q) <=> m.shadowValid /\ m.shadow.wptr = q
        BY <3>1, <3>2, TrapsAssumption
      <4>3. d = a /\ e = b
        BY <3>2, <4>1, <4>2 DEF One
      <4> HIDE DEF a, b, d, e
      <4> QED BY <2>1, <4>3
    <3>3. CASE ~replace
      <4>1. (t.shadowValid <=> m.shadowValid) /\ t.shadow = m.shadow
        BY <1>2, <1>6, <3>3 DEF shadow, valid
      <4>2. x \in IrqsOf(q) <=> m.cpu.running /\ m.cpu.wptr = q
        BY <1>2, <3>1, <3>3
      <4>3. d = b /\ e = a
        BY <4>1, <4>2 DEF One
      <4> HIDE DEF a, b, d, e
      <4> QED BY <2>1, <4>3
    <3> QED BY <3>2, <3>3
  <2>4. Listed(t, q) = Listed(m, q)
    BY <1>6, SameListed
  <2>5. InIrqs(t, q) = InIrqs(m, q) + e
    BY <1>2, <1>3, <1>6, NumberAppend DEF InIrqs, irqs
  <2>6. Held(t, q) = Held(m, q) + e
    <3>1. FramesOf(t, q) = FramesOf(m, q) /\ \A z : InWord(t, q, z) = InWord(m, q, z)
      BY <1>6 DEF FramesOf, InFrame, Resumes, InWord
    <3>2. InDeferred(t, q) = InDeferred(m, q) /\ InFrames(t, q) = InFrames(m, q)
          /\ InWords(t, q) = InWords(m, q)
      BY <1>6, <3>1 DEF InDeferred, InFrames, InWords
    <3>3. Counted(m, q)
      BY <1>2, PlacesAre
    <3>4. /\ InDeferred(m, q) \in Nat /\ InFrames(m, q) \in Nat /\ InWords(m, q) \in Nat
          /\ InIrqs(m, q) \in Nat
      BY <3>3 DEF Counted
    <3> HIDE DEF e
    <3> QED BY <2>1, <2>5, <3>2, <3>4 DEF Held
  <2>7. /\ Total(m, q) = Listed(m, q) + InBanks(m, q) + Held(m, q)
        /\ Listed(m, q) \in Nat /\ InBanks(m, q) \in Nat /\ Held(m, q) \in Nat
    BY <1>2, TotalIs
  <2>8. Total(t, q) = Listed(t, q) + InBanks(t, q) + Held(t, q)
    BY <1>6, TotalIs
  <2> HIDE DEF a, b, d, e
  <2> QED BY <2>1, <2>2, <2>3, <2>4, <2>6, <2>7, <2>8
<1>8. Placed(t)
  BY <1>1, <1>6, <1>7, SameTotals
<1>9. Placed(pollTimers(t))
  BY <1>1, <1>8, PollConserves, PlacedAfter
<1> QED BY <1>1, <1>9

\* An interrupt handler returns: what its frame or the shadow holds runs again.
LEMMA IretPlaced ==
  ASSUME Good(kernel, m), Placed(m), Iret
  PROVE  Placed(m')
<1> DEFINE t == returnFromInterrupt(m)
           x == Last(m.irqs)
           irqs == Front(m.irqs)
<1>1. OnIrq(m) /\ Good(kernel, t) /\ Finish(t)
  BY IretKeeps
<1>2. m \in Processor /\ t \in Processor
  <2> HIDE DEF t
  <2> QED BY <1>1 DEF Good
<1>3. t.irqs = irqs /\ Uninterrupted(m, t) /\ SameButBanks(m, t)
  BY <1>1, <1>2, ReturnFromInterruptIs
<1> HIDE DEF t
<1>4. /\ SameOutside(m, t) /\ t.frames = m.frames /\ t.record = m.record /\ t.word = m.word
      /\ t.pendingLow = m.pendingLow /\ t.error = m.error
  BY <1>3 DEF SameButBanks, SamePlaces, SameOutside
<1>5. /\ m.irqs \in Seq(Irq) /\ m.irqs # <<>> /\ irqs \in Seq(Irq) /\ x \in Irq
      /\ Len(m.irqs) \in Nat /\ Len(m.irqs) > 0 /\ x = m.irqs[Len(m.irqs)]
  <2>1. m.irqs \in Seq(Irq) /\ m.irqs # <<>>
    BY <1>1, <1>2, FrameTypes DEF OnIrq
  <2> QED BY <2>1, FrontAndLast
<1>6. x.caller \in Bank /\ x.previous \in Bank /\ x.replaced \in BOOLEAN /\ x.wasValid \in BOOLEAN
      /\ m.shadow \in Bank /\ m.shadowValid \in BOOLEAN /\ x.level \in Level
  BY <1>2, <1>5 DEF Irq, Processor
<1>7. m.cpu.wptr = Vector[x.level]
  BY DEF Iret, InInterrupt, Current
<1>8. x.replaced <=> x.caller.running /\ x.caller.prio = Low
  <2>1. Len(m.irqs) \in 1 .. Len(m.irqs)
    BY <1>5
  <2> QED BY <1>5, <2>1 DEF Good, PutAside
<1> HIDE DEF x, irqs
<1>9. ASSUME NEW q \in Proc
      PROVE  InBanks(t, q) = InBanks(m, q) + One(x \in IrqsOf(q))
  <2> DEFINE e == One(x \in IrqsOf(q))
             a == One(t.cpu.running /\ t.cpu.wptr = q)
             b == One(t.shadowValid /\ t.shadow.wptr = q)
             d == One(m.shadowValid /\ m.shadow.wptr = q)
  <2>1. a \in Nat /\ b \in Nat /\ d \in Nat /\ e \in Nat
    BY DEF One
  <2>2. InBanks(m, q) = 0 + d /\ InBanks(t, q) = a + b
    <3>1. m.cpu.wptr # q
      BY <1>6, <1>7, NotOfProgram
    <3>2. One(m.cpu.running /\ m.cpu.wptr = q) = 0
      BY <3>1 DEF One
    <3> QED BY <3>2 DEF InBanks
  <2>3. x \in IrqsOf(q) <=> \/ x.caller.running /\ x.caller.prio = High /\ x.caller.wptr = q
                            \/ x.replaced /\ x.wasValid /\ x.previous.wptr = q
    BY <1>5 DEF IrqsOf, InIrq
  <2>4. CASE x.caller.running /\ x.caller.prio = High
    <3>1. ~x.replaced
      BY <1>8, <2>4, TrapsAssumption
    <3>2. /\ t.cpu = [x.caller EXCEPT !.valid = TRUE, !.intdis = FALSE]
          /\ t.shadow = m.shadow /\ t.shadowValid = m.shadowValid
      BY <1>3, <2>4, <3>1 DEF Uninterrupted, x
    <3>3. t.cpu.running /\ t.cpu.wptr = x.caller.wptr
      BY <1>6, <2>4, <3>2 DEF Bank
    <3>4. x \in IrqsOf(q) <=> t.cpu.running /\ t.cpu.wptr = q
      BY <2>3, <2>4, <3>1, <3>3
    <3>5. a = e /\ b = d
      BY <3>2, <3>4 DEF One
    <3> HIDE DEF a, b, d, e
    <3>9. InBanks(t, q) = InBanks(m, q) + e
      BY <2>1, <2>2, <3>5
    <3> QED BY <3>9 DEF e
  <2>5. CASE ~(x.caller.running /\ x.caller.prio = High) /\ x.replaced
    <3>1. m.shadowValid /\ m.shadow = x.caller /\ x.caller.running
      BY <1>1, <2>5, LowInterrupted DEF x
    <3>2. t.cpu = m.shadow /\ t.shadow = x.previous /\ t.shadowValid = x.wasValid
      BY <1>3, <2>5, <3>1 DEF Uninterrupted, x
    <3>3. x \in IrqsOf(q) <=> t.shadowValid /\ t.shadow.wptr = q
      BY <2>3, <2>5, <3>2
    <3>4. a = d /\ b = e
      BY <3>1, <3>2, <3>3 DEF One
    <3> HIDE DEF a, b, d, e
    <3>9. InBanks(t, q) = InBanks(m, q) + e
      BY <2>1, <2>2, <3>4
    <3> QED BY <3>9 DEF e
  <2>6. CASE ~(x.caller.running /\ x.caller.prio = High) /\ ~x.replaced
    <3>1. ~x.caller.running /\ x = m.irqs[1]
      BY <1>1, <2>6, LowInterrupted DEF x
    <3>2. m.shadowValid => m.shadow.running
      <4>1. ~Replaced(m)
        BY <2>6, <3>1 DEF Replaced
      <4> QED BY <4>1 DEF Good, PutAside, LowBank, LowBankValid
    <3>3. /\ t.shadowValid = FALSE
          /\ m.shadowValid => t.cpu = m.shadow
          /\ ~m.shadowValid => ~t.cpu.running
      <4>1. ~Idle(Low).running
        BY DEF Idle
      <4> QED BY <1>3, <2>6, <3>1, <4>1 DEF Uninterrupted, x
    <3>4. x \notin IrqsOf(q)
      BY <2>3, <2>6
    <3>5. t.cpu.running /\ t.cpu.wptr = q <=> m.shadowValid /\ m.shadow.wptr = q
      BY <1>6, <3>2, <3>3
    <3>6. a = d /\ b = 0 /\ e = 0
      BY <3>3, <3>4, <3>5 DEF One
    <3> HIDE DEF a, b, d, e
    <3>9. InBanks(t, q) = InBanks(m, q) + e
      BY <2>1, <2>2, <3>6
    <3> QED BY <3>9 DEF e
  <2> QED BY <2>4, <2>5, <2>6
<1>10. ASSUME NEW q \in Proc PROVE Total(t, q) = Total(m, q)
  <2> DEFINE e == One(x \in IrqsOf(q))
             M == IrqsOf(q)
  <2>1. e \in Nat
    BY DEF One
  <2>2. InIrqs(m, q) = InIrqs(t, q) + e
    <3> HIDE DEF M
    <3>1. Number(m.irqs, M) = Number(irqs, M) + One(x \in M)
      BY <1>5, NumberFront DEF x, irqs
    <3> QED BY <1>3, <3>1 DEF InIrqs, M
  <2>3. Held(m, q) = Held(t, q) + e
    <3>1. FramesOf(t, q) = FramesOf(m, q) /\ \A z : InWord(t, q, z) = InWord(m, q, z)
      BY <1>4 DEF FramesOf, InFrame, Resumes, InWord
    <3>2. InDeferred(t, q) = InDeferred(m, q) /\ InFrames(t, q) = InFrames(m, q)
          /\ InWords(t, q) = InWords(m, q)
      BY <1>4, <3>1 DEF InDeferred, InFrames, InWords
    <3>3. Counted(t, q)
      BY <1>2, PlacesAre
    <3>4. /\ InDeferred(t, q) \in Nat /\ InFrames(t, q) \in Nat /\ InWords(t, q) \in Nat
          /\ InIrqs(t, q) \in Nat
      BY <3>3 DEF Counted
    <3> HIDE DEF e
    <3> QED BY <2>1, <2>2, <3>2, <3>4 DEF Held
  <2>4. InBanks(t, q) = InBanks(m, q) + e /\ Listed(t, q) = Listed(m, q)
    BY <1>4, <1>9, SameListed
  <2>5. /\ Total(m, q) = Listed(m, q) + InBanks(m, q) + Held(m, q)
        /\ Listed(m, q) \in Nat /\ InBanks(m, q) \in Nat /\ Held(m, q) \in Nat
    BY <1>2, TotalIs
  <2>6. Total(t, q) = Listed(t, q) + InBanks(t, q) + Held(t, q) /\ Held(t, q) \in Nat
    BY <1>2, TotalIs
  <2> HIDE DEF e
  <2> QED BY <2>1, <2>3, <2>4, <2>5, <2>6
<1>11. Placed(t)
  BY <1>1, <1>4, <1>10, SameTotals
<1> QED BY <1>1, <1>11, FinishPlaced DEF t

-----------------------------------------------------------------------------
\* At the start the first process runs, and every other is stopped.
LEMMA InitPlaced ==
  ASSUME Init
  PROVE  Placed(m)
<1>1. SUFFICES ASSUME NEW q \in Proc PROVE Places(m, q) = 1
  BY DEF Placed
<1>2. Good(kernel, m) /\ m \in Processor
  <2>1. Inv
    BY InitGood
  <2> QED BY <2>1 DEF Inv, Good
<1>3. /\ m.cpu.running /\ m.cpu.wptr = First /\ m.shadowValid = FALSE
      /\ m.queue = [p \in Priority |-> <<>>] /\ m.late = [p \in Priority |-> <<>>]
      /\ m.waiters = <<>> /\ m.pendingTimer = NoProc /\ m.pendingLow = <<>>
      /\ m.frames = <<>> /\ m.irqs = <<>> /\ m.word = [p \in Priority |-> NoProc]
      /\ m.asleep = {} /\ m.channel = {} /\ m.tasks = {} /\ m.stopped = Proc \ {First}
  BY DEF Init, Running
<1>4. \A M : Number(<<>>, M) = 0
  <2>1. <<>> \in Seq(Proc)
    BY EmptySeq
  <2> QED BY <2>1, NumberType
<1>5. High \in Priority /\ Low \in Priority /\ PriorityOf(q) \in Priority /\ q # NoProc
  BY LowIsLow, NotOfProgram DEF Priority
<1>6. Held(m, q) = 0
  <2>1. InDeferred(m, q) = 0 /\ InFrames(m, q) = 0 /\ InIrqs(m, q) = 0
    BY <1>3, <1>4 DEF InDeferred, InFrames, InIrqs
  <2>2. ~InWord(m, q, High) /\ ~InWord(m, q, Low)
    BY <1>3, <1>5 DEF InWord
  <2>3. InWords(m, q) = 0
    BY <2>2 DEF InWords, One
  <2> QED BY <2>1, <2>3 DEF Held
<1>7. Listed(m, q) = One(q # First)
  <2>1. InReady(m, q) = 0 /\ InLate(m, q) = 0 /\ InWaiters(m, q) = 0
    BY <1>3, <1>4, <1>5 DEF InReady, InLate, InWaiters
  <2>2. One(m.pendingTimer = q) = 0
    BY <1>3, <1>5 DEF One
  <2>3. Outside(m, q) = One(q # First)
    BY <1>3 DEF Outside, One
  <2> QED BY <2>1, <2>2, <2>3 DEF Listed, One
<1>8. InBanks(m, q) = One(q = First)
  BY <1>3 DEF InBanks, One
<1>9. Total(m, q) = 1
  <2>1. Total(m, q) = Listed(m, q) + InBanks(m, q) + Held(m, q)
    BY <1>2, TotalIs
  <2> QED BY <1>6, <1>7, <1>8, <2>1 DEF One
<1>10. Counted(m, q)
  BY <1>2, PlacesAre
<1> QED BY <1>9, <1>10 DEF Counted, Total

\* Every step keeps each process in one place.
LEMMA NextPlaced ==
  ASSUME Inv, Placed(m), [Next]_vars
  PROVE  Placed(m')
<1>1. kernel \in Kernels /\ Good(kernel, m)
  BY DEF Inv
<1>2. CASE UNCHANGED vars
  <2>1. m' = m
    BY <1>2 DEF vars
  <2> QED BY <2>1
<1>3. CASE Next
  <2>1. \A q \in Proc : Run(q) \/ Communicate(q) => Placed(m')
    BY <1>1, RunPlaced, CommunicatePlaced
  <2>2. Stop \/ Sleep \/ AwaitChannel \/ Wait \/ Signal \/ Timeslice => Placed(m')
    BY <1>1, StopPlaced, WaitPlaced, SignalPlaced, TimeslicePlaced
  <2>3. IntDis \/ IntEnb \/ TrapDisable \/ Advance => Placed(m')
    BY <1>1, IntDisablePlaced, TrapDisablePlaced, AdvancePlaced
  <2>4. \A p \in Priority : Keep(p) \/ Tret(p) => Placed(m')
    BY <1>1, KeepPlaced, TretPlaced
  <2>5. \A p \in Priority, q \in Proc : SwitchTask(p, q) \/ InsertQueue(p, q) => Placed(m')
    BY <1>1, SwitchTaskPlaced, InsertQueuePlaced
  <2>6. \A l \in Level : Interrupt(l) => Placed(m')
    BY <1>1, InterruptPlaced
  <2>7. InterruptSignal \/ Iret => Placed(m')
    BY <1>1, SignalPlaced, IretPlaced
  <2> QED BY <1>3, <2>1, <2>2, <2>3, <2>4, <2>5, <2>6, <2>7 DEF Next
<1> QED BY <1>2, <1>3

\* No process is lost or runs twice: whatever defers, preempts, nests or switches tasks,
\* each is in exactly one of the banks, lists, frames and records of CPUState (st20.h).
THEOREM EveryoneInOnePlace == Spec => []ExactlyOnePlace
<1>1. Init => Inv /\ Placed(m)
  BY InitGood, InitPlaced
<1>2. (Inv /\ Placed(m)) /\ [Next]_vars => (Inv /\ Placed(m))'
  <2>1. SUFFICES ASSUME Inv, Placed(m), [Next]_vars PROVE Inv' /\ Placed(m')
    BY DEF Placed
  <2> QED BY <2>1, NextGood, NextPlaced
<1>3. TypeOK /\ Placed(m) => ExactlyOnePlace
  BY DEF ExactlyOnePlace, Placed
<1>4. Spec => [](Inv /\ Placed(m))
  BY <1>1, <1>2, PTL DEF Spec
<1> QED BY <1>3, <1>4, TypeCorrect, PTL
==============================================================================
