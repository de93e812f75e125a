----------------------------- MODULE Snapshots -----------------------------
(***************************************************************************)
(* Saved states (src/core/cpu/st20.cpp): what saveCPUState writes of the   *)
(* processor, what loadCPUState accepts, and the processor it makes of it. *)
(*                                                                         *)
(* A state is saved between two steps of Traps, where the prompt is.  The  *)
(* lists, the trapped records and the handlers' workspaces are in guest    *)
(* memory, which is saved with the processor; the setting of the kernel    *)
(* never changes.  The clocks and the registers are copied as they are.    *)
(***************************************************************************)
EXTENDS Traps

\* What is in guest memory, or reached from it and two pointers.
Guest == {"queue", "record", "word", "asleep", "late", "channel", "waiters",
          "count", "tasks", "stopped", "error"}

\* Mutant: the snapshot has no room for the interrupt frames.
CaptureNoIrqs(s) ==
  [f \in Guest \union {"cpu", "shadow", "shadowValid", "mask", "frames",
                       "reported", "pendingTimer", "irqs"} |->
     IF f = "irqs" THEN <<>> ELSE s[f]]

captureRuntime(s) ==
  [f \in Guest \union {"cpu", "shadow", "shadowValid", "mask", "frames",
                       "reported", "pendingTimer", "irqs"} |-> s[f]]

\* What the bank in use may be while a low priority process is put aside.
ValidShadow(saved) ==
  saved.shadowValid =>
    /\ saved.cpu.prio = High \/ saved.frames # <<>>
    /\ saved.shadow.prio = Low /\ saved.shadow.running

\* One handler of a group and priority at a time, the last at the current one.
ValidFrames(saved) ==
  /\ \A i, j \in DOMAIN saved.frames :
       i # j => saved.frames[i].prio # saved.frames[j].prio
  /\ saved.frames # <<>> => Last(saved.frames).prio = saved.cpu.prio

\* Nested interrupts are of rising levels.
ValidIrqs(saved) ==
  \A i \in DOMAIN saved.irqs :
    /\ i > 1 => saved.irqs[i].level > saved.irqs[i - 1].level
    /\ saved.irqs[i].depth <= Len(saved.frames)

validRuntime(saved) ==
  ValidShadow(saved) /\ ValidFrames(saved) /\ ValidIrqs(saved)

\* resetScheduler, then the saved fields.
restoreRuntime(saved) ==
  [f \in DOMAIN saved \union {"pendingLow"} |->
     IF f = "pendingLow" THEN <<>> ELSE saved[f]]

saveCPUState(s) == captureRuntime(s)
loadCPUState(saved, s) == IF validRuntime(saved) THEN restoreRuntime(saved) ELSE s
-----------------------------------------------------------------------------
(***************************************************************************)
(* A state saved between two instructions and loaded again is the state    *)
(* that was saved: trap handlers, interrupts nested over them, the process *)
(* put aside and the pending timer trap go on as if nothing had happened.  *)
(* Not so for a trap that is put off, which no snapshot holds, nor while   *)
(* an interrupt has come in on a handler of low priority.                  *)
(***************************************************************************)
InterruptOnLowHandler ==
  interruptHandlerActive(m) /\ m.frames # <<>> /\ Last(m.frames).prio # m.cpu.prio

SavedStateReturns ==
  m.error = "none" /\ m.pendingLow = <<>> /\ ~InterruptOnLowHandler =>
    LET saved == saveCPUState(m)
    IN  validRuntime(saved) /\ loadCPUState(saved, m) = m

(***************************************************************************)
(* What README.md:114 says of load: it "Loads a state saved with `save`".  *)
(***************************************************************************)
SavedStateLoads == m.error = "none" => validRuntime(saveCPUState(m))
=============================================================================
