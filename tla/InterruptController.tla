------------------------- MODULE InterruptController -------------------------
(***************************************************************************)
(* The interrupt controller of both chips (src/soc/common/STi55xx_Inc.cpp) *)
(* and the part of the processor it asks for service: lines that the poll  *)
(* looks at through a trigger mode, requests pending in hardware and in    *)
(* software, and the Exec bits of the handlers under way.                  *)
(***************************************************************************)
EXTENDS Naturals, FiniteSets, SequencesExt

CONSTANTS
  IrqLevel,    \* the levels with a handler, numbers
  TriggerMode, \* [level -> "high", "low", "rising", "falling" or "any"], as firmware sets it
  MaxEdges     \* bound of the model on requests: changes of lines, writes to Pending and Exec

ASSUME IncAssumption ==
  /\ IrqLevel \subseteq 0 .. 7 /\ IrqLevel # {}
  /\ TriggerMode \in [IrqLevel -> {"high", "low", "rising", "falling", "any"}]

VARIABLE
  inc  \* lines: the input lines    previous: the lines at the last poll
       \* hardware, software: pending levels    mask: enabled levels    global: GloEn
       \* exec: Exec bits    nest: levels of the handlers in the processor, innermost last
       \* accepts: the processor takes external interrupts
       \* raised: the edges triggered and not yet accepted or cleared    edges: changes so far

IncInit ==
  inc = [lines |-> {}, previous |-> {}, hardware |-> {}, software |-> {}, mask |-> {},
         global |-> FALSE, exec |-> {}, nest |-> <<>>, accepts |-> TRUE, raised |-> {}, edges |-> 0,
         wroteExec |-> FALSE]

Highest(S) == CHOOSE x \in S : \A y \in S : y <= x
Levelled == {l \in IrqLevel : TriggerMode[l] \in {"high", "low"}}

triggered(mode, current, previous) ==
  \/ mode = "high" /\ current
  \/ mode = "low" /\ ~current
  \/ mode = "rising" /\ current /\ ~previous
  \/ mode = "falling" /\ ~current /\ previous
  \/ mode = "any" /\ current # previous

Triggered(s) == {l \in IrqLevel : triggered(TriggerMode[l], l \in s.lines, l \in s.previous)}

(***************************************************************************)
(* pollInc: latch the lines, then ask for the highest level that is        *)
(* pending, enabled and not executing, and for the next while the          *)
(* processor takes none: serviceNativeInterrupt takes a level above those  *)
(* of its handlers.                                                        *)
(***************************************************************************)
\* Mutant: every poll drops the requests of the edges before it.
LatchedAfresh(s) ==
  LET new == Triggered(s)
  IN  [s EXCEPT !.hardware = new, !.previous = s.lines,
                !.raised = @ \union (new \ Levelled)]

Latched(s) ==
  LET new == Triggered(s)
  IN  [s EXCEPT !.hardware = (@ \ Levelled) \union new, !.previous = s.lines,
                !.raised = @ \union (new \ Levelled)]

Active(s) == IF s.nest = <<>> THEN {} ELSE {Last(s.nest)}
Takes(s, l) == s.accepts /\ \A a \in Active(s) : l > a

Candidates(s) ==
  {l \in (s.hardware \union s.software) \ s.exec : s.global /\ l \in s.mask /\ Takes(s, l)}

Accepted(s, l) ==
  [s EXCEPT !.hardware = @ \ {l}, !.software = @ \ {l}, !.raised = @ \ {l},
            !.exec = @ \union {l}, !.nest = Append(@, l)]

pollInc(s) ==
  LET t == Latched(s)
  IN  IF Candidates(t) = {} THEN t ELSE Accepted(t, Highest(Candidates(t)))

Poll == inc' = pollInc(inc)

Line(l) ==
  /\ inc.edges < MaxEdges
  /\ inc' = [inc EXCEPT !.lines = IF l \in @ THEN @ \ {l} ELSE @ \union {l}, !.edges = @ + 1]

(***************************************************************************)
(* The return of the innermost handler, which the controller is told of.   *)
(***************************************************************************)
acknowledgeInc(s) ==
  IF s.exec # {} /\ \A a \in Active(s) : Highest(s.exec) > a
  THEN [s EXCEPT !.exec = @ \ {Highest(s.exec)}] ELSE s

Return ==
  /\ inc.nest # <<>>
  /\ inc' = acknowledgeInc([inc EXCEPT !.nest = Front(@)])

(***************************************************************************)
(* What firmware writes to the registers; all clears a whole register.     *)
(***************************************************************************)
ClearPending(s, levels) ==
  [s EXCEPT !.hardware = @ \ levels, !.software = @ \ levels, !.raised = @ \ levels]

writeMask ==
  \E l \in IrqLevel :
    inc' \in {[inc EXCEPT !.mask = @ \union {l}], [inc EXCEPT !.mask = @ \ {l}],
              [inc EXCEPT !.global = TRUE], [inc EXCEPT !.global = FALSE],
              [inc EXCEPT !.mask = {}, !.global = FALSE]}

clearPending ==
  \E levels \in {{l} : l \in IrqLevel} \union {IrqLevel} : inc' = ClearPending(inc, levels)

writePending ==
  /\ inc.edges < MaxEdges
  /\ \E l \in IrqLevel :
       inc' \in {[inc EXCEPT !.software = @ \union {l}, !.edges = @ + 1],
                 [inc EXCEPT !.software = {l}, !.hardware = @ \intersect {l},
                             !.raised = @ \intersect {l}, !.edges = @ + 1]}

writeExec ==
  /\ inc.edges < MaxEdges
  /\ \E l \in IrqLevel :
       inc' \in {[inc EXCEPT !.exec = @ \union {l}, !.wroteExec = TRUE, !.edges = @ + 1],
                 [inc EXCEPT !.exec = @ \ {l}, !.wroteExec = TRUE, !.edges = @ + 1]}

\* The processor masks interrupts or changes to a priority that does.
Enable == \E b \in BOOLEAN : inc' = [inc EXCEPT !.accepts = b]

IncNext ==
  \/ Poll \/ Return \/ Enable
  \/ writeMask \/ writePending \/ clearPending \/ writeExec
  \/ \E l \in IrqLevel : Line(l)

IncSpec == IncInit /\ [][IncNext]_inc
-----------------------------------------------------------------------------
(***************************************************************************)
(* An edge that a poll has seen stays pending, however interrupts are      *)
(* masked and nested, until its level is accepted or firmware clears it;   *)
(* and the Exec bits are the handlers of the processor, innermost highest, *)
(* so that no return clears the bit of another handler.                    *)
(***************************************************************************)
EdgesKept ==
  /\ inc.raised \subseteq inc.hardware
  /\ ~inc.wroteExec => inc.exec = {inc.nest[i] : i \in DOMAIN inc.nest}
  /\ \A i, j \in DOMAIN inc.nest : i < j => inc.nest[i] < inc.nest[j]
=============================================================================
