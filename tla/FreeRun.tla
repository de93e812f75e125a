------------------------------- MODULE FreeRun -------------------------------
(***************************************************************************)
(* How the main loop of src/main.cpp counts instructions.  Without a       *)
(* prompt it runs straight on to the instruction before the next one it    *)
(* has to look at (for serial output, a request to stop, a progress        *)
(* message or the limit), and takes that one, or the one that stopped the  *)
(* run early, by itself.                                                   *)
(***************************************************************************)
EXTENDS Naturals

CONSTANTS
  SERIAL_INTERVAL, KEY_POLL_INTERVAL,
  maxInstr,  \* limit of a run without prompts
  warnInstr, \* instructions between two progress messages
  MaxSteps   \* bound of the model on the instructions executed

ASSUME FreeRunAssumption ==
  {SERIAL_INTERVAL, KEY_POLL_INTERVAL, maxInstr, warnInstr, MaxSteps} \subseteq Nat \ {0}

VARIABLE
  host  \* prompt, ready: cli.needs_prompt and instructionReady, at the head of the loop
        \* serialCount, instrCount, warnCountdown
        \* done: instructions executed without an error
        \* sinceGo: instructions executed since the prompt let the program run
        \* serial, looked, warned: the last of these instructions with serial output,
        \* with a look for a request to stop, with a progress message

HostInit ==
  host = [prompt |-> TRUE, ready |-> FALSE, serialCount |-> 0, instrCount |-> 0,
          warnCountdown |-> warnInstr, done |-> 0, sinceGo |-> 0, serial |-> 0,
          looked |-> 0, warned |-> 0]

Least(S) == CHOOSE x \in S : \A y \in S : x <= y

Quiet(s) ==
  Least({SERIAL_INTERVAL - (s.serialCount % SERIAL_INTERVAL), maxInstr - s.instrCount,
         s.warnCountdown, KEY_POLL_INTERVAL - (s.instrCount % KEY_POLL_INTERVAL)})

\* n instructions, of which failed (0 or 1) ended in an error
Executed(s, n, failed) ==
  [s EXCEPT !.done = @ + n - failed, !.sinceGo = IF s.prompt THEN 0 ELSE @ + n]

\* runInstructions, as far as the loop sees it: completed instructions are counted here.
Counted(s, n) ==
  [s EXCEPT !.serialCount = @ + n, !.instrCount = @ + n, !.warnCountdown = @ - n]

(***************************************************************************)
(* What follows an instruction, which may have ended in an error or met a  *)
(* watch; one taken from the prompt is not counted towards the limits.     *)
(***************************************************************************)
SerialOutput(s, failed) ==
  LET n == s.serialCount + 1
      t == [s EXCEPT !.serialCount = n]
  IN  IF failed = 1 THEN [s EXCEPT !.prompt = TRUE]
      ELSE IF n % SERIAL_INTERVAL = 0 THEN [t EXCEPT !.serial = s.done] ELSE t

Limits(s, request) ==
  LET n == s.instrCount + 1
      t == CASE n >= maxInstr -> [s EXCEPT !.instrCount = n, !.prompt = TRUE]
             [] n < maxInstr /\ s.warnCountdown = 1 ->
                  [s EXCEPT !.instrCount = n, !.warnCountdown = warnInstr, !.warned = s.sinceGo]
             [] OTHER -> [s EXCEPT !.instrCount = n, !.warnCountdown = @ - 1]
  IN  IF n % KEY_POLL_INTERVAL = 0
      THEN [t EXCEPT !.looked = s.sinceGo, !.prompt = @ \/ request] ELSE t

Watched(s, watch) == [s EXCEPT !.prompt = @ \/ watch]

Fetched(s, fetch) == [s EXCEPT !.ready = fetch, !.prompt = @ \/ ~fetch]

\* Commands: one instruction more, or "go"; they may change memory and Iptr.
Commands(s) ==
  IF ~s.prompt THEN {s}
  ELSE {[s EXCEPT !.ready = fetch] : fetch \in BOOLEAN}
         \union {[s EXCEPT !.ready = fetch, !.prompt = FALSE, !.instrCount = 0,
                    !.warnCountdown = warnInstr, !.sinceGo = 0, !.looked = 0, !.warned = 0] :
                   fetch \in BOOLEAN}

After(s, failed, watch, request, fetch) ==
  LET t == SerialOutput(s, failed)
      u == IF t.prompt THEN t ELSE Limits(t, request)
  IN  Fetched(Watched(u, watch), fetch)

(***************************************************************************)
(* An iteration of the loop.                                               *)
(***************************************************************************)
\* Mutant: the run takes the instruction that has to be looked at.
FreeRunTooFar(s) == Quiet(s)
FreeRunLength(s) == IF Quiet(s) > 1 THEN Quiet(s) - 1 ELSE 0

FreeRunning == host.ready /\ ~host.prompt /\ FreeRunLength(host) > 0

\* The run completes, and the loop goes on at its head.
RunFreely ==
  /\ FreeRunning /\ host.done + FreeRunLength(host) <= MaxSteps
  /\ LET n == FreeRunLength(host) IN host' = Counted(Executed(host, n, 0), n)

\* It stops at an instruction: an error, a watch, or no code after it.
RunStops ==
  /\ FreeRunning
  /\ \E n \in 0 .. FreeRunLength(host) - 1, failed \in {0, 1}, watch, request, fetch \in BOOLEAN :
       /\ host.done + n < MaxSteps
       /\ failed = 1 \/ watch \/ ~fetch
       /\ host' \in Commands(After(Executed(Counted(host, n), n + 1, failed),
                                   failed, watch, request, fetch))

Step ==
  /\ host.ready /\ ~FreeRunning /\ host.done < MaxSteps
  /\ \E failed \in {0, 1}, watch, request, fetch \in BOOLEAN :
       host' \in Commands(After(Executed(host, 1, failed), failed, watch, request, fetch))

\* Nothing to execute: without a prompt this iteration is counted all the same.
NotReady ==
  /\ ~host.ready
  /\ \E request \in BOOLEAN, fetch \in IF host.prompt THEN BOOLEAN ELSE {FALSE} :
       host' \in Commands(Fetched(IF host.prompt THEN host ELSE Limits(host, request), fetch))

HostNext == RunFreely \/ RunStops \/ Step \/ NotReady

HostSpec == HostInit /\ [][HostNext]_host
-----------------------------------------------------------------------------
(***************************************************************************)
(* However the instructions are divided into runs and single steps, none   *)
(* of them is counted twice or left out: serial output, the look for a     *)
(* request to stop and the progress message come at each multiple of their *)
(* interval, and a run never goes beyond maxInstr.                         *)
(***************************************************************************)
Multiple(n, interval) == n - (n % interval)

LooksOnTime ==
  /\ host.serialCount = host.done
  /\ host.serial = Multiple(host.done, SERIAL_INTERVAL)
  /\ ~host.prompt =>
       /\ host.instrCount = host.sinceGo /\ host.sinceGo < maxInstr
       /\ host.looked = Multiple(host.sinceGo, KEY_POLL_INTERVAL)
       /\ host.warned = Multiple(host.sinceGo, warnInstr)
=============================================================================
