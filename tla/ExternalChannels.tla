--------------------------- MODULE ExternalChannels ---------------------------
(***************************************************************************)
(* External channels (src/core/cpu/st20.cpp): endpoints that the host      *)
(* feeds with bytes and drains, on which processes wait for a transfer or  *)
(* alternate.  What a process waits for is done by a poll, after every     *)
(* instruction and every call of the host; the process then goes to the    *)
(* ready queue, at once or through the ExternalChannel trap and a kernel.  *)
(* Processes change the mask of the trap, the handler's Enables may mask   *)
(* it while the kernel runs, and interrupts come over both.                *)
(*                                                                         *)
(* The processes are of low priority, and keep to the rule that a channel  *)
(* has one user at a time; the handlers use no channel, and no other trap  *)
(* is enabled.  A FIFO is the number of its bytes.                         *)
(***************************************************************************)
EXTENDS Integers, FiniteSets, SequencesExt

CONSTANTS
  ExtProcess, Endpoint,
  MapOrder,     \* the endpoints, in the order of the unordered map
  ExtCapacity,  \* bytes a FIFO holds
  Lengths       \* of the transfers, and of what the host feeds and drains

NobodyWaits == "NO_PROCESS"

ASSUME ExternalAssumption ==
  /\ ExtProcess # {} /\ IsFiniteSet(ExtProcess) /\ NobodyWaits \notin ExtProcess \union Endpoint
  /\ MapOrder \in Seq(Endpoint) /\ Range(MapOrder) = Endpoint /\ Len(MapOrder) = Cardinality(Endpoint)
  /\ ExtCapacity \in Nat \ {0} /\ Lengths \subseteq 1 .. ExtCapacity

VARIABLE
  ext  \* channel: [endpoint -> ExternalChannel]
       \* trap: EXTERNALCH_TRAPENB of the enables   handlerTrap: of the handler's
       \* ready: the queue   running: a process or NobodyWaits
       \* handler: the process that the kernel is told of   interrupt: interruptHandlerActive
       \* word: [process -> pw::State of its alternative]   guards: enabled and not yet disabled
       \* phase: of the alternative   chosen: pw::Temp   canceled: by resetch
       \* fed, sent: bytes fed less those asked for, bytes sent less those drained

Unregistered == [registered |-> FALSE]
Fresh ==
  [registered |-> TRUE, input |-> 0, output |-> 0, waiter |-> NobodyWaits, length |-> 0,
   inputWait |-> TRUE, queued |-> FALSE, altOwner |-> NobodyWaits, altWake |-> FALSE,
   altNotified |-> FALSE]

\* Every process has started; with which of them one begins makes no difference.
ExtInit ==
  \E enabled, keeps \in BOOLEAN :
    LET order == SetToSeq(ExtProcess)
    IN  ext = [channel |-> [c \in Endpoint |-> Unregistered], trap |-> enabled, handlerTrap |-> keeps,
               ready |-> Tail(order), running |-> Head(order), handler |-> NobodyWaits,
               interrupt |-> FALSE,
               word |-> [p \in ExtProcess |-> "ready"], guards |-> [p \in ExtProcess |-> {}],
               phase |-> [p \in ExtProcess |-> "none"], chosen |-> [p \in ExtProcess |-> NobodyWaits],
               canceled |-> NobodyWaits, error |-> FALSE,
               fed |-> [c \in Endpoint |-> 0], sent |-> [c \in Endpoint |-> 0]]

Registered(s) == {c \in Endpoint : s.channel[c].registered}

(***************************************************************************)
(* The poll.  While a handler is active, an owner is not released by the   *)
(* trap: its transfer is done, or its alternative ready, but the next poll *)
(* tries again.  A handler that masks the trap lets it enqueue the owner.  *)
(***************************************************************************)
HandlerActive(s) == s.handler # NobodyWaits \/ s.interrupt
MayRelease(s) == ~s.trap \/ ~HandlerActive(s)

\* requestTrap leaves of the enables those that the handler's have too.
releaseExternalOwner(s, p) ==
  IF s.trap THEN [s EXCEPT !.handler = p, !.trap = s.handlerTrap]
  ELSE [s EXCEPT !.ready = Append(@, p)]

TransferReady(e) ==
  IF e.inputWait THEN e.input >= e.length ELSE ExtCapacity - e.output >= e.length

\* Mutant: the length stands after the transfer, which a later poll would repeat.
TransferKeepsLength(e) ==
  IF e.inputWait THEN [e EXCEPT !.input = @ - e.length] ELSE [e EXCEPT !.output = @ + e.length]

transferNativeExternalBytes(e) ==
  IF e.inputWait THEN [e EXCEPT !.input = @ - e.length, !.length = 0]
  ELSE [e EXCEPT !.output = @ + e.length, !.length = 0]

PollWaiter(s, c) ==
  LET e == s.channel[c]
      t == [s EXCEPT !.channel[c] = transferNativeExternalBytes(e)]
  IN  IF e.waiter = NobodyWaits \/ e.queued \/ ~TransferReady(e) THEN s
      ELSE IF ~MayRelease(s) THEN t
      ELSE [releaseExternalOwner(t, e.waiter) EXCEPT !.channel[c].queued = TRUE]

PollAlternative(s, c) ==
  LET e == s.channel[c]
      state == s.word[e.altOwner]
      wake == e.altWake \/ state = "waiting"
      t == [s EXCEPT !.channel[c].altWake = wake, !.word[e.altOwner] = "ready"]
  IN  CASE e.altOwner = NobodyWaits \/ e.input = 0 \/ e.altNotified -> s
        [] OTHER ->
             IF state \notin {"enabling", "waiting"} /\ ~wake THEN s
             ELSE IF ~wake THEN [t EXCEPT !.channel[c].altNotified = TRUE]
             ELSE IF ~MayRelease(s) THEN t
             ELSE [releaseExternalOwner(t, e.altOwner) EXCEPT !.channel[c].altNotified = TRUE]

PollEndpoint(s, c) ==
  LET e == s.channel[c]
      held == e.waiter # NobodyWaits /\ ~e.queued /\ TransferReady(e) /\ ~MayRelease(s)
  IN  IF held THEN PollWaiter(s, c) ELSE PollAlternative(PollWaiter(s, c), c)

pollExternalChannels(s) ==
  LET upTo[n \in 0 .. Len(MapOrder)] ==
        IF n = 0 THEN s
        ELSE LET t == upTo[n - 1]
                 c == MapOrder[n]
             IN  IF c \in Registered(t) THEN PollEndpoint(t, c) ELSE t
  IN  upTo[Len(MapOrder)]

finishExternalWait(s, p) ==
  [s EXCEPT !.channel = [c \in Endpoint |->
     IF c \in Registered(s) /\ @[c].registered /\ @[c].waiter = p /\ @[c].queued
     THEN [@[c] EXCEPT !.waiter = NobodyWaits, !.queued = FALSE] ELSE @[c]]]

DispatchReady(s) ==
  IF HandlerActive(s) \/ s.running # NobodyWaits \/ s.ready = <<>> THEN s
  ELSE finishExternalWait([s EXCEPT !.running = Head(s.ready), !.ready = Tail(@)], Head(s.ready))

PollAndDispatch(s) == DispatchReady(pollExternalChannels(s))

\* pollTimers, after an instruction or a call of the host: an interrupt first
pollTimers(s) ==
  \/ ext' = PollAndDispatch(s)
  \/ ~s.interrupt /\ ext' = PollAndDispatch([s EXCEPT !.interrupt = TRUE])

(***************************************************************************)
(* The host.                                                               *)
(***************************************************************************)
registerExternalChannel(c) ==
  /\ c \notin Registered(ext)
  /\ ext' = [ext EXCEPT !.channel[c] = Fresh, !.fed[c] = 0, !.sent[c] = 0]

unregisterExternalChannel(c) ==
  /\ c \in Registered(ext)
  /\ ext.channel[c].waiter = NobodyWaits /\ ext.channel[c].altOwner = NobodyWaits
  \* rule of the model: not between a selection and its input
  /\ \A p \in ExtProcess : c \notin ext.guards[p] /\ ext.chosen[p] # c
  /\ ext' = [ext EXCEPT !.channel[c] = Unregistered]

feedExternalChannel(c, n) ==
  /\ c \in Registered(ext) /\ n <= ExtCapacity - ext.channel[c].input
  /\ pollTimers([ext EXCEPT !.channel[c].input = @ + n, !.fed[c] = @ + n])

drainExternalChannel(c, n) ==
  /\ c \in Registered(ext) /\ ext.channel[c].output > 0
  /\ LET taken == IF n < ext.channel[c].output THEN n ELSE ext.channel[c].output
     IN  pollTimers([ext EXCEPT !.channel[c].output = @ - taken, !.sent[c] = @ - taken])

(***************************************************************************)
(* Instructions of the running process.                                    *)
(***************************************************************************)
Runs(p) == ext.running = p /\ ~HandlerActive(ext) /\ ~ext.error

\* The rule of one user at a time.
MayUse(p, c) ==
  /\ c \in Registered(ext)
  /\ {ext.channel[c].waiter, ext.channel[c].altOwner} \subseteq {p, NobodyWaits}
  /\ \A q \in ExtProcess \ {p} : c \notin ext.guards[q] /\ ext.chosen[q] # c

SuspendExternal(s, p) == [s EXCEPT !.running = NobodyWaits]

transferExternalChannel(p, c, n, input) ==
  LET asked == IF input THEN [ext EXCEPT !.fed[c] = @ - n, !.chosen[p] = NobodyWaits]
               ELSE [ext EXCEPT !.sent[c] = @ + n]
      waiting == [ext.channel[c] EXCEPT !.length = n, !.inputWait = input]
  IN  /\ Runs(p) /\ MayUse(p, c)
      /\ ext.phase[p] = "none" \/ (ext.phase[p] = "branch" /\ input /\ ext.chosen[p] = c /\ n = 1)
      /\ IF ext.channel[c].waiter # NobodyWaits THEN ext' = [ext EXCEPT !.error = TRUE]
         ELSE pollTimers(
                IF TransferReady(waiting)
                THEN [asked EXCEPT !.channel[c] = [transferNativeExternalBytes(waiting)
                                                    EXCEPT !.inputWait = ext.channel[c].inputWait],
                                   !.phase[p] = "none"]
                ELSE SuspendExternal([asked EXCEPT !.channel[c] = [waiting EXCEPT !.waiter = p],
                                        !.phase[p] = "none"], p))

ExtAlternative(p) ==
  /\ Runs(p) /\ ext.phase[p] = "none"
  /\ pollTimers([ext EXCEPT !.word[p] = "enabling", !.phase[p] = "enabling"])

\* enableAltChannel polls, and so does the end of the instruction.
EnableEndpoint(p, c) ==
  /\ Runs(p) /\ MayUse(p, c)
  /\ ext.phase[p] = "enabling" /\ c \notin ext.guards[p]
  /\ LET t == [ext EXCEPT !.channel[c] = [@ EXCEPT !.altOwner = p, !.altWake = FALSE,
                                                  !.altNotified = FALSE],
                          !.guards[p] = @ \union {c}]
     IN  pollTimers(pollExternalChannels(t))

ExtAltWait(p) ==
  /\ Runs(p) /\ ext.phase[p] = "enabling" /\ ext.guards[p] # {}
  /\ LET t == [ext EXCEPT !.phase[p] = "disabling", !.chosen[p] = NobodyWaits]
     IN  pollTimers(
           IF ext.word[p] = "ready" THEN t ELSE SuspendExternal([t EXCEPT !.word[p] = "waiting"], p))

DisableEndpoint(p, c) ==
  /\ Runs(p) /\ ext.phase[p] = "disabling" /\ c \in ext.guards[p]
  /\ LET selects == ext.channel[c].input > 0 /\ ext.chosen[p] = NobodyWaits
     IN  pollTimers(
           [ext EXCEPT !.guards[p] = @ \ {c}, !.chosen[p] = IF selects THEN c ELSE @,
              !.phase[p] = IF ext.guards[p] = {c} THEN "branch" ELSE @,
              !.channel[c] = IF @.altOwner = p
                             THEN [@ EXCEPT !.altOwner = NobodyWaits, !.altWake = FALSE,
                                            !.altNotified = FALSE] ELSE @])

\* Rule of the model: not the channel of an alternative, nor of a transfer already done.
ResetEndpoint(p, c) ==
  /\ Runs(p) /\ ext.phase[p] = "none" /\ c \in Registered(ext) /\ ext.canceled = NobodyWaits
  /\ ~ext.channel[c].queued /\ ext.channel[c].altOwner = NobodyWaits
  /\ \A q \in ExtProcess : c \notin ext.guards[q] /\ ext.chosen[q] # c
  /\ pollTimers(
       [ext EXCEPT !.channel[c] = Fresh, !.canceled = ext.channel[c].waiter, !.fed[c] = 0, !.sent[c] = 0])

RunCanceled(p) ==
  /\ Runs(p) /\ ext.canceled # NobodyWaits
  /\ pollTimers([ext EXCEPT !.ready = Append(@, ext.canceled), !.canceled = NobodyWaits])

\* timeslice
RotateReady(p) ==
  /\ Runs(p) /\ ext.ready # <<>>
  /\ pollTimers([ext EXCEPT !.ready = Append(@, p), !.running = NobodyWaits])

\* trapenb or trapdis
changeTrapMask(p, enable) ==
  /\ Runs(p) /\ enable # ext.trap
  /\ pollTimers([ext EXCEPT !.trap = enable])

(***************************************************************************)
(* Handlers.  The kernel queues the process it is told of and returns to   *)
(* the enables that the trap was taken with.                               *)
(***************************************************************************)
ExternalKernel ==
  /\ ext.handler # NobodyWaits /\ ~ext.interrupt
  /\ pollTimers([ext EXCEPT !.ready = Append(@, ext.handler), !.handler = NobodyWaits, !.trap = TRUE])

\* A poll of an idle processor, or after an instruction that has nothing to do with channels
ComputeOrIdle == pollTimers(ext)

returnFromInterrupt ==
  /\ ext.interrupt
  /\ pollTimers([ext EXCEPT !.interrupt = FALSE])

ExtNext ==
  \/ \E c \in Endpoint : registerExternalChannel(c) \/ unregisterExternalChannel(c)
  \/ \E c \in Endpoint, n \in Lengths : feedExternalChannel(c, n) \/ drainExternalChannel(c, n)
  \/ \E p \in ExtProcess :
       \/ \E c \in Endpoint, n \in Lengths, input \in BOOLEAN : transferExternalChannel(p, c, n, input)
       \/ \E c \in Endpoint : EnableEndpoint(p, c) \/ DisableEndpoint(p, c) \/ ResetEndpoint(p, c)
       \/ ExtAlternative(p) \/ ExtAltWait(p) \/ RunCanceled(p) \/ RotateReady(p)
       \/ \E enable \in BOOLEAN : changeTrapMask(p, enable)
  \/ ExternalKernel \/ ComputeOrIdle \/ returnFromInterrupt

ExtSpec == ExtInit /\ [][ExtNext]_ext
-----------------------------------------------------------------------------
Pending(e, input) == IF e.waiter # NobodyWaits /\ e.inputWait = input THEN e.length ELSE 0

\* The process has what it sleeps for still to come, or a handler puts off its release.
SleepsRightly(p) ==
  \/ \E c \in Registered(ext) :
       LET e == ext.channel[c]
       IN  e.waiter = p /\ ~e.queued /\ (e.length = 0 => ~MayRelease(ext)) /\ (e.length # 0 => ~TransferReady(e))
  \/ /\ ext.word[p] = "waiting" /\ ext.phase[p] = "disabling"
     /\ \A c \in ext.guards[p] : ext.channel[c].altOwner = p /\ ext.channel[c].input = 0
  \/ /\ ext.word[p] = "ready" /\ ~MayRelease(ext)
     /\ \E c \in ext.guards[p] : ext.channel[c].altOwner = p /\ ext.channel[c].altWake
  \/ ext.canceled = p

(***************************************************************************)
(* A process is in one place: it runs, is queued once, is the one that the *)
(* kernel is told of, or sleeps for what is still to come.  What is moved  *)
(* of a FIFO is what was asked for, once, though the release of a process  *)
(* is put off; a process that runs has no wait left on a channel, and an   *)
(* alternative selects a channel with input.                               *)
(***************************************************************************)
TransfersOnce ==
  /\ \A p \in ExtProcess :
       LET places == Cardinality({i \in DOMAIN ext.ready : ext.ready[i] = p})
                       + (IF ext.running = p THEN 1 ELSE 0) + (IF ext.handler = p THEN 1 ELSE 0)
       IN  places = 1 \/ (places = 0 /\ SleepsRightly(p))
  /\ \A c \in Registered(ext) :
       LET e == ext.channel[c]
       IN  /\ e.input = ext.fed[c] + Pending(e, TRUE)
           /\ e.output = ext.sent[c] - Pending(e, FALSE)
           /\ e.waiter # ext.running \/ e.waiter = NobodyWaits
  /\ ~ext.error
  /\ \A p \in ExtProcess :
       ext.phase[p] = "branch" => ext.chosen[p] \in Registered(ext) /\ ext.channel[ext.chosen[p]].input > 0
=============================================================================
