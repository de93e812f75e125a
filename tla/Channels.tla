------------------------------- MODULE Channels -------------------------------
(***************************************************************************)
(* Internal channels and the untimed alternative of the ST20               *)
(* (src/core/cpu/st20.cpp): one word in memory for each channel, holding   *)
(* nobody, a process that waits to send or to receive, or one that has     *)
(* registered the channel as a guard; and one word in each workspace that  *)
(* is the address of a message or, during an alternative, its state.       *)
(*                                                                         *)
(* Any process that is ready may execute the next instruction.  That is    *)
(* more than the scheduler allows; what Scheduler.tla shows lets this      *)
(* module keep of the queues only how often a process is ready.  A         *)
(* descriptor stands for its process, which keeps its priority.  Traps are *)
(* disabled and no handler is active.                                      *)
(*                                                                         *)
(* The program's part: a channel has one sender and one receiver, an       *)
(* alternative enables and disables the same guards, the branch selected   *)
(* inputs, and resetch is for a channel no alternative has registered.     *)
(* A guard whose condition is false does nothing and is left out; a        *)
(* channel may be the guard of several branches.                           *)
(***************************************************************************)

EXTENDS Integers

CONSTANTS
  Proc,       \* the processes, by workspace
  Chan,       \* the channel words
  Sender,     \* the process that outputs to each channel
  Receiver,   \* the process that inputs from it
  ScalarChan, \* channels of single words, output with outbyte or outword
  Skip,       \* the guard that is always ready
  Resetter,   \* the processes whose program resets channels
  NoProcess   \* NO_PROCESS

Message == {"even", "odd"}
Guard   == Chan \union {Skip}

\* Where a process keeps a message: in a buffer, or in pw::Temp, which also
\* holds the offset of the branch an alternative selected.
Address == {"buffer", "temp"}

\* The markers pw::State holds in place of an address.
AltState == {"ALT_ENABLING", "ALT_WAITING", "ALT_READY"}

ALT_NONE_SELECTED == "ALT_NONE_SELECTED"

ASSUME ChannelsAssumption ==
  /\ Sender \in [Chan -> Proc]
  /\ Receiver \in [Chan -> Proc]
  /\ \A ch \in Chan : Sender[ch] # Receiver[ch]
  /\ ScalarChan \subseteq Chan
  /\ Resetter \subseteq Proc
  /\ NoProcess \notin Proc
  /\ Skip \notin Chan
  /\ Guard \intersect (Message \union {ALT_NONE_SELECTED}) = {}

VARIABLES
  word,       \* the channel words
  pointer,    \* pw::Pointer of each workspace, the same word as pw::State
  memory,     \* the message or branch at each address of each process
  turns,      \* how often each process is running or in a ready queue
  pc,         \* where in its program each process is
  todo,       \* guards it has yet to enable or disable at least once
  guards,     \* guards of the alternative it is in
  previous,   \* the waiter resetch returned to it, to be run again
  sent,       \* history: the last message output to each channel
  received    \* history: the last message input from it

vars == <<word, pointer, memory, turns, pc, todo, guards, previous,
          sent, received>>

Following(m) == CHOOSE n \in Message : n # m

GuardsOf(w) == {ch \in Chan : Receiver[ch] = w} \union {Skip}

CanRun(w) == turns[w] > 0

------------------------------------------------------------------------------
(* transferChannel *)

\* Nobody is there: wait in the channel word for the other end.
AwaitPeer(w, ch, address) ==
  /\ word[ch] = NoProcess
  /\ pointer' = [pointer EXCEPT ![w] = address]
  /\ word' = [word EXCEPT ![ch] = w]
  /\ turns' = [turns EXCEPT ![w] = @ - 1]
  /\ UNCHANGED received

\* Mutant of ReadyPeer: an alternative is queued whatever its state.
ReadyPeerAlways(w, peer) ==
  [turns EXCEPT ![w] = @ - 1, ![peer] = @ + 1]

\* Mutant of ReadyPeer: only an alternative still enabling is queued.
ReadyPeerEnabling(w, peer) ==
  [turns EXCEPT ![w] = @ - 1,
                ![peer] = IF pointer[peer] = "ALT_ENABLING" THEN @ + 1 ELSE @]

\* The sender waits; the alternative it finds is queued if it sleeps.
ReadyPeer(w, peer) ==
  [turns EXCEPT ![w] = @ - 1,
                ![peer] = IF pointer[peer] = "ALT_WAITING" THEN @ + 1 ELSE @]

\* An alternative is there: tell it, and wait until its branch inputs.
NotifyAlternative(w, ch, address) ==
  LET peer == word[ch] IN
  /\ peer \notin {NoProcess, w}
  /\ pointer[peer] \in AltState
  /\ pointer' = [pointer EXCEPT ![w] = address, ![peer] = "ALT_READY"]
  /\ word' = [word EXCEPT ![ch] = w]
  /\ turns' = ReadyPeer(w, peer)
  /\ UNCHANGED received

\* Mutant of Held: the word that scalar output uses, whoever the peer is.
HeldInTemp(peer) == memory[peer]["temp"]

\* The message a waiting sender has at its pointer.
Held(peer) == memory[peer][pointer[peer]]

\* The word of a channel nobody waits on.
Freed(ch) == [word EXCEPT ![ch] = NoProcess]

\* The other end waits: it becomes ready.  The caller copies the message.
CompleteWith(peer, w, ch) ==
  /\ peer \notin {NoProcess, w}
  /\ pointer[peer] \in Address
  /\ word' = Freed(ch)
  /\ turns' = [turns EXCEPT ![peer] = @ + 1]
  /\ UNCHANGED pointer

\* The ends of a channel whose program is at an instruction on it.
AtOutput(w, ch) == CanRun(w) /\ pc[w] = "run" /\ Sender[ch] = w
AtInput(w, ch) ==
  /\ CanRun(w)
  /\ \/ pc[w] = "run" /\ Receiver[ch] = w
     \/ pc[w] = "branch" /\ memory[w]["temp"] = ch

\* INVALID_CHANNEL, on which the emulation stops: a process finds itself, or
\* an input an alternative.
Rejected(w, ch) ==
  /\ word[ch] # NoProcess
  /\ \/ word[ch] = w /\ (AtOutput(w, ch) \/ AtInput(w, ch))
     \/ AtInput(w, ch) /\ pointer[word[ch]] \in AltState

\* out, and outbyte and outword, which put the message into pw::Temp.
Output(w, ch) ==
  LET address == IF ch \in ScalarChan THEN "temp" ELSE "buffer"
      message == Following(sent[ch])
      stored  == [memory EXCEPT ![w][address] = message]
      peer    == word[ch] IN
  /\ AtOutput(w, ch)
  /\ sent' = [sent EXCEPT ![ch] = message]
  /\ \/ /\ AwaitPeer(w, ch, address) \/ NotifyAlternative(w, ch, address)
        /\ memory' = stored
     \/ /\ CompleteWith(peer, w, ch)
        /\ memory' = [stored EXCEPT ![peer][pointer[peer]] = message]
        /\ received' = [received EXCEPT ![ch] = message]
  /\ UNCHANGED <<pc, todo, guards, previous>>

\* in, by itself or in the branch an alternative selected.
Input(w, ch) ==
  LET peer == word[ch] IN
  /\ AtInput(w, ch)
  /\ \/ AwaitPeer(w, ch, "buffer") /\ UNCHANGED memory
     \/ /\ CompleteWith(peer, w, ch)
        /\ memory' = [memory EXCEPT ![w]["buffer"] = Held(peer)]
        /\ received' = [received EXCEPT ![ch] = Held(peer)]
  /\ pc' = [pc EXCEPT ![w] = "run"]
  /\ guards' = [guards EXCEPT ![w] = {}]
  /\ UNCHANGED <<todo, previous, sent>>

------------------------------------------------------------------------------
(* The alternative *)

\* alt, for a choice of guards.
BeginAlternative(w, choice) ==
  /\ CanRun(w) /\ pc[w] = "run"
  /\ choice # {}
  /\ pointer' = [pointer EXCEPT ![w] = "ALT_ENABLING"]
  /\ pc' = [pc EXCEPT ![w] = "enabling"]
  /\ todo' = [todo EXCEPT ![w] = choice]
  /\ guards' = [guards EXCEPT ![w] = choice]
  /\ UNCHANGED <<word, memory, turns, previous, sent, received>>

\* Mutant of Registers: it takes the word from whoever is in it.
RegistersOver(w, ch) ==
  /\ word' = [word EXCEPT ![ch] = w]
  /\ UNCHANGED pointer

\* Mutant of Registers: a sender that was there first goes unnoticed.
RegistersBlindly(w, ch) ==
  /\ word' = IF word[ch] = NoProcess THEN [word EXCEPT ![ch] = w] ELSE word
  /\ UNCHANGED pointer

\* A free channel is registered; a sender in it makes the guard ready.
Registers(w, ch) ==
  \/ /\ word[ch] = NoProcess
     /\ word' = [word EXCEPT ![ch] = w]
     /\ UNCHANGED pointer
  \/ /\ word[ch] \notin {NoProcess, w}
     /\ pointer' = [pointer EXCEPT ![w] = "ALT_READY"]
     /\ UNCHANGED word
  \/ word[ch] = w /\ UNCHANGED <<word, pointer>>

Enabling(w, guard) ==
  /\ CanRun(w) /\ pc[w] = "enabling"
  /\ guard \in guards[w]
  /\ todo' = [todo EXCEPT ![w] = @ \ {guard}]
  /\ UNCHANGED <<memory, turns, pc, guards, previous, sent, received>>

\* enbc
EnableChannel(w, ch) == Enabling(w, ch) /\ Registers(w, ch)

\* enbs
EnableSkip(w) ==
  /\ Enabling(w, Skip)
  /\ pointer' = [pointer EXCEPT ![w] = "ALT_READY"]
  /\ UNCHANGED word

\* altwt: sleep unless a guard is ready.
WaitAlternative(w) ==
  /\ CanRun(w) /\ pc[w] = "enabling" /\ todo[w] = {}
  /\ memory' = [memory EXCEPT ![w]["temp"] = ALT_NONE_SELECTED]
  /\ \/ pointer[w] = "ALT_READY" /\ UNCHANGED <<pointer, turns>>
     \/ /\ pointer[w] # "ALT_READY"
        /\ pointer' = [pointer EXCEPT ![w] = "ALT_WAITING"]
        /\ turns' = [turns EXCEPT ![w] = @ - 1]
  /\ pc' = [pc EXCEPT ![w] = "disabling"]
  /\ todo' = [todo EXCEPT ![w] = guards[w]]
  /\ UNCHANGED <<word, guards, previous, sent, received>>

\* disableAltSkip: the first ready guard to be disabled is selected.
Select(w, guard) ==
  [memory EXCEPT ![w]["temp"] = IF @ = ALT_NONE_SELECTED THEN guard ELSE @]

Disabling(w, guard) ==
  /\ CanRun(w) /\ pc[w] = "disabling"
  /\ guard \in guards[w]
  /\ todo' = [todo EXCEPT ![w] = @ \ {guard}]
  /\ UNCHANGED <<pointer, turns, pc, guards, previous, sent, received>>

\* Mutant of Deregisters: the registration stays.
DeregistersNot(w, ch) ==
  \/ word[ch] \in {NoProcess, w} /\ UNCHANGED <<word, memory>>
  \/ word[ch] \notin {NoProcess, w} /\ UNCHANGED word /\ memory' = Select(w, ch)

\* Mutant of Deregisters: a guard is selected because it is registered.
DeregistersSelecting(w, ch) ==
  \/ word[ch] = NoProcess /\ UNCHANGED <<word, memory>>
  \/ word[ch] = w /\ word' = Freed(ch) /\ memory' = Select(w, ch)
  \/ word[ch] \notin {NoProcess, w} /\ UNCHANGED word /\ memory' = Select(w, ch)

\* A registration is taken back; a sender in its place is selected.
Deregisters(w, ch) ==
  \/ word[ch] = NoProcess /\ UNCHANGED <<word, memory>>
  \/ word[ch] = w /\ word' = Freed(ch) /\ UNCHANGED memory
  \/ word[ch] \notin {NoProcess, w} /\ UNCHANGED word /\ memory' = Select(w, ch)

\* disc
DisableChannel(w, ch) == Disabling(w, ch) /\ Deregisters(w, ch)

\* diss
DisableSkip(w) ==
  Disabling(w, Skip) /\ memory' = Select(w, Skip) /\ UNCHANGED word

\* altend: jump to the branch selected, which inputs if its guard does.
FinishAlternative(w) ==
  /\ CanRun(w) /\ pc[w] = "disabling" /\ todo[w] = {}
  /\ \/ /\ memory[w]["temp"] = Skip
        /\ pc' = [pc EXCEPT ![w] = "run"]
        /\ guards' = [guards EXCEPT ![w] = {}]
     \/ /\ memory[w]["temp"] # Skip
        /\ pc' = [pc EXCEPT ![w] = "branch"]
        /\ UNCHANGED guards
  /\ UNCHANGED <<word, pointer, memory, turns, todo, previous, sent,
                 received>>

------------------------------------------------------------------------------
(* resetch *)

\* One end of a channel resets it: the other may have waited there.  Message
\* sent and not received is taken back.
ResetChannel(w, ch) ==
  /\ CanRun(w) /\ pc[w] = "run" /\ previous[w] = NoProcess
  /\ w \in Resetter \intersect {Sender[ch], Receiver[ch]}
  /\ pc[Receiver[ch]] = "run"
  /\ previous' = [previous EXCEPT ![w] = word[ch]]
  /\ word' = Freed(ch)
  /\ sent' = [sent EXCEPT ![ch] = received[ch]]
  /\ UNCHANGED <<pointer, memory, turns, pc, todo, guards, received>>

\* runp with what resetch returned.
RunPrevious(w) ==
  /\ CanRun(w) /\ pc[w] = "run" /\ previous[w] # NoProcess
  /\ turns' = [turns EXCEPT ![previous[w]] = @ + 1]
  /\ previous' = [previous EXCEPT ![w] = NoProcess]
  /\ UNCHANGED <<word, pointer, memory, pc, todo, guards, sent,
                 received>>

------------------------------------------------------------------------------
Init ==
  /\ word = [ch \in Chan |-> NoProcess]
  /\ pointer = [w \in Proc |-> "buffer"]
  /\ memory = [w \in Proc |-> [a \in Address |-> "even"]]
  /\ turns = [w \in Proc |-> 1]
  /\ pc = [w \in Proc |-> "run"]
  /\ todo = [w \in Proc |-> {}]
  /\ guards = [w \in Proc |-> {}]
  /\ previous = [w \in Proc |-> NoProcess]
  /\ sent = [ch \in Chan |-> "even"]
  /\ received = sent

Alternative(w) ==
  \/ \E ch \in Chan : EnableChannel(w, ch) \/ DisableChannel(w, ch)
  \/ EnableSkip(w) \/ DisableSkip(w)
  \/ WaitAlternative(w) \/ FinishAlternative(w)

Next ==
  \E w \in Proc :
    \/ \E ch \in Chan : Output(w, ch) \/ Input(w, ch) \/ ResetChannel(w, ch)
    \/ \E choice \in SUBSET GuardsOf(w) : BeginAlternative(w, choice)
    \/ Alternative(w)
    \/ RunPrevious(w)

Spec == Init /\ [][Next]_vars

\* The scheduler gives every ready process its turn (FairScheduler), and a
\* process that began an alternative goes through with it.
FairSpec ==
  /\ Spec
  /\ \A w \in Proc :
       /\ WF_vars(Alternative(w))
       /\ WF_vars(pc[w] = "branch" /\ \E ch \in Chan : Input(w, ch))

------------------------------------------------------------------------------
(* Properties *)

TypeOK ==
  /\ word \in [Chan -> Proc \union {NoProcess}]
  /\ pointer \in [Proc -> Address \union AltState]
  /\ memory \in [Proc -> [Address -> Message \union Guard
                                      \union {ALT_NONE_SELECTED}]]
  /\ \A w \in Proc : memory[w]["buffer"] \in Message
  /\ turns \in [Proc -> Nat]
  /\ pc \in [Proc -> {"run", "enabling", "disabling", "branch"}]
  /\ todo \in [Proc -> SUBSET Guard]
  /\ guards \in [Proc -> SUBSET Guard]
  /\ previous \in [Proc -> Proc \union {NoProcess}]
  /\ sent \in [Chan -> Message]
  /\ received \in [Chan -> Message]

\* Process w waits in ch for its message to be taken or to arrive.
AwaitsIn(w, ch) == word[ch] = w /\ turns[w] = 0 /\ pc[w] = "run"

\* The channels an alternative has registered, if no sender replaced it there.
Registered(w) == {ch \in Chan \intersect guards[w] :
                    \/ pc[w] = "enabling" /\ ch \notin todo[w]
                    \/ pc[w] = "disabling" /\ ch \in todo[w]}

\* A channel word never holds a process that has nothing to do there: what it
\* holds is a sleeping sender whose message is still at its pointer, a
\* sleeping receiver, or an alternative that is due to disable the channel.
ChannelWordsValid ==
  \A ch \in Chan :
    \/ word[ch] = NoProcess
    \/ /\ AwaitsIn(Sender[ch], ch)
       /\ sent[ch] # received[ch]
       /\ pointer[Sender[ch]] \in Address
       /\ memory[Sender[ch]][pointer[Sender[ch]]] = sent[ch]
    \/ AwaitsIn(Receiver[ch], ch) /\ pointer[Receiver[ch]] = "buffer"
    \/ word[ch] = Receiver[ch] /\ ch \in Registered(Receiver[ch])

\* Nobody sleeps forgotten.  A process that is not ready is the one some
\* channel word will give to its peer, or is in the hands of a program that
\* reset its channel, or sleeps in an alternative with every channel still
\* registered, so that no sender has been there.
SleepersFindable ==
  \A w \in Proc : turns[w] = 0 =>
    \/ \E ch \in Chan : AwaitsIn(w, ch)
    \/ \E x \in Proc : previous[x] = w
    \/ /\ pc[w] = "disabling" /\ pointer[w] = "ALT_WAITING"
       /\ \A g \in guards[w] : g # Skip /\ word[g] = w

\* However many senders find an alternative, and in whatever state, nobody
\* is put into a ready queue twice.
ReadyOnce == \A w \in Proc : turns[w] \in 0 .. 1

\* An alternative that runs on has a branch to go to, and the sender of that
\* branch's channel still waits with its message.
SelectionReady ==
  \A w \in Proc :
    /\ (pc[w] = "disabling" /\ turns[w] = 1 /\ todo[w] = {})
         => memory[w]["temp"] \in guards[w]
    /\ pc[w] = "branch"
         => \E ch \in guards[w] \ {Skip} :
              memory[w]["temp"] = ch /\ AwaitsIn(Sender[ch], ch)

\* A program that keeps to its part never meets INVALID_CHANNEL: no process
\* finds a registration of its own left from an earlier alternative.
NeverInvalid == \A w \in Proc, ch \in Chan : ~Rejected(w, ch)

\* A process that can go on has no message outstanding, and an alternative
\* whose sender waits has not slept through it: out is synchronous.
OutputSynchronous ==
  \A ch \in Chan : sent[ch] # received[ch] => AwaitsIn(Sender[ch], ch)

\* An alternative with a sender waiting at one of its guards, whether it came
\* before, during or after the enabling, gets to the end of its branch.
AltServed ==
  \A w \in Proc, ch \in Chan :
    (pc[w] # "run" /\ ch \in guards[w] /\ word[ch] = Sender[ch])
      ~> pc[w] = "run"
===============================================================================
