------------------------------ MODULE Rendezvous ------------------------------
(***************************************************************************)
(* What channels and alternatives promise a program: a message goes from   *)
(* the sender to the receiver of its channel, once, and when both want it. *)
(* A process that offers several guards gets exactly one of them.          *)
(*                                                                         *)
(* Messages of a channel alternate between "even" and "odd", so that one   *)
(* lost, repeated or overtaken shows.                                      *)
(***************************************************************************)

CONSTANTS Proc, Chan, Sender, Receiver, Skip

Message == {"even", "odd"}
Guard   == Chan \union {Skip}

Following(m) == CHOOSE n \in Message : n # m

VARIABLES
  sent,      \* the last message each channel's sender committed itself to
  received,  \* the last message each channel's receiver was given
  wanted     \* the guards each process waits for, {} if it waits for none

vars == <<sent, received, wanted>>

Pending(ch) == sent[ch] # received[ch]

\* A process does one thing at a time.
Idle(w) ==
  /\ wanted[w] = {}
  /\ \A ch \in Chan : Sender[ch] = w => ~Pending(ch)

Init ==
  /\ sent = [ch \in Chan |-> "even"]
  /\ received = sent
  /\ wanted = [w \in Proc |-> {}]

Send(ch) ==
  /\ Idle(Sender[ch])
  /\ sent' = [sent EXCEPT ![ch] = Following(@)]
  /\ UNCHANGED <<received, wanted>>

Want(w, guards) ==
  /\ Idle(w)
  /\ wanted' = [wanted EXCEPT ![w] = guards]
  /\ UNCHANGED <<sent, received>>

\* Sender and receiver meet; either may have come just now.
Meet(ch) ==
  /\ \/ Pending(ch) /\ UNCHANGED sent
     \/ Idle(Sender[ch]) /\ sent' = [sent EXCEPT ![ch] = Following(@)]
  /\ ch \in wanted[Receiver[ch]] \/ Idle(Receiver[ch])
  /\ received' = [received EXCEPT ![ch] = sent'[ch]]
  /\ wanted' = [wanted EXCEPT ![Receiver[ch]] = {}]

TakeSkip(w) ==
  /\ Skip \in wanted[w]
  /\ wanted' = [wanted EXCEPT ![w] = {}]
  /\ UNCHANGED <<sent, received>>

\* The program takes back what one end of a channel waits for.
Withdraw(ch) ==
  \/ /\ Pending(ch)
     /\ sent' = [sent EXCEPT ![ch] = received[ch]]
     /\ UNCHANGED <<received, wanted>>
  \/ /\ wanted[Receiver[ch]] = {ch}
     /\ wanted' = [wanted EXCEPT ![Receiver[ch]] = {}]
     /\ UNCHANGED <<sent, received>>

Next ==
  \/ \E ch \in Chan : Send(ch) \/ Meet(ch) \/ Withdraw(ch)
  \/ \E w \in Proc :
       TakeSkip(w) \/ \E guards \in SUBSET Guard : Want(w, guards)

Spec == Init /\ [][Next]_vars
===============================================================================
