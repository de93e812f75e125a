-------------------------- MODULE PriorityScheduler --------------------------
(***************************************************************************)
(* What the ST20 scheduler promises, without the queue registers, link     *)
(* words, register banks and quantum counts it promises it with: one       *)
(* processor, two first-in first-out queues, and one low priority process  *)
(* that high priority may hold interrupted.                                *)
(*                                                                         *)
(* A process that is neither running, interrupted, queued nor held by the  *)
(* program is blocked; what unblocks it is not this module's business.     *)
(***************************************************************************)
EXTENDS Integers, Sequences

CONSTANTS Proc, Nobody, BootProcess

High     == 0
Low      == 1
Priority == {High, Low}

VARIABLES
  running,      \* the process on the processor, or Nobody
  level,        \* its priority, or the priority it was last at
  interrupted,  \* the low priority process high priority holds up, or Nobody
  queue,        \* processes ready at each priority, oldest first
  held          \* ready processes the program took out of a queue

vars == <<running, level, interrupted, queue, held>>

InQueue(p) == {queue[p][i] : i \in 1 .. Len(queue[p])}

Blocked ==
  {w \in Proc : /\ w \notin {running, interrupted}
                /\ \A p \in Priority : w \notin InQueue(p)
                /\ \A i \in 1 .. Len(held) : held[i] # w}

------------------------------------------------------------------------------
\* The processor goes to: the running process, unless a ready high priority
\* process may take it from low priority; else the oldest high priority one;
\* else the interrupted one; else the oldest low priority one.
Choose(r, q) ==
  \/ /\ r # Nobody
     /\ level = High \/ q[High] = <<>>
     /\ running' = r /\ queue' = q
     /\ UNCHANGED <<level, interrupted>>
  \/ /\ r # Nobody /\ level = Low /\ q[High] # <<>>
     /\ \/ \* the running process has shut high priority out
           /\ running' = r /\ queue' = q
           /\ UNCHANGED <<level, interrupted>>
        \/ /\ running' = Head(q[High]) /\ level' = High
           /\ interrupted' = r
           /\ queue' = [q EXCEPT ![High] = Tail(@)]
  \/ /\ r = Nobody /\ q[High] # <<>>
     /\ running' = Head(q[High]) /\ level' = High
     /\ queue' = [q EXCEPT ![High] = Tail(@)]
     /\ UNCHANGED interrupted
  \/ /\ r = Nobody /\ q[High] = <<>> /\ interrupted # Nobody
     /\ running' = interrupted /\ level' = Low
     /\ interrupted' = Nobody
     /\ queue' = q
  \/ /\ r = Nobody /\ q[High] = <<>> /\ interrupted = Nobody /\ q[Low] # <<>>
     /\ running' = Head(q[Low]) /\ level' = Low
     /\ queue' = [q EXCEPT ![Low] = Tail(@)]
     /\ UNCHANGED interrupted
  \/ /\ r = Nobody /\ interrupted = Nobody
     /\ q = [p \in Priority |-> <<>>]
     /\ running' = Nobody /\ queue' = q
     /\ UNCHANGED <<level, interrupted>>

------------------------------------------------------------------------------
Init ==
  /\ running = BootProcess
  /\ level = Low
  /\ interrupted = Nobody
  /\ queue = [p \in Priority |-> <<>>]
  /\ held = <<>>

\* A blocked process becomes ready while an instruction executes.
Arrive(w, p) ==
  /\ w \in Blocked
  /\ queue' = [queue EXCEPT ![p] = Append(@, w)]
  /\ UNCHANGED <<running, level, interrupted, held>>

\* The running process goes on, having made nothing ready.
Continue ==
  /\ Choose(running, queue)
  /\ UNCHANGED held

\* It makes a blocked process ready.
MakeReady(w, p) ==
  /\ running # Nobody
  /\ w \in Blocked
  /\ Choose(running, [queue EXCEPT ![p] = Append(@, w)])
  /\ UNCHANGED held

\* It blocks or ends.
Leave ==
  /\ running # Nobody
  /\ Choose(Nobody, queue)
  /\ UNCHANGED held

\* It lets the others of its priority go first.
Yield ==
  /\ running # Nobody
  /\ Choose(Nobody, [queue EXCEPT ![level] = Append(@, running)])
  /\ UNCHANGED held

\* It exchanges a queue for the processes it holds.
Exchange(p) ==
  /\ running # Nobody
  /\ held' = queue[p]
  /\ Choose(running, [queue EXCEPT ![p] = held])

\* It puts the processes it holds in front of a queue.
PutBack(p) ==
  /\ running # Nobody
  /\ held # <<>>
  /\ held' = <<>>
  /\ Choose(running, [queue EXCEPT ![p] = held \o @])

Next ==
  \/ \E w \in Proc, p \in Priority : Arrive(w, p) \/ MakeReady(w, p)
  \/ Continue \/ Leave \/ Yield
  \/ \E p \in Priority : Exchange(p) \/ PutBack(p)

Spec == Init /\ [][Next]_vars
==============================================================================
