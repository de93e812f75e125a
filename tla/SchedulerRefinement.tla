------------------------- MODULE SchedulerRefinement -------------------------
(***************************************************************************)
(* The scheduler of the source implements PriorityScheduler: the processor *)
(* is the running bank, the interrupted process the shadow bank, and a     *)
(* queue the order in which its processes were put on the linked list.     *)
(***************************************************************************)
EXTENDS Scheduler

Abstract == INSTANCE PriorityScheduler WITH
  Nobody      <- NoProcess,
  running     <- IF cpu.running THEN cpu.wptr ELSE NoProcess,
  level       <- cpu.priority,
  interrupted <- IF shadow = NoShadow THEN NoProcess ELSE shadow.wptr,
  queue       <- order,
  held        <- chainOrder

\* Every behaviour of the linked lists and register banks is one of two
\* first-in first-out queues with preemption: what dispatchProcess takes off a
\* list is what that priority queued first.
ImplementsPriorityScheduler == Abstract!Spec
==============================================================================
