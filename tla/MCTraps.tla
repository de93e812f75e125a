------------------------------- MODULE MCTraps -------------------------------
\* Traps and interrupts on small instances.
EXTENDS Snapshots, TLC

CONSTANTS hp, lp, a, b, c, hpHandler, lpHandler, irq0, irq1

Handlers == (hp :> hpHandler) @@ (lp :> lpHandler)
Vectors  == (0 :> irq0) @@ (1 :> irq1)

NoTraps == [p \in {hp, lp} |-> {}]
LowTraps == (hp :> {}) @@ (lp :> Causes)
AllTraps == [p \in {hp, lp} |-> Causes]

RunTraps == (hp :> {}) @@ (lp :> {"RUN", "SIGNAL"})

\* A kernel of low priority, one of both, and one whose trap is disabled again.
Setups ==
  {[mask |-> LowTraps, handlerMask |-> NoTraps, cleared |-> {}, levels |-> {0, 1}],
   [mask |-> AllTraps, handlerMask |-> NoTraps, cleared |-> {}, levels |-> {1}],
   [mask |-> NoTraps, handlerMask |-> NoTraps, cleared |-> {}, levels |-> {0, 1}],
   [mask |-> RunTraps, handlerMask |-> NoTraps, cleared |-> {"RUN"}, levels |-> {}]}
==============================================================================
