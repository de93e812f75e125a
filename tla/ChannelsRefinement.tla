-------------------------- MODULE ChannelsRefinement --------------------------
(***************************************************************************)
(* The channels of the source implement Rendezvous.  A process wants the   *)
(* guards of its alternative until the branch selected has input, or the   *)
(* channel whose word holds it.                                            *)
(***************************************************************************)
EXTENDS Channels

Wanted(w) ==
  IF pc[w] = "run"
  THEN {ch \in Chan : Receiver[ch] = w /\ word[ch] = w}
  ELSE guards[w]

Abstract == INSTANCE Rendezvous WITH wanted <- [w \in Proc |-> Wanted(w)]

\* Every message reaches its receiver once and in order, when both want it,
\* whichever of them comes first and whether or not an alternative chooses:
\* selecting a guard neither takes the message nor lets go of another guard's.
ImplementsRendezvous == Abstract!Spec
===============================================================================
