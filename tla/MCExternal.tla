------------------------------ MODULE MCExternal ------------------------------
(***************************************************************************)
(* Two processes on two external channels, with a kernel that masks the    *)
(* trap while it runs or one that does not, and interrupts.                *)
(***************************************************************************)
EXTENDS ExternalChannels

\* The channels are alike, so one order of the two stands for both.
MCMapOrder == <<"c", "d">>

-----------------------------------------------------------------------------
KernelMaySee(s) == s.trap \/ s.handler # NobodyWaits
Nowhere(s, p) == p \notin Range(s.ready) \union {s.running, s.handler, s.canceled}

(***************************************************************************)
(* docs/instruction-status.md:81: "ExternalChannel traps leave enqueueing  *)
(* to the kernel."  A process that sleeps while the trap is enabled, or    *)
(* masked only for the kernel that runs, does not come to the ready queue  *)
(* but by the kernel.                                                      *)
(***************************************************************************)
ReleasesToKernel ==
  [][\A p \in ExtProcess :
       KernelMaySee(ext) /\ KernelMaySee(ext') /\ Nowhere(ext, p) => p \notin Range(ext'.ready)]_ext
=============================================================================
