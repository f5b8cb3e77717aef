------------------------------ MODULE MCTunnel -------------------------------
(***************************************************************************)
(* Tunnel on small instances.  MCTunnelSafety.cfg has two callers race on  *)
(* two spawns; MCTunnelService.cfg follows one spawn through every ensure  *)
(* and Close under fairness.                                               *)
(***************************************************************************)
EXTENDS Tunnel, TLC

\* Callers and processes are interchangeable in every formula of the safety run.
Symmetry == Permutations(Callers) \cup Permutations(Procs)
==============================================================================
