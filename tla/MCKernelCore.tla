---------------------------- MODULE MCKernelCore ----------------------------
(***************************************************************************)
(* KernelCore with its invariant, for TLC.  The constants are in the cfg   *)
(* files: MCKernelCore two ticks over a one-character FIFO, ...Nested three*)
(* frames deep, ...Live with fairness.                                     *)
(***************************************************************************)
EXTENDS KernelCoreInvariant
=============================================================================
