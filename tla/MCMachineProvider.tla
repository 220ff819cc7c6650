---------------------------- MODULE MCMachineProvider ----------------------------
(***************************************************************************)
(* Instances of MachineProvider for TLC.                                   *)
(***************************************************************************)
EXTENDS MachineProvider, TLC

CONSTANTS w1, w2

MCWorkers == {w1, w2}
Symmetry == Permutations(MCWorkers)
=============================================================================
