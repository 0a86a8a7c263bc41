--------------------------- MODULE MCAdapterPool ---------------------------
(***************************************************************************)
(* AdapterPool for TLC.  Symmetry: threads only ever index functions.      *)
(***************************************************************************)
EXTENDS AdapterPool, TLC

ThreadSymmetry == Permutations(Threads)
=============================================================================
