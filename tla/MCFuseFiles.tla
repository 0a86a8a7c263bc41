---------------------------- MODULE MCFuseFiles ----------------------------
(* FuseFiles on a root with a file. *)
EXTENDS FuseFiles, TLC

CONSTANTS root, f

MCNodes    == {root, f}
MCChildren == (root :> {f}) @@ (f :> {})
MCSymmetry == Permutations(Workers) \cup Permutations(Threads)
=============================================================================
