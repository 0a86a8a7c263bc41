---------------------------- MODULE MCInodeRead ----------------------------
(* InodeRead with two sources of different lengths. *)
EXTENDS InodeRead, TLC

MCLength   == <<2, 1>>
MCSymmetry == Permutations(Threads)
=============================================================================
