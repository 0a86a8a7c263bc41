---------------------------- MODULE MCFileMeta -----------------------------
(* FileMeta with two sources of one file. *)
EXTENDS FileMeta, TLC

MCLengths == <<4, 4>>
MCSym     == Permutations(Readers)
=============================================================================
