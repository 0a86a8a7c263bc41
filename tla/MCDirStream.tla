---------------------------- MODULE MCDirStream ----------------------------
(* DirStream with readers, and nodes that are there from the start, that   *)
(* are interchangeable.                                                    *)
EXTENDS DirStream, TLC

MCSymmetry == Permutations(Readers) \cup Permutations(First)
=============================================================================
