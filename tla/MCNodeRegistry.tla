--------------------------- MODULE MCNodeRegistry ---------------------------
(* NodeRegistry on two small trees. *)
EXTENDS NodeRegistry, TLC

CONSTANTS root, d, f

(* A chain: / holds the directory d, d holds the file f. *)
MCNodes         == {root, d, f}
MCChainChildren == (root :> {d}) @@ (d :> {f}) @@ (f :> {})

(* Siblings: / holds d and f. *)
MCFlatChildren  == (root :> {d, f}) @@ (d :> {}) @@ (f :> {})

MCSymmetry == Permutations(Threads)
=============================================================================
