------------------------------ MODULE PathTree ------------------------------
(***************************************************************************)
(* What the loader promises of the tree it builds: a growing set of paths, *)
(* each a directory or a file.  A path is added below an existing          *)
(* directory, at most once, and stays what it is.                          *)
(***************************************************************************)
EXTENDS Sequences, SequencesExt

CONSTANT Comps     \* the parts a path may have
VARIABLE entries   \* path |-> "dir" or "file"

IsDir(e, p) == p = << >> \/ (p \in DOMAIN e /\ e[p] = "dir")

Add(e, p, k) == [q \in DOMAIN e \cup {p} |-> IF q = p THEN k ELSE e[q]]

Init == entries = << >>

Next ==
    LET old == entries
        now == entries'
    IN  \E p \in DOMAIN now \ DOMAIN old, k \in {"dir", "file"} :
            /\ IsDir(old, Front(p))
            /\ Last(p) \in Comps
            /\ now = Add(old, p, k)

Spec == Init /\ [][Next]_entries
=============================================================================
