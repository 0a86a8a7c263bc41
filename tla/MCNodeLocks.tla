---------------------------- MODULE MCNodeLocks ----------------------------
(* NodeLocks on a root with a directory and a file in it. *)
EXTENDS NodeLocks, TLC

CONSTANTS p1, p2, p3

MCChain == <<0, 1, 2>>

MCServing == (p1 :> {"open", "readdir"}) @@ (p2 :> {"stat", "readdir", "del"}) @@
             (p3 :> {"stat", "del"})
MCNaming  == (p1 :> {"path"}) @@ (p2 :> {"path", "link"}) @@ (p3 :> {"unlink", "del"})
MCLogging == (p1 :> {"tree"}) @@ (p2 :> {"open", "del"}) @@ (p3 :> {"del"})
MCMixes   == {MCServing, MCNaming, MCLogging}
=============================================================================
