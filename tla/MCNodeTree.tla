----------------------------- MODULE MCNodeTree -----------------------------
(* NodeTree with few names and the requests that can get in each other's   *)
(* way: the same directory twice, directories below a common one, a file   *)
(* where another request wants a directory, a file without any adapter.    *)
EXTENDS NodeTree, TLC

CONSTANTS a, b, c, empty

Dir(p)       == [op |-> "AddDirNode",  path |-> p, adapter |-> FALSE]
File(p)      == [op |-> "AddFileNode", path |-> p, adapter |-> TRUE]
FileNoSrc(p) == [op |-> "AddFileNode", path |-> p, adapter |-> FALSE]
DelReq(p)    == [op |-> "Del",         path |-> p, adapter |-> FALSE]
RemoveReq(p) == [op |-> "RemoveChild", path |-> p, adapter |-> FALSE]

MCMixedReqs ==
    {Dir(<<a, b>>), File(<<empty, a, b>>), FileNoSrc(<<b>>), RemoveReq(<<a>>), RemoveReq(<<a, b>>),
     DelReq(<<a>>)}

MCSymmetry == Permutations(Threads)
=============================================================================
