------------------------------ MODULE MCLoader ------------------------------
(* Nodes files of up to three entries that get in each other's way: twice  *)
(* the same file, a file where a directory is asked for, entries and       *)
(* sources that are no good.  No path runs through a file.                 *)
EXTENDS Loader

CONSTANTS a, b, c, empty

Src(i)     == [id |-> i, type |-> "http", priority |-> NoPriority, valid |-> TRUE]
BadSrc(i)  == [Src(i) EXCEPT !.valid = FALSE]
FtpSrc(i)  == [Src(i) EXCEPT !.type = "ftp"]
Prio(i, p) == [Src(i) EXCEPT !.priority = p]

DirEntry(p)     == [type |-> "dir", decodes |-> TRUE, path |-> p, sources |-> << >>]
FileEntry(p, s) == [type |-> "file", decodes |-> TRUE, path |-> p, sources |-> s]

MCEntries ==
    {DirEntry(<<a, b>>), DirEntry(<<empty, c>>),
     [DirEntry(<<b>>) EXCEPT !.decodes = FALSE],
     [DirEntry(<<b>>) EXCEPT !.type = "other"],
     [DirEntry(<<b>>) EXCEPT !.type = "bad"],
     FileEntry(<<c>>, <<BadSrc(1), Src(2)>>),
     FileEntry(<<a, c>>, <<Src(3), BadSrc(4), Prio(5, 0)>>),
     FileEntry(<<empty, a, c>>, <<Src(6)>>),
     FileEntry(<<a, c>>, <<BadSrc(7)>>),
     FileEntry(<<empty>>, <<Src(10)>>),
     FileEntry(<<a, b, c>>, <<FtpSrc(8), Src(9)>>)}

MCNodesFiles == {Broken, Unreadable} \cup UNION {[1 .. n -> MCEntries] : n \in 0 .. 3}

MCConfigFiles ==
    {[readable |-> r, ext |-> e, parses |-> p, override |-> o] :
        r \in BOOLEAN, e \in {".yml", ".toml"}, p \in BOOLEAN,
        o \in {[ChunkSize |-> 0], [LogLvl |-> 5]}}

Dir(p)       == [op |-> "AddDirNode",  path |-> p, adapter |-> FALSE]
File(p)      == [op |-> "AddFileNode", path |-> p, adapter |-> TRUE]
FileNoSrc(p) == [op |-> "AddFileNode", path |-> p, adapter |-> FALSE]
DelReq(p)    == [op |-> "Del",         path |-> p, adapter |-> FALSE]

(* What embedding programs ask for, and the nodes files. *)
MCReqs ==
    {Dir(<<a, b>>), File(<<a, c>>), File(<<b>>), File(<<a, b, c>>),
     FileNoSrc(<<a, a, b>>), DelReq(<<a>>)}
    \cup {DirRequest(e) : e \in {x \in MCEntries : x.decodes /\ x.type = "dir"}}
    \cup {FileRequest(e) : e \in {x \in MCEntries : x.decodes /\ x.type = "file"}}

ASSUME OneCaller /\ NoRemoval /\ NoneThroughFiles
=============================================================================
