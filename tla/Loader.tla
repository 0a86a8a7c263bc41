------------------------------- MODULE Loader -------------------------------
(***************************************************************************)
(* How a file system is set up.  The command (cmd/wfs/main.go) configures  *)
(* itself from its flags, reads the nodes file entry by entry              *)
(* (requests/unmarshal.go, adapters/registry.go), and only then creates    *)
(* the nodes, all directories before all files, through NodeTree's         *)
(* operations.  A program that embeds the server configures it from a file *)
(* (config.NewConfigFromFile) and makes requests as it likes.              *)
(***************************************************************************)
EXTENDS NodeTree, Config, FiniteSets

CONSTANTS
    Main,         \* the only caller
    NodesFiles,   \* the nodes files: sequences of entries,
    Broken,       \* or one that is no JSON array,
    Unreadable,   \* or one that cannot be read
    Verbosities,  \* what the -v flag may be given
    ConfigFiles   \* the configuration files of embedding programs

(* An entry of the nodes file, as encoding/json sees it: the "type" field  *)
(* ("bad" when the entry is no object), whether the rest decodes into the  *)
(* DTO, the path and the sources.  A source has a type, a priority unless  *)
(* it is NoPriority, and a configuration that its provider takes or not.   *)
NoPriority == -1
Source  == [id : Nat, type : {"http", "ftp"}, priority : Int, valid : BOOLEAN]
RawNode == [type : {"file", "dir", "other", "bad"}, decodes : BOOLEAN,
            path : Seq(Comps), sources : Seq(Source)]

(* The requests that AddDirNode and AddFileNode get for them.  FileSource. *)
(* Adapter fails for a source that its provider does not take.             *)
DirRequest(r)  == [op |-> "AddDirNode", path |-> r.path, adapter |-> FALSE]
FileRequest(r) == [op |-> "AddFileNode", path |-> r.path,
                   adapter |-> \E i \in DOMAIN r.sources : r.sources[i].valid]

(* Reqs has the requests of the nodes files as well as those of embedding  *)
(* programs.                                                               *)
Entry ==
    {e \in RawNode : e.decodes =>
        /\ e.type = "dir" => DirRequest(e) \in Reqs
        /\ e.type = "file" => FileRequest(e) \in Reqs}

ASSUME LoaderConstants ==
    /\ Threads = {Main}
    /\ {Broken, Unreadable} \cap Seq(RawNode) = {}
    /\ NodesFiles \subseteq Seq(Entry) \cup {Broken, Unreadable}
    /\ Verbosities \subseteq Int

VARIABLES
    phase,         \* how far main has got
    nodesFile,     \* what the nodes file holds; an empty one stands for none
    logLvl,        \* the global level of the logger
    cfg,           \* WebFS.cfg
    providers,     \* Registry.providers
    rawNodes,      \* the entries still to parse
    dirRequests,   \* the requests still to make
    fileRequests,
    fileAddCnt,
    pool           \* pool[i]: the adapters of file i's inode

startVars == <<nodesFile, logLvl, cfg, providers>>
loadVars  == <<phase, rawNodes, dirRequests, fileRequests, fileAddCnt, pool>>
loaderVars == <<vars, startVars, loadVars>>

(* The program has just been started, with a nodes file that nothing       *)
(* changes.  Nothing has been registered, the logger is at zerolog's       *)
(* default level, and the tree is NewFS's.                                 *)
LoaderInit ==
    /\ Init
    /\ phase = "start"
    /\ nodesFile \in NodesFiles
    /\ logLvl = TraceLevel
    /\ cfg = Defaults
    /\ providers = << >>
    /\ rawNodes = << >>
    /\ dirRequests = << >>
    /\ fileRequests = << >>
    /\ fileAddCnt = 0
    /\ pool = [i \in Inos |-> << >>]

-----------------------------------------------------------------------------
(* The adapter registry: the first provider of a type stays. *)

Register(ps, type, provider) ==
    IF type \in DOMAIN ps THEN ps
    ELSE [x \in DOMAIN ps \cup {type} |-> IF x = type THEN provider ELSE ps[x]]

(* RegisterBuiltins: all of them, that is HTTP, unless some are named. *)
RegisterBuiltins(ps, keys) ==
    IF keys = {} \/ "http" \in keys THEN Register(ps, "http", "HTTPProvider") ELSE ps

GetProvider(type) == IF type \in DOMAIN providers THEN {providers[type]} ELSE {}

(* The -v flag: 1 (error) to 5 (trace), cut off at both ends. *)
FlagLevel(v) == LogLvls[IF v < 1 THEN 1 ELSE IF v > 5 THEN 5 ELSE v]

(* main without a mount point: a fatal error, once the logger is set up. *)
NoMountPoint ==
    /\ phase = "start"
    /\ \E v \in Verbosities : logLvl' = FlagLevel(v)
    /\ phase' = "failed"
    /\ UNCHANGED <<vars, nodesFile, cfg, providers, rawNodes, dirRequests, fileRequests,
                   fileAddCnt, pool>>

(* The entries of the nodes file.  One that is no JSON array is reported   *)
(* and taken for an empty one.                                             *)
Given == IF nodesFile \in {Broken, Unreadable} THEN << >> ELSE nodesFile

(* main with a mount point, up to the nodes file; one that cannot be read  *)
(* is a fatal error.  The flags set the level of the logger, and the       *)
(* configuration is made from that level.  (What -umount does, it does     *)
(* outside, and its outcome is ignored.)                                   *)
Configure ==
    /\ phase = "start"
    /\ \E v \in Verbosities :
          /\ logLvl' = FlagLevel(v)
          /\ cfg' = NewConfig([LogLvl |-> FlagLevel(v)])
    /\ providers' = RegisterBuiltins(providers, {})
    /\ rawNodes' = Given
    /\ phase' = IF nodesFile = Unreadable THEN "failed" ELSE "parse"
    /\ UNCHANGED <<vars, nodesFile, dirRequests, fileRequests, fileAddCnt, pool>>

(* A program that embeds the server; without a configuration it stops.  It *)
(* reads no nodes file.                                                    *)
ConfigureFromFile ==
    /\ phase = "start" /\ nodesFile = << >>
    /\ \E f \in ConfigFiles :
          \/ /\ NewConfigFromFile(f) = {}
             /\ phase' = "failed"
             /\ UNCHANGED <<cfg, providers>>
          \/ /\ cfg' \in NewConfigFromFile(f)
             /\ providers' = RegisterBuiltins(providers, {})
             /\ phase' = "embedded"
    /\ UNCHANGED <<vars, nodesFile, logLvl, rawNodes, dirRequests, fileRequests,
                   fileAddCnt, pool>>

-----------------------------------------------------------------------------
(* unmarshalSources: a missing priority is the index, from 0; one type     *)
(* without a provider is an error for the whole entry.                     *)
UnmarshalSources(raw) ==
    IF \E i \in DOMAIN raw : GetProvider(raw[i].type) = {} THEN {}
    ELSE {[i \in DOMAIN raw |-> [raw[i] EXCEPT !.priority =
                                    IF @ = NoPriority THEN i - 1 ELSE @]]}

(* UnmarshalFileRequest, UnmarshalDirRequest: a set of one request, or     *)
(* none on an error.  convertNodeDTO's defaults are attributes.            *)
UnmarshalFileRequest(e) ==
    IF e.decodes THEN {[path |-> e.path, sources |-> s] : s \in UnmarshalSources(e.sources)}
    ELSE {}
UnmarshalDirRequest(e) == IF e.decodes THEN {[path |-> e.path]} ELSE {}

AppendAll(s, requests) == IF requests = {} THEN s ELSE Append(s, CHOOSE r \in requests : TRUE)

(* One turn of main's loop over the entries.  An entry without a type, of  *)
(* another type, or that does not decode is passed over.                   *)
Parse ==
    /\ phase = "parse"
    /\ \/ /\ rawNodes = << >>
          /\ phase' = "load"
          /\ UNCHANGED <<rawNodes, dirRequests, fileRequests>>
       \/ /\ rawNodes # << >>
          /\ LET e == Head(rawNodes)
             IN  /\ fileRequests' = IF e.type = "file"
                                      THEN AppendAll(fileRequests, UnmarshalFileRequest(e))
                                      ELSE fileRequests
                 /\ dirRequests' = IF e.type = "dir"
                                     THEN AppendAll(dirRequests, UnmarshalDirRequest(e))
                                     ELSE dirRequests
          /\ rawNodes' = Tail(rawNodes)
          /\ UNCHANGED phase
    /\ UNCHANGED <<vars, startVars, fileAddCnt, pool>>

-----------------------------------------------------------------------------
(* AddFileNode's loop over the sources: FileSource.Adapter, one that fails *)
(* is passed over.  The adapters are in the order of their sources, whose  *)
(* places they keep.                                                       *)
SourceAdapters(sources) == Restrict(sources, {i \in DOMAIN sources : sources[i].valid})

(* Mutant: files before directories. *)
LoadNextFilesFirst ==
    /\ phase = "load"
    /\ IF fileRequests # << >> THEN AddNode(Main, FileRequest(Head(fileRequests)))
       ELSE dirRequests # << >> /\ AddNode(Main, DirRequest(Head(dirRequests)))
    /\ UNCHANGED <<startVars, loadVars>>

(* main's two loops: the next request. *)
LoadNext ==
    /\ phase = "load"
    /\ IF dirRequests # << >> THEN AddNode(Main, DirRequest(Head(dirRequests)))
       ELSE fileRequests # << >> /\ AddNode(Main, FileRequest(Head(fileRequests)))
    /\ UNCHANGED <<startVars, loadVars>>

(* fileAddCnt counts the calls without an error. *)
Count(n) == IF results' # results THEN n + 1 ELSE n

(* A step of AddDirNode or AddFileNode; when it returns, on to the next    *)
(* request.                                                                *)
LoadStep ==
    /\ phase = "load"
    /\ Step(Main)
    /\ pool' = IF pc[Main] = "create" /\ pc'[Main] = "take"
                 THEN [pool EXCEPT ![lastIno'] = SourceAdapters(Head(fileRequests).sources)]
                 ELSE pool
    /\ IF pc'[Main] # "idle" THEN UNCHANGED <<dirRequests, fileRequests, fileAddCnt>>
       ELSE IF req[Main].op = "AddDirNode"
         THEN dirRequests' = Tail(dirRequests) /\ UNCHANGED <<fileRequests, fileAddCnt>>
         ELSE /\ fileRequests' = Tail(fileRequests)
              /\ fileAddCnt' = Count(fileAddCnt)
              /\ UNCHANGED dirRequests
    /\ UNCHANGED <<startVars, phase, rawNodes>>

(* On to Serve. *)
Loaded ==
    /\ phase = "load" /\ pc[Main] = "idle"
    /\ dirRequests = << >> /\ fileRequests = << >>
    /\ phase' = "serve"
    /\ UNCHANGED <<vars, startVars, rawNodes, dirRequests, fileRequests, fileAddCnt, pool>>

(* An embedding program calls what it likes. *)
EmbeddedStep ==
    /\ phase = "embedded"
    /\ Next
    /\ UNCHANGED <<startVars, loadVars>>

LoaderNext ==
    \/ NoMountPoint \/ Configure \/ ConfigureFromFile \/ Parse
    \/ LoadNext \/ LoadStep \/ Loaded
    \/ EmbeddedStep

LoaderSpec == LoaderInit /\ [][LoaderNext]_loaderVars

-----------------------------------------------------------------------------
(* The entries of a nodes file that ask for a directory, and for a file    *)
(* with a source that can be used.  One source of a type that no provider  *)
(* was registered for spoils its whole entry (unmarshalSources returns the *)
(* error); one whose provider refuses it is only left out (AddFileNode).   *)
DirEntries  == {i \in DOMAIN Given : Given[i].type = "dir" /\ Given[i].decodes}
FileEntries ==
    {i \in DOMAIN Given :
        LET e == Given[i]
        IN  /\ e.type = "file" /\ e.decodes
            /\ \A j \in DOMAIN e.sources : e.sources[j].type = "http"
            /\ \E j \in DOMAIN e.sources : e.sources[j].valid}
Ids(adapters) == {adapters[j].id : j \in DOMAIN adapters}
At(i) == Resolve([op |-> IF Given[i].type = "dir" THEN "AddDirNode" ELSE "AddFileNode",
                  path |-> Given[i].path])

(* Once main has loaded the nodes file, every directory in it is there and *)
(* is a directory, wherever a file of the same name stands (the loop over  *)
(* dirRequests comes first).  Every usable file entry has a node at its    *)
(* path: a directory if one was asked for, else a file with exactly the    *)
(* usable sources of the first usable entry for this path (AddFileNode     *)
(* refuses the others).  And there is no file that no usable entry asked   *)
(* for: an entry that is dropped leaves none behind.                       *)
EntriesLoaded ==
    phase = "serve" =>
        /\ \A i \in DirEntries : kind[At(i)] = "dir"
        /\ \A i \in FileEntries :
              /\ At(i) # NoIno
              /\ kind[At(i)] = "file" =>
                    LET same  == {j \in FileEntries : At(j) = At(i)}
                        first == Given[CHOOSE j \in same : \A k \in same : j <= k]
                    IN  Ids(pool[At(i)]) = Ids(SourceAdapters(first.sources))
        /\ \A n \in Inos : kind[n] = "file" => \E i \in FileEntries : At(i) = n
=============================================================================
