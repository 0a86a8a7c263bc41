----------------------------- MODULE FuseFiles -----------------------------
(***************************************************************************)
(* File handles: FuseRaw.Open, Read and Release (fuse/server.go), on top   *)
(* of NodeRegistry.  A handle is a number that openFiles takes to a        *)
(* NodeID, which the registry takes to a node; both are looked up anew on  *)
(* every read, while the registry's own requests go on.                    *)
(***************************************************************************)
EXTENDS NodeRegistry

CONSTANTS
    Workers,   \* the goroutines that serve Open, Read and Release
    MaxFh      \* bound on file handles


VARIABLES
    nextFileFh,  \* FuseRaw.nextFileFh
    openFiles,   \* FuseRaw.openFiles, a partial function from handles to ids
    wpc,         \* wpc[w]: the next step of worker w
    wfile,       \* wfile[w]: the open file of w's request, as the kernel sees it
    wid,         \* wid[w]: the NodeID that w works with
    got,         \* got[w]: the node that w's Read has reached, or its error
    files,       \* the files the kernel has open: handle, inode and a number
    opens        \* history: how many files the kernel has opened

fileVars  == <<nextFileFh, openFiles, wpc, wfile, wid, got, files, opens>>
filesVars == <<vars, fileVars>>

OpenFile == [fh : Nat, id : Nat, n : Nat]
NoFile   == [fh |-> 0, id |-> 0, n |-> 0]
Errors   == {"none", "EBADF", "EIO"}
WLabels  == {"idle", "open", "fh", "store", "readfh", "readnode", "answer", "release"}

ASSUME FilesAssumption == MaxFh \in Nat /\ Nodes \cap Errors = {}

FilesTypeOK ==
    /\ nextFileFh \in Nat
    /\ DOMAIN openFiles \subseteq Nat
    /\ openFiles \in [DOMAIN openFiles -> Nat]
    /\ wpc \in [Workers -> WLabels]
    /\ wfile \in [Workers -> OpenFile]
    /\ wid \in [Workers -> Nat]
    /\ got \in [Workers -> Nodes \cup Errors]
    /\ files \subseteq OpenFile
    /\ opens \in Nat

(* NewFuseRaw *)
FilesInit ==
    /\ Init
    /\ nextFileFh = 1
    /\ openFiles = << >>
    /\ wpc = [w \in Workers |-> "idle"]
    /\ wfile = [w \in Workers |-> NoFile]
    /\ wid = [w \in Workers |-> 0]
    /\ got = [w \in Workers |-> "none"]
    /\ files = {}
    /\ opens = 0

WGoto(w, label) == wpc' = [wpc EXCEPT ![w] = label]

Done(w) ==
    /\ WGoto(w, "idle")
    /\ wfile' = [wfile EXCEPT ![w] = NoFile]
    /\ wid' = [wid EXCEPT ![w] = 0]
    /\ got' = [got EXCEPT ![w] = "none"]

-----------------------------------------------------------------------------
(* The kernel (external) opens a file whose inode it holds; reads what it  *)
(* has open; and releases a file once, when nothing else uses it.          *)

KernelOpen(w) ==
    /\ wpc[w] = "idle" /\ nextFileFh < MaxFh
    /\ \E n \in Nodes :
          /\ Children[n] = {} /\ nodeID[n] \in known
          /\ wid' = [wid EXCEPT ![w] = nodeID[n]]
    /\ WGoto(w, "open")
    /\ UNCHANGED <<vars, nextFileFh, openFiles, wfile, got, files, opens>>

KernelRead(w) ==
    /\ wpc[w] = "idle"
    /\ \E f \in files : wfile' = [wfile EXCEPT ![w] = f]
    /\ WGoto(w, "readfh")
    /\ UNCHANGED <<vars, nextFileFh, openFiles, wid, got, files, opens>>

KernelRelease(w) ==
    /\ wpc[w] = "idle"
    /\ \E f \in files :
          /\ \A u \in Workers : wfile[u] # f
          /\ wfile' = [wfile EXCEPT ![w] = f]
          /\ files' = files \ {f}
    /\ WGoto(w, "release")
    /\ UNCHANGED <<vars, nextFileFh, openFiles, wid, got, opens>>

(* An open file, and an Open in flight, pin their inode: the kernel does   *)
(* not give it up.                                                         *)
Pinned(id) == (\E f \in files : f.id = id) \/ (\E w \in Workers : wid[w] = id)

RegistryStep ==
    /\ Next
    /\ \A id \in known \ known' : ~Pinned(id)
    /\ UNCHANGED fileVars

-----------------------------------------------------------------------------
(* Open: GetNodeCtx, ENOENT when there is no such node. *)
Open(w) ==
    /\ wpc[w] = "open"
    /\ IF wid[w] \in DOMAIN nodeRegistry
         THEN WGoto(w, "fh") /\ UNCHANGED <<wfile, wid, got>>
         ELSE Done(w)
    /\ UNCHANGED <<vars, nextFileFh, openFiles, files, opens>>

(* Mutant: the counter is read and written back in two steps. *)
OpenFhLost(w) ==
    /\ wpc[w] = "fh"
    /\ nextFileFh' \in {nextFileFh, nextFileFh + 1}
    /\ wfile' = [wfile EXCEPT ![w] = [fh |-> nextFileFh + 1, id |-> wid[w], n |-> 0]]
    /\ WGoto(w, "store")
    /\ UNCHANGED <<vars, openFiles, wid, got, files, opens>>

(* fh := r.nextFileFh.Add(1) *)
OpenFh(w) ==
    /\ wpc[w] = "fh"
    /\ nextFileFh' = nextFileFh + 1
    /\ wfile' = [wfile EXCEPT ![w] = [fh |-> nextFileFh', id |-> wid[w], n |-> 0]]
    /\ WGoto(w, "store")
    /\ UNCHANGED <<vars, openFiles, wid, got, files, opens>>

(* The kernel has its reply. *)
Opened(w) ==
    /\ opens' = opens + 1
    /\ files' = files \cup {[wfile[w] EXCEPT !.n = opens']}

(* Mutant: the node is stored instead of its id. *)
OpenStoreNode(w) ==
    /\ wpc[w] = "store"
    /\ openFiles' = MapStore(openFiles, wfile[w].fh, Root)
    /\ Opened(w)
    /\ Done(w)
    /\ UNCHANGED <<vars, nextFileFh>>

(* r.openFiles.Store(fh, in.NodeId); the reply opens the file. *)
OpenStore(w) ==
    /\ wpc[w] = "store"
    /\ openFiles' = MapStore(openFiles, wfile[w].fh, wid[w])
    /\ Opened(w)
    /\ Done(w)
    /\ UNCHANGED <<vars, nextFileFh>>

Answer(w, a) ==
    /\ got' = [got EXCEPT ![w] = a]
    /\ WGoto(w, "answer")

(* Read: r.openFiles.Load(in.Fh), EBADF when there is no such handle. *)
ReadFh(w) ==
    /\ wpc[w] = "readfh"
    /\ IF wfile[w].fh \in DOMAIN openFiles
         THEN /\ wid' = [wid EXCEPT ![w] = openFiles[wfile[w].fh]]
              /\ WGoto(w, "readnode")
              /\ UNCHANGED got
         ELSE Answer(w, "EBADF") /\ UNCHANGED wid
    /\ UNCHANGED <<vars, nextFileFh, openFiles, wfile, files, opens>>

(* FileSystem.Read: GetNodeCtx, an error (EIO) when there is no such node; *)
(* else the node's data (InodeRead).                                       *)
ReadNode(w) ==
    /\ wpc[w] = "readnode"
    /\ Answer(w, IF wid[w] \in DOMAIN nodeRegistry THEN nodeRegistry[wid[w]] ELSE "EIO")
    /\ UNCHANGED <<vars, nextFileFh, openFiles, wfile, wid, files, opens>>

ReadReply(w) ==
    /\ wpc[w] = "answer"
    /\ Done(w)
    /\ UNCHANGED <<vars, nextFileFh, openFiles, files, opens>>

(* r.openFiles.Delete(in.Fh) *)
Release(w) ==
    /\ wpc[w] = "release"
    /\ openFiles' = MapDelete(openFiles, wfile[w].fh)
    /\ Done(w)
    /\ UNCHANGED <<vars, nextFileFh, files, opens>>

-----------------------------------------------------------------------------
WorkerStep(w) ==
    \/ KernelOpen(w) \/ KernelRead(w) \/ KernelRelease(w)
    \/ Open(w) \/ OpenFh(w) \/ OpenStore(w)
    \/ ReadFh(w) \/ ReadNode(w) \/ ReadReply(w)
    \/ Release(w)

FilesNext == RegistryStep \/ \E w \in Workers : WorkerStep(w)

FilesSpec == FilesInit /\ [][FilesNext]_filesVars

-----------------------------------------------------------------------------
(* The table of handles and the kernel's open files agree: a file the      *)
(* kernel has open keeps its own handle with the id it was opened for, and *)
(* a handle without an open file is being released: none is shared, lost   *)
(* or left behind, whatever Opens, Reads and Releases run at the same      *)
(* time (FuseRaw.nextFileFh, openFiles).                                   *)
HandlesMatch ==
    /\ \A f \in files : f.fh \in DOMAIN openFiles /\ openFiles[f.fh] = f.id
    /\ \A f, g \in files : f.fh = g.fh => f = g
    /\ \A fh \in DOMAIN openFiles :
          \/ \E f \in files : f.fh = fh
          \/ \E w \in Workers : wpc[w] = "release" /\ wfile[w].fh = fh

(* A Read of an open file works on the node whose id the kernel opened,    *)
(* never on another one, and misses it only if the kernel once gave up     *)
(* that id: no NodeID and no handle changes its meaning between Open and   *)
(* Read, and nothing but a Forget that is handled late takes the node from *)
(* under a handle (FuseRaw.Read, FileSystem.Read, ForgetNodeID).           *)
ReadsOwnFile ==
    \A w \in Workers : wpc[w] = "answer" =>
        IF got[w] \in Nodes THEN nodeID[got[w]] = wfile[w].id
        ELSE got[w] = "EIO" /\ wfile[w].id \in forgotten
=============================================================================
