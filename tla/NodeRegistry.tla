---------------------------- MODULE NodeRegistry ----------------------------
(***************************************************************************)
(* The NodeID registry of the file system (filesystem/fs.go) and the FUSE  *)
(* handlers that hand NodeIDs to the kernel and take them back             *)
(* (fuse/server.go).                                                       *)
(*                                                                         *)
(* A node gets a NodeID on demand, in EnsureNodeID, which takes no lock:   *)
(* its atomic operations (load, counter add, compare-and-swap, map store)  *)
(* are one action each and interleave with those of every other request.   *)
(* The kernel is external: it remembers the NodeIDs that replies gave it,  *)
(* calls the handlers with those and gives them up with Forget.            *)
(*                                                                         *)
(* The node tree does not change in this module (see NodeTree).            *)
(***************************************************************************)
EXTENDS Naturals

CONSTANTS
    Nodes,      \* the nodes of the tree
    Root,       \* its root
    Children,   \* Children[p]: the nodes in p's children map; a name is the child
    Threads,    \* the goroutines that serve FUSE requests
    NoNode      \* nil

FUSE_ROOT_ID == 1

ASSUME TreeAssumption ==
    /\ Root \in Nodes
    /\ NoNode \notin Nodes
    /\ Children \in [Nodes -> SUBSET (Nodes \ {Root})]

VARIABLES
    lastNodeID,    \* FileSystem.lastNodeID
    nodeID,        \* Node.nodeID; 0 when none was assigned
    nodeRegistry,  \* FileSystem.nodeRegistry, a partial function
    pc,            \* pc[t]: the next step of goroutine t
    op,            \* op[t]: the handler t runs
    arg,           \* arg[t]: the NodeID in the request's header
    node,          \* node[t]: the node EnsureNodeID works on
    newID,         \* newID[t]: EnsureNodeID's newID
    todo,          \* todo[t]: the entries ReadDirPlus has still to fill in
    outs,          \* outs[t]: the NodeIDs t's reply holds so far
    known,         \* the NodeIDs the kernel holds a reference to
    forgotten      \* history: the NodeIDs the kernel has ever given up

fsVars     == <<lastNodeID, nodeID, nodeRegistry>>
kernelVars == <<known, forgotten>>
vars == <<lastNodeID, nodeID, nodeRegistry, pc, op, arg, node, newID, todo,
          outs, known, forgotten>>

Labels == {"idle", "load", "fast", "add", "cas", "store", "reload", "ctx",
           "next", "reply", "fgload", "fgdel"}
Ops == {"none", "lookup", "readdirplus", "forget"}

TypeOK ==
    /\ lastNodeID \in Nat
    /\ nodeID \in [Nodes -> Nat]
    /\ DOMAIN nodeRegistry \subseteq Nat
    /\ nodeRegistry \in [DOMAIN nodeRegistry -> Nodes]
    /\ pc \in [Threads -> Labels]
    /\ op \in [Threads -> Ops]
    /\ arg \in [Threads -> Nat]
    /\ node \in [Threads -> Nodes \cup {NoNode}]
    /\ newID \in [Threads -> Nat]
    /\ todo \in [Threads -> SUBSET Nodes]
    /\ outs \in [Threads -> SUBSET Nat]
    /\ known \subseteq Nat
    /\ forgotten \subseteq Nat

-----------------------------------------------------------------------------
(* xsync.Map (external): a linearizable map. *)

MapStore(m, k, v) == [x \in DOMAIN m \cup {k} |-> IF x = k THEN v ELSE m[x]]
MapDelete(m, k)   == [x \in DOMAIN m \ {k} |-> m[x]]

(* NewFS: only the root is registered. *)
Init ==
    /\ lastNodeID = FUSE_ROOT_ID
    /\ nodeID = [n \in Nodes |-> IF n = Root THEN FUSE_ROOT_ID ELSE 0]
    /\ nodeRegistry = [id \in {FUSE_ROOT_ID} |-> Root]
    /\ pc = [t \in Threads |-> "idle"]
    /\ op = [t \in Threads |-> "none"]
    /\ arg = [t \in Threads |-> 0]
    /\ node = [t \in Threads |-> NoNode]
    /\ newID = [t \in Threads |-> 0]
    /\ todo = [t \in Threads |-> {}]
    /\ outs = [t \in Threads |-> {}]
    /\ known = {FUSE_ROOT_ID}
    /\ forgotten = {}

-----------------------------------------------------------------------------
(* The kernel (external). *)

Call(t, o, id, n, label) ==
    /\ pc[t] = "idle"
    /\ pc' = [pc EXCEPT ![t] = label]
    /\ op' = [op EXCEPT ![t] = o]
    /\ arg' = [arg EXCEPT ![t] = id]
    /\ node' = [node EXCEPT ![t] = n]

(* A Lookup names a directory the kernel holds.  "Many lookup calls can   *)
(* occur in parallel, but only one call happens for each (dir, name) pair" *)
(* (fuse/server.go:87).                                                    *)
KernelLookup(t) ==
    \E id \in known, name \in Nodes \ {Root} :
        /\ \A u \in Threads : ~(op[u] = "lookup" /\ arg[u] = id /\ node[u] = name)
        /\ Call(t, "lookup", id, name, "load")
        /\ UNCHANGED <<fsVars, kernelVars, newID, todo, outs>>

KernelReadDirPlus(t) ==
    \E id \in known :
        /\ Call(t, "readdirplus", id, NoNode, "load")
        /\ UNCHANGED <<fsVars, kernelVars, newID, todo, outs>>

(* The kernel evicts an inode, giving up all its lookups at once; a        *)
(* request in flight pins the inode it names and a cached child pins its   *)
(* directory.  The root is never given up.  The Forget reaches the server  *)
(* later, when t takes its next step.                                      *)
KernelForget(t) ==
    \E id \in known \ {FUSE_ROOT_ID} :
        /\ \A u \in Threads : op[u] \in {"lookup", "readdirplus"} => arg[u] # id
        /\ \A p \in Nodes : nodeID[p] = id =>
               \A c \in Children[p] : nodeID[c] \notin known
        /\ Call(t, "forget", id, NoNode, "fgload")
        /\ known' = known \ {id}
        /\ forgotten' = forgotten \cup {id}
        /\ UNCHANGED <<fsVars, newID, todo, outs>>

-----------------------------------------------------------------------------
Goto(t, label) == pc' = [pc EXCEPT ![t] = label]

(* A handler returns; the kernel takes a reference on every id in the      *)
(* reply.                                                                  *)
Reply(t, ids) ==
    /\ Goto(t, "idle")
    /\ op' = [op EXCEPT ![t] = "none"]
    /\ arg' = [arg EXCEPT ![t] = 0]
    /\ node' = [node EXCEPT ![t] = NoNode]
    /\ newID' = [newID EXCEPT ![t] = 0]
    /\ todo' = [todo EXCEPT ![t] = {}]
    /\ outs' = [outs EXCEPT ![t] = {}]
    /\ known' = known \cup ids

(* Lookup, GetChildCtx: load the parent by id, then the child by name;     *)
(* ENOENT when either is missing.                                          *)
Lookup(t) ==
    /\ pc[t] = "load" /\ op[t] = "lookup"
    /\ IF /\ arg[t] \in DOMAIN nodeRegistry
          /\ node[t] \in Children[nodeRegistry[arg[t]]]
         THEN /\ Goto(t, "fast")
              /\ UNCHANGED <<op, arg, node, newID, todo, outs, known>>
         ELSE Reply(t, {})
    /\ UNCHANGED <<fsVars, forgotten>>

(* ReadDirPlus: GetNodeCtx, then a part of the directory's snapshot, from  *)
(* the request's offset to where the reply buffer is full.                 *)
ReadDirPlus(t) ==
    /\ pc[t] = "load" /\ op[t] = "readdirplus"
    /\ IF arg[t] \in DOMAIN nodeRegistry
         THEN /\ Goto(t, "next")
              /\ \E part \in SUBSET Children[nodeRegistry[arg[t]]] :
                    todo' = [todo EXCEPT ![t] = part]
              /\ UNCHANGED <<op, arg, node, newID, outs, known>>
         ELSE Reply(t, {})
    /\ UNCHANGED <<fsVars, forgotten>>

(* One turn of ReadDirPlus's loop, or its end. *)
ReadDirPlusNext(t) ==
    /\ pc[t] = "next"
    /\ \/ \E c \in todo[t] :
             /\ Goto(t, "fast")
             /\ node' = [node EXCEPT ![t] = c]
             /\ todo' = [todo EXCEPT ![t] = @ \ {c}]
             /\ UNCHANGED <<op, arg, newID, outs, known>>
       \/ /\ todo[t] = {}
          /\ Reply(t, outs[t])
    /\ UNCHANGED <<fsVars, forgotten>>

(* EnsureNodeID returns id: ReadDirPlus puts it in the entry, GetChildCtx  *)
(* drops it and Lookup asks the node again.                                *)
EnsureReturn(t, id) ==
    /\ newID' = [newID EXCEPT ![t] = 0]
    /\ UNCHANGED <<op, arg, node, todo, kernelVars>>
    /\ \/ /\ op[t] = "lookup"
          /\ Goto(t, "ctx")
          /\ UNCHANGED outs
       \/ /\ op[t] = "readdirplus"
          /\ Goto(t, "next")
          /\ outs' = [outs EXCEPT ![t] = @ \cup {id}]

(* EnsureNodeID, the fast path. *)
EnsureFast(t) ==
    /\ pc[t] = "fast"
    /\ UNCHANGED fsVars
    /\ IF nodeID[node[t]] # 0
         THEN EnsureReturn(t, nodeID[node[t]])
         ELSE /\ Goto(t, "add")
              /\ UNCHANGED <<op, arg, node, newID, todo, outs, kernelVars>>

(* Mutant: the counter is read and written back in two steps. *)
EnsureAddLost(t) ==
    /\ pc[t] = "add"
    /\ newID' = [newID EXCEPT ![t] = lastNodeID + 1]
    /\ lastNodeID' \in {lastNodeID, lastNodeID + 1}
    /\ Goto(t, "cas")
    /\ UNCHANGED <<nodeID, nodeRegistry, op, arg, node, todo, outs, kernelVars>>

(* Mutant: the lowest id that the registry has free is used again. *)
EnsureAddFree(t) ==
    /\ pc[t] = "add"
    /\ newID' = [newID EXCEPT ![t] = CHOOSE id \in 1 .. lastNodeID + 1 :
                     id \notin DOMAIN nodeRegistry
                     /\ \A k \in 1 .. id - 1 : k \in DOMAIN nodeRegistry]
    /\ lastNodeID' = IF newID'[t] > lastNodeID THEN newID'[t] ELSE lastNodeID
    /\ Goto(t, "cas")
    /\ UNCHANGED <<nodeID, nodeRegistry, op, arg, node, todo, outs, kernelVars>>

(* newID := fs.lastNodeID.Add(1) *)
EnsureAdd(t) ==
    /\ pc[t] = "add"
    /\ lastNodeID' = lastNodeID + 1
    /\ newID' = [newID EXCEPT ![t] = lastNodeID']
    /\ Goto(t, "cas")
    /\ UNCHANGED <<nodeID, nodeRegistry, op, arg, node, todo, outs, kernelVars>>

(* Mutant: a plain store instead of the compare-and-swap. *)
EnsureCASBlind(t) ==
    /\ pc[t] = "cas"
    /\ nodeID' = [nodeID EXCEPT ![node[t]] = newID[t]]
    /\ Goto(t, "store")
    /\ UNCHANGED <<lastNodeID, nodeRegistry, op, arg, node, newID, todo, outs,
                   kernelVars>>

(* n.nodeID.CompareAndSwap(0, newID) *)
EnsureCAS(t) ==
    /\ pc[t] = "cas"
    /\ IF nodeID[node[t]] = 0
         THEN /\ nodeID' = [nodeID EXCEPT ![node[t]] = newID[t]]
              /\ Goto(t, "store")
         ELSE /\ Goto(t, "reload")
              /\ UNCHANGED nodeID
    /\ UNCHANGED <<lastNodeID, nodeRegistry, op, arg, node, newID, todo, outs,
                   kernelVars>>

(* Mutant: the winner forgets to enter the node in the registry. *)
EnsureStoreNone(t) ==
    /\ pc[t] = "store"
    /\ UNCHANGED fsVars
    /\ EnsureReturn(t, newID[t])

(* The winner enters the node in the registry. *)
EnsureStore(t) ==
    /\ pc[t] = "store"
    /\ nodeRegistry' = MapStore(nodeRegistry, newID[t], node[t])
    /\ UNCHANGED <<lastNodeID, nodeID>>
    /\ EnsureReturn(t, newID[t])

(* The loser loads the winner's id. *)
EnsureReload(t) ==
    /\ pc[t] = "reload"
    /\ UNCHANGED fsVars
    /\ EnsureReturn(t, nodeID[node[t]])

(* Lookup: out.NodeId = ctx.NodeID() *)
LookupReply(t) ==
    /\ pc[t] = "ctx"
    /\ Reply(t, {nodeID[node[t]]})
    /\ UNCHANGED <<fsVars, forgotten>>

(* Forget, ForgetNodeID: GetNodeCtx; nothing to do for an unknown id. *)
ForgetLoad(t) ==
    /\ pc[t] = "fgload"
    /\ IF arg[t] \in DOMAIN nodeRegistry
         THEN /\ Goto(t, "fgdel")
              /\ UNCHANGED <<op, arg, node, newID, todo, outs, known>>
         ELSE Reply(t, {})
    /\ UNCHANGED <<fsVars, forgotten>>

(* Mutant: the entry is overwritten with nil instead of deleted. *)
ForgetDeleteNil(t) ==
    /\ pc[t] = "fgdel"
    /\ nodeRegistry' = MapStore(nodeRegistry, arg[t], NoNode)
    /\ Reply(t, {})
    /\ UNCHANGED <<lastNodeID, nodeID, forgotten>>

(* fs.nodeRegistry.Delete(id); the node keeps its nodeID. *)
ForgetDelete(t) ==
    /\ pc[t] = "fgdel"
    /\ nodeRegistry' = MapDelete(nodeRegistry, arg[t])
    /\ Reply(t, {})
    /\ UNCHANGED <<lastNodeID, nodeID, forgotten>>

-----------------------------------------------------------------------------
Kernel(t) == KernelLookup(t) \/ KernelReadDirPlus(t) \/ KernelForget(t)

Handler(t) ==
    \/ Lookup(t) \/ ReadDirPlus(t) \/ ReadDirPlusNext(t)
    \/ EnsureFast(t) \/ EnsureAdd(t) \/ EnsureCAS(t) \/ EnsureStore(t)
    \/ EnsureReload(t) \/ LookupReply(t)
    \/ ForgetLoad(t) \/ ForgetDelete(t)

Next == \E t \in Threads : Kernel(t) \/ Handler(t)

Spec == Init /\ [][Next]_vars

(* Handlers take no lock that a step of this module waits for, so the Go   *)
(* scheduler eventually runs every goroutine that is inside one.  The      *)
(* kernel may stop calling.                                                *)
FairSpec == Spec /\ \A t \in Threads : WF_vars(Handler(t))

-----------------------------------------------------------------------------
(* A registered id is the id of the node it leads to: a handler that loads *)
(* a node by id never works on a node that is known by another id          *)
(* (EnsureNodeID, ForgetNodeID).                                           *)
RegistrySound ==
    \A id \in DOMAIN nodeRegistry : nodeID[nodeRegistry[id]] = id

(* Two nodes never share a NodeID, however many EnsureNodeID calls race    *)
(* ("We aren't recycling NodeIDs", fuse/server.go:256).                    *)
IDsUnique ==
    \A m, n \in Nodes : nodeID[m] = nodeID[n] /\ nodeID[m] # 0 => m = n

Accounted(id) ==
    \/ id \in DOMAIN nodeRegistry
    \/ id \in forgotten
    \/ \E t \in Threads : pc[t] = "store" /\ newID[t] = id

(* Every id the kernel holds leads to its node, unless the kernel itself   *)
(* gave that id up at some time, or the goroutine that won EnsureNodeID's  *)
(* race is about to enter it: the server loses no id on its own.           *)
LostOnlyByForget == \A id \in known : Accounted(id)

(* A NodeID means one node for as long as anybody may use it: a node gives *)
(* up its id only when neither the kernel nor the registry has it any more *)
(* (CompareAndSwap(0, newID) in EnsureNodeID), and the id it gets is one   *)
(* that the kernel has never held ("We aren't recycling NodeIDs",          *)
(* fuse/server.go:256).                                                    *)
IDsKeepMeaning ==
    [][\A n \in Nodes : nodeID'[n] # nodeID[n] =>
           /\ nodeID[n] \notin known' \cup DOMAIN nodeRegistry'
           /\ nodeID'[n] \notin known \cup forgotten]_vars

(* An id that EnsureNodeID has set on a node gets into the registry, or    *)
(* the kernel gives it up: no goroutine leaves the window between the      *)
(* compare-and-swap and the map store open for ever.                       *)
AssignedGetsRegistered ==
    \A n \in Nodes :
        nodeID[n] # 0 ~> \/ nodeID[n] \in DOMAIN nodeRegistry
                         \/ nodeID[n] \in forgotten

(* GetChildCtx says "A NodeID will be allocated for the child if it does   *)
(* not already exist" (filesystem/fs.go:195): when no request is being     *)
(* served, an id that a reply gave the kernel, and that the kernel still   *)
(* holds, leads to its node.                                               *)
KnownIDResolves ==
    (\A t \in Threads : pc[t] = "idle") => known \subseteq DOMAIN nodeRegistry
=============================================================================
