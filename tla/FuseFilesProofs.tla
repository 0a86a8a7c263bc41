-------------------------- MODULE FuseFilesProofs --------------------------
(***************************************************************************)
(* Proofs about NodeRegistry and FuseFiles, for every tree and every       *)
(* number of requests, goroutines and workers.  Every step of FuseFiles is *)
(* a step of the registry or none, so that the registry's invariant, which *)
(* comes first, is a part of that of the file handles.                     *)
(***************************************************************************)
EXTENDS FuseFiles, TLAPS

-----------------------------------------------------------------------------
(* The registry's inductive invariant.  The safety properties do not       *)
(* survive a step on their own: they need which ids are unused (Fresh),    *)
(* what a goroutine knows at each step (Local), that every id handed out   *)
(* belongs to a node, even after it was given up (HandedOut, GivenUp), and *)
(* where every assigned id is (Placed).                                    *)

CounterOK ==
    /\ lastNodeID >= FUSE_ROOT_ID
    /\ \A n \in Nodes : nodeID[n] <= lastNodeID
    /\ 0 \notin DOMAIN nodeRegistry

Fresh ==
    \A t \in Threads : pc[t] = "cas" =>
        /\ newID[t] # 0 /\ newID[t] <= lastNodeID
        /\ \A n \in Nodes : nodeID[n] # newID[t]
        /\ \A u \in Threads : u # t /\ pc[u] = "cas" => newID[u] # newID[t]

Local ==
    \A t \in Threads :
        /\ pc[t] \in {"fast", "add", "cas", "store", "reload", "ctx"} => node[t] \in Nodes
        /\ pc[t] \in {"reload", "ctx"} => nodeID[node[t]] # 0
        /\ pc[t] = "store" => newID[t] # 0 /\ nodeID[node[t]] = newID[t]
        /\ pc[t] \in {"fgload", "fgdel"} => arg[t] \in forgotten

Assigned(id) == \E n \in Nodes : nodeID[n] = id /\ id # 0

HandedOut ==
    /\ \A id \in known : Assigned(id)
    /\ \A t \in Threads : \A id \in outs[t] : Assigned(id)

GivenUp == \A id \in forgotten : Assigned(id)

Placed == \A n \in Nodes : nodeID[n] # 0 => Accounted(nodeID[n])

IndInv ==
    /\ TypeOK
    /\ CounterOK
    /\ Fresh
    /\ Local
    /\ RegistrySound
    /\ IDsUnique
    /\ HandedOut
    /\ GivenUp
    /\ Placed

-----------------------------------------------------------------------------
(* NewFS establishes the invariant. *)
LEMMA InitInv == Init => IndInv
  BY TreeAssumption
     DEF Init, IndInv, TypeOK, CounterOK, Fresh, Local, RegistrySound, IDsUnique,
         HandedOut, GivenUp, Placed, Assigned, Accounted, Labels, Ops, FUSE_ROOT_ID

(* No step of the kernel or of a handler leads out of the types. *)
LEMMA TypePreserved == TypeOK /\ Local /\ [Next]_vars => TypeOK'
<1> SUFFICES ASSUME TypeOK, Local, [Next]_vars PROVE TypeOK'
    OBVIOUS
<1> USE TreeAssumption DEF TypeOK, Labels, Ops
<1>1. ASSUME NEW t \in Threads, KernelLookup(t) PROVE TypeOK'
    BY <1>1 DEF KernelLookup, Call, fsVars, kernelVars
<1>2. ASSUME NEW t \in Threads, KernelReadDirPlus(t) PROVE TypeOK'
    BY <1>2 DEF KernelReadDirPlus, Call, fsVars, kernelVars
<1>3. ASSUME NEW t \in Threads, KernelForget(t) PROVE TypeOK'
    BY <1>3 DEF KernelForget, Call, fsVars
<1>4. ASSUME NEW t \in Threads, Lookup(t) PROVE TypeOK'
    BY <1>4 DEF Lookup, Reply, Goto, fsVars
<1>5. ASSUME NEW t \in Threads, ReadDirPlus(t) PROVE TypeOK'
  <2>1. CASE arg[t] \in DOMAIN nodeRegistry
    <3>1. Children[nodeRegistry[arg[t]]] \subseteq Nodes
        BY <2>1
    <3> QED
        BY <1>5, <2>1, <3>1 DEF ReadDirPlus, Goto, fsVars
  <2>2. CASE arg[t] \notin DOMAIN nodeRegistry
    BY <1>5, <2>2 DEF ReadDirPlus, Reply, Goto, fsVars
  <2> QED
    BY <2>1, <2>2
<1>6. ASSUME NEW t \in Threads, ReadDirPlusNext(t) PROVE TypeOK'
    BY <1>6 DEF ReadDirPlusNext, Reply, Goto, fsVars
<1>7. ASSUME NEW t \in Threads, EnsureFast(t) PROVE TypeOK'
  <2>1. node[t] \in Nodes /\ nodeID[node[t]] \in Nat
    BY <1>7 DEF EnsureFast, Local
  <2>2. outs' \in [Threads -> SUBSET Nat]
    BY <1>7, <2>1 DEF EnsureFast, EnsureReturn
  <2> QED
    BY <1>7, <2>2 DEF EnsureFast, EnsureReturn, Goto, fsVars, kernelVars
<1>8. ASSUME NEW t \in Threads, EnsureAdd(t) PROVE TypeOK'
    BY <1>8 DEF EnsureAdd, Goto, kernelVars
<1>9. ASSUME NEW t \in Threads, EnsureCAS(t) PROVE TypeOK'
    BY <1>9 DEF EnsureCAS, Goto, kernelVars
<1>10. ASSUME NEW t \in Threads, EnsureStore(t) PROVE TypeOK'
    BY <1>10 DEF EnsureStore, EnsureReturn, MapStore, Goto, kernelVars, Local
<1>11. ASSUME NEW t \in Threads, EnsureReload(t) PROVE TypeOK'
    BY <1>11 DEF EnsureReload, EnsureReturn, Goto, fsVars, kernelVars, Local
<1>12. ASSUME NEW t \in Threads, LookupReply(t) PROVE TypeOK'
    BY <1>12 DEF LookupReply, Reply, Goto, fsVars, Local
<1>13. ASSUME NEW t \in Threads, ForgetLoad(t) PROVE TypeOK'
    BY <1>13 DEF ForgetLoad, Reply, Goto, fsVars
<1>14. ASSUME NEW t \in Threads, ForgetDelete(t) PROVE TypeOK'
    BY <1>14 DEF ForgetDelete, Reply, MapDelete, Goto
<1>15. CASE UNCHANGED vars
    BY <1>15 DEF vars
<1> QED
    BY <1>1, <1>2, <1>3, <1>4, <1>5, <1>6, <1>7, <1>8, <1>9, <1>10, <1>11,
       <1>12, <1>13, <1>14, <1>15 DEF Next, Kernel, Handler

(* A step of one goroutine that leaves the registry and the counters alone *)
(* keeps the invariant, if what the goroutine knows afterwards is right    *)
(* and the reply it builds, or sends, holds assigned ids only.             *)
LEMMA QuietStep ==
    ASSUME IndInv, TypeOK', NEW t \in Threads,
           UNCHANGED fsVars, forgotten \subseteq forgotten',
           pc[t] # "store", pc'[t] \notin {"cas", "store"},
           \A u \in Threads : u # t =>
               /\ pc'[u] = pc[u] /\ node'[u] = node[u] /\ arg'[u] = arg[u]
               /\ newID'[u] = newID[u] /\ outs'[u] = outs[u],
           /\ pc'[t] \in {"fast", "add", "reload", "ctx"} => node'[t] \in Nodes
           /\ pc'[t] \in {"reload", "ctx"} => nodeID[node'[t]] # 0
           /\ pc'[t] \in {"fgload", "fgdel"} => arg'[t] \in forgotten',
           \A id \in known' \cup forgotten' \cup outs'[t] : Assigned(id)
    PROVE  IndInv'
<1>1. CounterOK' /\ RegistrySound' /\ IDsUnique'
    BY DEF IndInv, CounterOK, RegistrySound, IDsUnique, fsVars
<1>2. Fresh'
    BY DEF IndInv, Fresh, fsVars
<1>3. Local'
    BY DEF IndInv, Local, fsVars
<1>4. HandedOut' /\ GivenUp'
    BY DEF IndInv, HandedOut, GivenUp, Assigned, fsVars
<1>5. Placed'
    BY DEF IndInv, Placed, Accounted, fsVars
<1> QED
    BY <1>1, <1>2, <1>3, <1>4, <1>5 DEF IndInv

(* Every step preserves the invariant.  EnsureAdd, EnsureCAS and           *)
(* EnsureStore take an id from unused to assigned to registered, and       *)
(* ForgetDelete takes it out again; the others are quiet.                  *)
LEMMA NextInv == IndInv /\ [Next]_vars => IndInv'
<1> SUFFICES ASSUME IndInv, [Next]_vars PROVE IndInv'
    OBVIOUS
<1> USE TreeAssumption
<1>0. TypeOK'
    BY TypePreserved DEF IndInv
<1>1. ASSUME NEW t \in Threads, Kernel(t) PROVE IndInv'
  <2>1. /\ UNCHANGED <<fsVars, newID, outs>>
        /\ pc[t] = "idle" /\ pc'[t] \in {"load", "fgload"}
        /\ \A u \in Threads : u # t =>
               pc'[u] = pc[u] /\ node'[u] = node[u] /\ arg'[u] = arg[u]
        /\ known' \subseteq known /\ forgotten \subseteq forgotten'
        /\ forgotten' \subseteq forgotten \cup known
        /\ pc'[t] = "fgload" => arg'[t] \in forgotten'
    BY <1>1 DEF IndInv, TypeOK, Kernel, KernelLookup, KernelReadDirPlus, KernelForget,
                Call, kernelVars, fsVars
  <2>2. \A id \in known' \cup forgotten' \cup outs'[t] : Assigned(id)
    BY <2>1 DEF IndInv, HandedOut, GivenUp
  <2> QED
    BY <1>0, <2>1, <2>2, QuietStep
<1>2. ASSUME NEW t \in Threads,
             Lookup(t) \/ ReadDirPlus(t) \/ ReadDirPlusNext(t) \/ ForgetLoad(t)
      PROVE  IndInv'
  <2>1. /\ UNCHANGED <<fsVars, forgotten>>
        /\ pc[t] \in {"load", "next", "fgload"}
        /\ pc'[t] \in {"idle", "fast", "next", "fgdel"}
        /\ pc'[t] = "fgdel" => pc[t] = "fgload" /\ arg'[t] = arg[t]
        /\ \A u \in Threads : u # t =>
               /\ pc'[u] = pc[u] /\ node'[u] = node[u] /\ arg'[u] = arg[u]
               /\ newID'[u] = newID[u] /\ outs'[u] = outs[u]
        /\ known' \subseteq known \cup outs[t] /\ outs'[t] \subseteq outs[t]
    BY <1>2 DEF IndInv, TypeOK, Lookup, ReadDirPlus, ReadDirPlusNext, ForgetLoad,
                Reply, Goto
  <2>2. pc'[t] = "fast" => node'[t] \in Nodes
    BY <1>2 DEF IndInv, TypeOK, Lookup, ReadDirPlus, ReadDirPlusNext, ForgetLoad,
                Reply, Goto
  <2>3. \A id \in known' \cup forgotten' \cup outs'[t] : Assigned(id)
    BY <2>1 DEF IndInv, HandedOut, GivenUp
  <2>4. pc'[t] = "fgdel" => arg'[t] \in forgotten'
    BY <2>1 DEF IndInv, Local
  <2> QED
    BY <1>0, <2>1, <2>2, <2>3, <2>4, QuietStep
<1>3. ASSUME NEW t \in Threads, EnsureFast(t) \/ EnsureReload(t) \/ LookupReply(t)
      PROVE  IndInv'
  <2>1. /\ UNCHANGED <<fsVars, forgotten>>
        /\ pc[t] \in {"fast", "reload", "ctx"}
        /\ pc'[t] \in {"idle", "add", "next", "ctx"}
        /\ pc'[t] \in {"add", "ctx"} => node'[t] = node[t]
        /\ \A u \in Threads : u # t =>
               /\ pc'[u] = pc[u] /\ node'[u] = node[u] /\ arg'[u] = arg[u]
               /\ newID'[u] = newID[u] /\ outs'[u] = outs[u]
        /\ known' \subseteq known \cup {nodeID[node[t]]}
        /\ outs'[t] \subseteq outs[t] \cup {nodeID[node[t]]}
    BY <1>3 DEF IndInv, TypeOK, EnsureFast, EnsureReload, LookupReply, EnsureReturn,
                Reply, Goto, kernelVars
  <2>2. node[t] \in Nodes
    BY <2>1 DEF IndInv, Local
  <2>3. nodeID[node[t]] # 0 \/ (known' = known /\ outs' = outs /\ pc'[t] = "add")
    BY <1>3 DEF IndInv, Local, EnsureFast, EnsureReload, LookupReply, Goto, kernelVars,
                TypeOK
  <2>4. \A id \in known' \cup forgotten' \cup outs'[t] : Assigned(id)
    BY <2>1, <2>2, <2>3 DEF IndInv, HandedOut, GivenUp, Assigned
  <2> QED
    BY <1>0, <2>1, <2>2, <2>3, <2>4, QuietStep
<1>4. ASSUME NEW t \in Threads, EnsureAdd(t) PROVE IndInv'
  <2>1. /\ UNCHANGED <<nodeID, nodeRegistry, node, arg, outs, known, forgotten>>
        /\ lastNodeID' = lastNodeID + 1 /\ newID'[t] = lastNodeID + 1
        /\ pc[t] = "add" /\ pc'[t] = "cas"
        /\ \A u \in Threads : u # t => pc'[u] = pc[u] /\ newID'[u] = newID[u]
    BY <1>4 DEF IndInv, TypeOK, EnsureAdd, Goto, kernelVars
  <2>2. CounterOK' /\ RegistrySound' /\ IDsUnique' /\ HandedOut' /\ GivenUp'
    BY <2>1 DEF IndInv, TypeOK, CounterOK, RegistrySound, IDsUnique, HandedOut, GivenUp, Assigned,
                FUSE_ROOT_ID
  <2>3. Fresh'
    BY <2>1 DEF IndInv, TypeOK, CounterOK, Fresh
  <2>4. Local'
    BY <2>1 DEF IndInv, Local
  <2>5. Placed'
    BY <2>1 DEF IndInv, Placed, Accounted
  <2> QED
    BY <1>0, <2>2, <2>3, <2>4, <2>5 DEF IndInv
<1>5. ASSUME NEW t \in Threads, EnsureCAS(t) PROVE IndInv'
  <2>1. /\ UNCHANGED <<lastNodeID, nodeRegistry, node, arg, newID, outs, known, forgotten>>
        /\ pc[t] = "cas" /\ node[t] \in Nodes /\ newID[t] # 0
        /\ \A u \in Threads : u # t => pc'[u] = pc[u]
    BY <1>5 DEF IndInv, TypeOK, Local, Fresh, EnsureCAS, Goto, kernelVars
  <2>2. CASE nodeID[node[t]] = 0
    <3>1. /\ nodeID' = [nodeID EXCEPT ![node[t]] = newID[t]]
          /\ pc'[t] = "store"
        BY <1>5, <2>2 DEF IndInv, TypeOK, EnsureCAS, Goto
    <3>2. \A n \in Nodes : nodeID[n] # 0 => nodeID'[n] = nodeID[n] /\ n # node[t]
        BY <2>1, <2>2, <3>1 DEF IndInv, TypeOK
    <3>3. nodeID'[node[t]] = newID[t]
        BY <2>1, <3>1 DEF IndInv, TypeOK
    <3>4. \A n \in Nodes : nodeID[n] # newID[t]
        BY <2>1 DEF IndInv, Fresh
    <3>5. CounterOK'
        BY <2>1, <3>1 DEF IndInv, TypeOK, CounterOK, Fresh
    <3>6. IDsUnique'
        BY <2>1, <3>1, <3>4 DEF IndInv, TypeOK, IDsUnique
    <3>7. RegistrySound'
        BY <2>1, <3>2 DEF IndInv, TypeOK, CounterOK, RegistrySound
    <3>8. Fresh'
        BY <2>1, <3>1, <3>2, <3>3, <3>4 DEF IndInv, TypeOK, Fresh
    <3>9. Local'
        BY <2>1, <3>1, <3>2, <3>3 DEF IndInv, TypeOK, Local
    <3>10. HandedOut' /\ GivenUp'
        BY <2>1, <3>2 DEF IndInv, HandedOut, GivenUp, Assigned
    <3>11. Placed'
      <4> SUFFICES ASSUME NEW n \in Nodes, nodeID'[n] # 0 PROVE Accounted(nodeID[n])'
          BY DEF Placed
      <4>1. CASE n = node[t]
          BY <2>1, <3>1, <3>3, <4>1 DEF Accounted
      <4>2. CASE n # node[t]
        <5>1. nodeID'[n] = nodeID[n] /\ Accounted(nodeID[n])
            BY <3>1, <4>2 DEF IndInv, TypeOK, Placed
        <5> QED
            BY <2>1, <5>1 DEF Accounted
      <4> QED
          BY <4>1, <4>2
    <3> QED
        BY <1>0, <3>5, <3>6, <3>7, <3>8, <3>9, <3>10, <3>11 DEF IndInv
  <2>3. CASE nodeID[node[t]] # 0
    <3>1. pc'[t] = "reload" /\ UNCHANGED nodeID
        BY <1>5, <2>3 DEF IndInv, TypeOK, EnsureCAS, Goto
    <3>2. \A id \in known' \cup forgotten' \cup outs'[t] : Assigned(id)
        BY <2>1 DEF IndInv, HandedOut, GivenUp
    <3> QED
        BY <1>0, <2>1, <2>3, <3>1, <3>2, QuietStep DEF fsVars
  <2> QED
    BY <2>2, <2>3
<1>6. ASSUME NEW t \in Threads, EnsureStore(t) PROVE IndInv'
  <2>1. /\ UNCHANGED <<lastNodeID, nodeID, node, arg, known, forgotten>>
        /\ nodeRegistry' = MapStore(nodeRegistry, newID[t], node[t])
        /\ pc[t] = "store" /\ pc'[t] \in {"ctx", "next"}
        /\ outs'[t] \subseteq outs[t] \cup {newID[t]}
        /\ \A u \in Threads : u # t =>
               pc'[u] = pc[u] /\ newID'[u] = newID[u] /\ outs'[u] = outs[u]
    BY <1>6 DEF IndInv, TypeOK, EnsureStore, EnsureReturn, Goto, kernelVars
  <2>2. node[t] \in Nodes /\ newID[t] # 0 /\ nodeID[node[t]] = newID[t]
    BY <2>1 DEF IndInv, Local
  <2>3. CounterOK' /\ IDsUnique' /\ RegistrySound'
    BY <2>1, <2>2 DEF IndInv, TypeOK, CounterOK, IDsUnique, RegistrySound, MapStore
  <2>4. Fresh' /\ Local'
    BY <2>1, <2>2 DEF IndInv, Fresh, Local
  <2>5. HandedOut' /\ GivenUp'
    BY <2>1, <2>2 DEF IndInv, HandedOut, GivenUp, Assigned
  <2>6. Placed'
    BY <2>1, <2>2 DEF IndInv, Placed, Accounted, MapStore
  <2> QED
    BY <1>0, <2>3, <2>4, <2>5, <2>6 DEF IndInv
<1>7. ASSUME NEW t \in Threads, ForgetDelete(t) PROVE IndInv'
  <2>1. /\ UNCHANGED <<lastNodeID, nodeID, known, forgotten>>
        /\ nodeRegistry' = MapDelete(nodeRegistry, arg[t])
        /\ pc[t] = "fgdel" /\ pc'[t] = "idle" /\ outs'[t] = {}
        /\ \A u \in Threads : u # t =>
               /\ pc'[u] = pc[u] /\ node'[u] = node[u] /\ arg'[u] = arg[u]
               /\ newID'[u] = newID[u] /\ outs'[u] = outs[u]
    BY <1>7 DEF IndInv, TypeOK, ForgetDelete, Reply, Goto
  <2>2. arg[t] \in forgotten
    BY <2>1 DEF IndInv, Local
  <2>3. CounterOK' /\ IDsUnique' /\ RegistrySound'
    BY <2>1 DEF IndInv, TypeOK, CounterOK, IDsUnique, RegistrySound, MapDelete
  <2>4. Fresh' /\ Local'
    BY <2>1 DEF IndInv, Fresh, Local
  <2>5. HandedOut' /\ GivenUp'
    BY <2>1 DEF IndInv, HandedOut, GivenUp, Assigned
  <2>6. Placed'
    BY <2>1, <2>2 DEF IndInv, Placed, Accounted, MapDelete
  <2> QED
    BY <1>0, <2>3, <2>4, <2>5, <2>6 DEF IndInv
<1>8. CASE UNCHANGED vars
    BY <1>8 DEF IndInv, TypeOK, CounterOK, Fresh, Local, RegistrySound, IDsUnique,
                HandedOut, GivenUp, Assigned, Placed, Accounted, vars
<1> QED
    BY <1>1, <1>2, <1>3, <1>4, <1>5, <1>6, <1>7, <1>8 DEF Next, Handler

-----------------------------------------------------------------------------
(* The invariant holds in every reachable state. *)
THEOREM Invariance == Spec => []IndInv
  BY InitInv, NextInv, PTL DEF Spec

(* The variables of the registry, of the goroutines and of the kernel      *)
(* always have their types.                                                *)
THEOREM TypeCorrect == Spec => []TypeOK
<1>1. IndInv => TypeOK
    BY DEF IndInv
<1> QED
    BY <1>1, Invariance, PTL

(* Whatever the interleaving of EnsureNodeID and ForgetNodeID calls, a     *)
(* registered id leads to the node that bears it.                          *)
THEOREM RegistryIsSound == Spec => []RegistrySound
<1>1. IndInv => RegistrySound
    BY DEF IndInv
<1> QED
    BY <1>1, Invariance, PTL

(* Two nodes never get the same NodeID from EnsureNodeID. *)
THEOREM IDsAreUnique == Spec => []IDsUnique
<1>1. IndInv => IDsUnique
    BY DEF IndInv
<1> QED
    BY <1>1, Invariance, PTL

(* An id the kernel holds is lost by ForgetNodeID only: it is in the       *)
(* registry, about to be stored there, or was given up by the kernel.      *)
THEOREM OnlyForgetLosesIDs == Spec => []LostOnlyByForget
<1>1. IndInv => LostOnlyByForget
    BY DEF IndInv, HandedOut, Placed, Assigned, LostOnlyByForget
<1> QED
    BY <1>1, Invariance, PTL

(* Only EnsureNodeID's compare-and-swap sets a NodeID; the node had none,  *)
(* and the id is new to the kernel.  So no id changes its meaning while it *)
(* is in use, and none is used twice.                                      *)
THEOREM IDsMeanOneNode == Spec => IDsKeepMeaning
<1> DEFINE Keeps == \A n \in Nodes : nodeID'[n] # nodeID[n] =>
                        /\ nodeID[n] \notin known' \cup DOMAIN nodeRegistry'
                        /\ nodeID'[n] \notin known \cup forgotten
<1>1. IndInv /\ [Next]_vars => [Keeps]_vars
  <2> SUFFICES ASSUME IndInv, Next PROVE Keeps
      OBVIOUS
  <2> PICK t \in Threads : Kernel(t) \/ Handler(t)
      BY DEF Next
  <2>1. CASE UNCHANGED nodeID
      BY <2>1
  <2>2. CASE EnsureCAS(t)
    <3>1. /\ UNCHANGED <<nodeRegistry, known>>
          /\ pc[t] = "cas" /\ node[t] \in Nodes
          /\ nodeID' # nodeID =>
                 nodeID[node[t]] = 0 /\ nodeID' = [nodeID EXCEPT ![node[t]] = newID[t]]
        BY <2>2 DEF EnsureCAS, IndInv, TypeOK, Local, kernelVars
    <3>2. 0 \notin known \cup DOMAIN nodeRegistry
        BY DEF IndInv, CounterOK, HandedOut, Assigned
    <3>3. newID[t] \notin known \cup forgotten
        BY <3>1 DEF IndInv, Fresh, HandedOut, GivenUp, Assigned
    <3> QED
        BY <3>1, <3>2, <3>3 DEF IndInv, TypeOK
  <2> QED
      BY <2>1, <2>2
         DEF Kernel, Handler, KernelLookup, KernelReadDirPlus, KernelForget, Lookup,
             ReadDirPlus, ReadDirPlusNext, EnsureFast, EnsureAdd, EnsureStore, EnsureReload,
             LookupReply, ForgetLoad, ForgetDelete, fsVars
<1> QED
    BY <1>1, Invariance, PTL DEF Spec, IDsKeepMeaning

-----------------------------------------------------------------------------
(* The handles' invariant.  HandlesMatch needs to know  that a handle on   *)
(* its way into the table is in nobody else's hands (Minted), that reads   *)
(* keep their file open and that a Release is the only one of its file     *)
(* (Using); ReadsOwnFile that the ids of open files are accounted for      *)
(* (Resolvable), and what a read has found so far (Reached).               *)

Minted ==
    /\ \A fh \in DOMAIN openFiles : fh <= nextFileFh
    /\ \A w \in Workers : wpc[w] = "store" =>
          /\ wfile[w].id = wid[w] /\ wfile[w].fh <= nextFileFh
          /\ wfile[w].fh \notin DOMAIN openFiles
          /\ \A u \in Workers : u # w /\ wpc[u] = "store" => wfile[u].fh # wfile[w].fh

Using ==
    \A w \in Workers :
        /\ wpc[w] \in {"readfh", "readnode", "answer"} => wfile[w] \in files
        /\ wpc[w] = "release" =>
              /\ \A f \in files : f.fh # wfile[w].fh
              /\ wfile[w].fh \in DOMAIN openFiles
              /\ \A u \in Workers : u # w /\ wpc[u] = "release" => wfile[u].fh # wfile[w].fh

OnceThere(id) == id \in DOMAIN nodeRegistry \/ id \in forgotten

Resolvable ==
    /\ \A fh \in DOMAIN openFiles : OnceThere(openFiles[fh])
    /\ \A w \in Workers : wpc[w] \in {"fh", "store"} => OnceThere(wid[w])

Reached ==
    \A w \in Workers :
        /\ wpc[w] = "readnode" => wid[w] = wfile[w].id
        /\ wpc[w] = "answer" =>
              \/ got[w] \in Nodes /\ nodeID[got[w]] = wfile[w].id /\ wfile[w].id # 0
              \/ got[w] = "EIO" /\ wfile[w].id \in forgotten

FilesInv ==
    /\ FilesTypeOK
    /\ HandlesMatch
    /\ Minted
    /\ Using
    /\ Resolvable
    /\ Reached

-----------------------------------------------------------------------------
(* NewFuseRaw establishes the invariant. *)
LEMMA FilesInitInv == FilesInit => IndInv /\ FilesInv
<1> SUFFICES ASSUME FilesInit PROVE IndInv /\ FilesInv
    OBVIOUS
<1>1. IndInv
    BY InitInv DEF FilesInit
<1>2. FilesInv
    BY DEF FilesInit, FilesInv, FilesTypeOK, HandlesMatch, Minted, Using, Resolvable,
           Reached, NoFile, OpenFile, Errors, WLabels
<1> QED
    BY <1>1, <1>2

(* The file handlers leave the registry alone. *)
LEMMA StepsOfRegistry == [FilesNext]_filesVars => [Next]_vars
  BY DEF FilesNext, filesVars, RegistryStep, WorkerStep, KernelOpen, KernelRead,
         KernelRelease, Open, OpenFh, OpenStore, ReadFh, ReadNode, ReadReply, Release

(* No step of the registry takes away an id that the kernel did not give   *)
(* up, changes one, or forgets that one was given up.                      *)
LEMMA RegistryKeeps ==
    ASSUME IndInv, [Next]_vars
    PROVE  /\ \A id : OnceThere(id) => OnceThere(id)'
           /\ \A n \in Nodes : nodeID[n] # 0 => nodeID'[n] = nodeID[n]
           /\ forgotten \subseteq forgotten'
<1>1. CASE UNCHANGED <<fsVars, forgotten>>
    BY <1>1 DEF fsVars, OnceThere
<1>2. CASE UNCHANGED vars
    BY <1>1, <1>2 DEF vars, fsVars
<1>3. CASE Next
  <2> PICK t \in Threads : Kernel(t) \/ Handler(t)
      BY <1>3 DEF Next
  <2>1. CASE KernelForget(t)
      BY <2>1 DEF KernelForget, fsVars, OnceThere
  <2>2. CASE EnsureAdd(t)
      BY <2>2 DEF EnsureAdd, kernelVars, OnceThere
  <2>3. CASE EnsureCAS(t)
      BY <2>3 DEF EnsureCAS, kernelVars, OnceThere, IndInv, TypeOK, Local
  <2>4. CASE EnsureStore(t)
      BY <2>4 DEF EnsureStore, EnsureReturn, MapStore, kernelVars, OnceThere
  <2>5. CASE ForgetDelete(t)
      BY <2>5 DEF ForgetDelete, MapDelete, OnceThere, IndInv, Local
  <2> QED
      BY <1>1, <2>1, <2>2, <2>3, <2>4, <2>5
         DEF Kernel, Handler, KernelLookup, KernelReadDirPlus, Lookup, ReadDirPlus,
             ReadDirPlusNext, EnsureFast, EnsureReload, LookupReply, ForgetLoad,
             EnsureReturn, kernelVars
<1> QED
    BY <1>2, <1>3

(* A step that leaves the files alone keeps their invariant. *)
LEMMA RegistryStepInv ==
    ASSUME IndInv, FilesInv, [Next]_vars, UNCHANGED fileVars
    PROVE  FilesInv'
<1> USE DEF fileVars
<1>1. FilesTypeOK' /\ HandlesMatch' /\ Minted' /\ Using'
    BY DEF FilesInv, FilesTypeOK, HandlesMatch, Minted, Using
<1>2. Resolvable'
  <2>1. \A id : OnceThere(id) => OnceThere(id)'
      BY RegistryKeeps
  <2>2. ASSUME NEW fh \in DOMAIN openFiles' PROVE OnceThere(openFiles[fh])'
      BY <2>1, <2>2 DEF FilesInv, Resolvable
  <2>3. ASSUME NEW w \in Workers, wpc'[w] \in {"fh", "store"} PROVE OnceThere(wid[w])'
      BY <2>1, <2>3 DEF FilesInv, Resolvable
  <2> QED
      BY <2>2, <2>3 DEF Resolvable
<1>3. Reached'
    BY RegistryKeeps DEF FilesInv, Reached
<1> QED
    BY <1>1, <1>2, <1>3 DEF FilesInv

(* A worker's step keeps it too, one step per operation. *)
LEMMA WorkerStepInv ==
    ASSUME IndInv, FilesInv, NEW w \in Workers, WorkerStep(w)
    PROVE  FilesInv'
<1> USE DEF FilesInv
<1>0. UNCHANGED vars
    BY DEF WorkerStep, KernelOpen, KernelRead, KernelRelease, Open, OpenFh, OpenStore,
           ReadFh, ReadNode, ReadReply, Release
<1>00. UNCHANGED <<nodeRegistry, nodeID, forgotten, known>>
    BY <1>0 DEF vars
<1> DEFINE Others == \A u \in Workers : u # w =>
               /\ wpc'[u] = wpc[u] /\ wfile'[u] = wfile[u]
               /\ wid'[u] = wid[u] /\ got'[u] = got[u]
<1>1. CASE KernelOpen(w)
  <2>1. /\ wpc'[w] = "open" /\ Others
        /\ UNCHANGED <<nextFileFh, openFiles, wfile, got, files, opens>>
      BY <1>1 DEF KernelOpen, WGoto, FilesTypeOK
  <2>2. FilesTypeOK'
      BY <1>1, <2>1 DEF KernelOpen, WGoto, FilesTypeOK, WLabels, IndInv, TypeOK
  <2> QED
      BY <1>00, <1>1, <2>1, <2>2 DEF HandlesMatch, Minted, Using, Resolvable, OnceThere, Reached,
                       KernelOpen, WGoto, FilesTypeOK
<1>2. CASE KernelRead(w)
  <2>1. /\ wpc[w] = "idle" /\ wpc'[w] = "readfh" /\ wfile'[w] \in files /\ Others
        /\ UNCHANGED <<nextFileFh, openFiles, wid, got, files, opens>>
      BY <1>2 DEF KernelRead, WGoto, FilesTypeOK
  <2>2. FilesTypeOK'
      BY <1>2, <2>1 DEF KernelRead, WGoto, FilesTypeOK, WLabels
  <2> QED
      BY <1>00, <2>1, <2>2 DEF HandlesMatch, Minted, Using, Resolvable, OnceThere, Reached
<1>3. CASE KernelRelease(w)
  <2>1. PICK f \in files : /\ \A u \in Workers : wfile[u] # f
                           /\ wfile' = [wfile EXCEPT ![w] = f]
                           /\ files' = files \ {f}
      BY <1>3 DEF KernelRelease
  <2>2. /\ wpc[w] = "idle" /\ wpc'[w] = "release" /\ wfile'[w] = f /\ Others
        /\ UNCHANGED <<nextFileFh, openFiles, wid, got, opens>>
      BY <1>3, <2>1 DEF KernelRelease, WGoto, FilesTypeOK
  <2>3. FilesTypeOK'
      BY <1>3, <2>1 DEF KernelRelease, WGoto, FilesTypeOK, WLabels
  <2>4. /\ f.fh \in DOMAIN openFiles
        /\ \A g \in files : g.fh = f.fh => g = f
      BY DEF HandlesMatch
  <2>5. HandlesMatch'
      BY <2>1, <2>2, <2>4 DEF HandlesMatch
  <2>6. Using'
      BY <2>1, <2>2, <2>4 DEF Using
  <2> QED
      BY <1>00, <2>1, <2>2, <2>3, <2>5, <2>6 DEF Minted, Resolvable, OnceThere, Reached
<1>4. CASE Open(w)
  <2>1. /\ wpc[w] = "open" /\ wpc'[w] \in {"fh", "idle"} /\ Others
        /\ wpc'[w] = "fh" => wid'[w] = wid[w] /\ wid[w] \in DOMAIN nodeRegistry
        /\ UNCHANGED <<nextFileFh, openFiles, files, opens>>
      BY <1>4 DEF Open, Done, WGoto, FilesTypeOK
  <2>2. FilesTypeOK'
      BY <1>4, <2>1 DEF Open, Done, WGoto, FilesTypeOK, WLabels, NoFile, OpenFile, Errors
  <2> QED
      BY <1>00, <2>1, <2>2 DEF HandlesMatch, Minted, Using, Resolvable, OnceThere, Reached
<1>5. CASE OpenFh(w)
  <2>1. /\ wpc[w] = "fh" /\ wpc'[w] = "store" /\ Others
        /\ nextFileFh' = nextFileFh + 1
        /\ wfile'[w] = [fh |-> nextFileFh + 1, id |-> wid[w], n |-> 0]
        /\ UNCHANGED <<openFiles, wid, got, files, opens>>
      BY <1>5 DEF OpenFh, WGoto, FilesTypeOK
  <2>2. FilesTypeOK'
      BY <1>5, <2>1 DEF OpenFh, WGoto, FilesTypeOK, WLabels, OpenFile
  <2>3. Minted'
    <3>1. \A fh \in DOMAIN openFiles : fh \in Nat /\ fh <= nextFileFh
        BY DEF Minted, FilesTypeOK
    <3>2. \A u \in Workers : wpc[u] = "store" => wfile[u].fh \in Nat /\ wfile[u].fh <= nextFileFh
        BY DEF Minted, FilesTypeOK, OpenFile
    <3>3. nextFileFh \in Nat
        BY DEF FilesTypeOK
    <3> QED
        BY <2>1, <3>1, <3>2, <3>3 DEF Minted
  <2> QED
      BY <1>00, <2>1, <2>2, <2>3 DEF HandlesMatch, Using, Resolvable, OnceThere, Reached
<1>6. CASE OpenStore(w)
  <2> DEFINE f == [wfile[w] EXCEPT !.n = opens + 1]
  <2>1. /\ wpc[w] = "store" /\ wpc'[w] = "idle" /\ Others
        /\ openFiles' = MapStore(openFiles, wfile[w].fh, wid[w])
        /\ files' = files \cup {f}
        /\ UNCHANGED nextFileFh
      BY <1>6 DEF OpenStore, Opened, Done, WGoto, FilesTypeOK
  <2>2. /\ f.fh = wfile[w].fh /\ f.id = wid[w] /\ f \in OpenFile
        /\ f.fh \notin DOMAIN openFiles /\ f.fh <= nextFileFh
        /\ OnceThere(wid[w])
      BY <2>1 DEF FilesTypeOK, OpenFile, Minted, Resolvable
  <2>3. FilesTypeOK'
    <3>1. DOMAIN openFiles' \subseteq Nat /\ openFiles' \in [DOMAIN openFiles' -> Nat]
        BY <2>1, <2>2 DEF MapStore, FilesTypeOK, OpenFile
    <3> QED
        BY <1>6, <2>1, <2>2, <3>1
           DEF OpenStore, Opened, Done, WGoto, FilesTypeOK, WLabels, NoFile, OpenFile, Errors
  <2>4. HandlesMatch'
    <3> HIDE DEF f
    <3>1. /\ DOMAIN openFiles' = DOMAIN openFiles \cup {f.fh}
          /\ openFiles'[f.fh] = f.id
          /\ \A fh \in DOMAIN openFiles : openFiles'[fh] = openFiles[fh]
        BY <2>1, <2>2 DEF MapStore
    <3>2. \A g \in files' : g.fh \in DOMAIN openFiles' /\ openFiles'[g.fh] = g.id
        BY <2>1, <2>2, <3>1 DEF HandlesMatch
    <3>3. \A g, h \in files' : g.fh = h.fh => g = h
        BY <2>1, <2>2 DEF HandlesMatch
    <3>4. \A fh \in DOMAIN openFiles' :
             \/ \E g \in files' : g.fh = fh
             \/ \E u \in Workers : wpc'[u] = "release" /\ wfile'[u].fh = fh
        BY <2>1, <3>1 DEF HandlesMatch
    <3> QED
        BY <3>2, <3>3, <3>4 DEF HandlesMatch
  <2>5. Minted'
      BY <2>1, <2>2 DEF Minted, MapStore
  <2>6. Using'
    <3> HIDE DEF f
    <3>1. DOMAIN openFiles' = DOMAIN openFiles \cup {f.fh}
        BY <2>1, <2>2 DEF MapStore
    <3>2. ASSUME NEW u \in Workers, wpc'[u] # "idle"
          PROVE  u # w /\ wpc'[u] = wpc[u] /\ wfile'[u] = wfile[u]
        BY <2>1, <3>2
    <3>3. ASSUME NEW u \in Workers, wpc'[u] \in {"readfh", "readnode", "answer"}
          PROVE  wfile'[u] \in files'
        BY <2>1, <3>2, <3>3 DEF Using
    <3>4. ASSUME NEW u \in Workers, wpc'[u] = "release"
          PROVE  /\ \A g \in files' : g.fh # wfile'[u].fh
                 /\ wfile'[u].fh \in DOMAIN openFiles'
                 /\ \A v \in Workers : v # u /\ wpc'[v] = "release" => wfile'[v].fh # wfile'[u].fh
      <4>1. wpc[u] = "release" /\ wfile'[u] = wfile[u]
          BY <3>2, <3>4
      <4>2. wfile[u].fh \in DOMAIN openFiles /\ \A g \in files : g.fh # wfile[u].fh
          BY <4>1 DEF Using
      <4>3. f.fh # wfile[u].fh
          BY <2>2, <4>2
      <4>4. ASSUME NEW v \in Workers, v # u, wpc'[v] = "release"
            PROVE  wfile'[v].fh # wfile[u].fh
        <5>1. wpc[v] = "release" /\ wfile'[v] = wfile[v]
            BY <3>2, <4>4
        <5> QED
            BY <4>1, <4>4, <5>1 DEF Using
      <4> QED
          BY <2>1, <3>1, <4>1, <4>2, <4>3, <4>4
    <3> QED
        BY <3>3, <3>4 DEF Using
  <2>7. Resolvable'
      BY <1>00, <2>1, <2>2 DEF Resolvable, OnceThere, MapStore
  <2>8. Reached'
      BY <1>00, <2>1 DEF Reached
  <2> QED
      BY <2>3, <2>4, <2>5, <2>6, <2>7, <2>8
<1>7. CASE ReadFh(w)
  <2>1. wpc[w] = "readfh" /\ wfile[w] \in files /\ wfile[w].fh \in DOMAIN openFiles
        /\ openFiles[wfile[w].fh] = wfile[w].id
      BY <1>7 DEF ReadFh, Using, HandlesMatch
  <2>2. /\ wpc'[w] = "readnode" /\ wid'[w] = wfile[w].id /\ Others
        /\ UNCHANGED <<nextFileFh, openFiles, wfile, got, files, opens>>
      BY <1>7, <2>1 DEF ReadFh, WGoto, FilesTypeOK
  <2>3. FilesTypeOK'
      BY <1>7, <2>1, <2>2 DEF ReadFh, WGoto, FilesTypeOK, WLabels, OpenFile
  <2> QED
      BY <1>00, <2>1, <2>2, <2>3 DEF HandlesMatch, Minted, Using, Resolvable, OnceThere, Reached
<1>8. CASE ReadNode(w)
  <2>1. /\ wpc[w] = "readnode" /\ wfile[w] \in files /\ wid[w] = wfile[w].id
        /\ OnceThere(wid[w])
      BY <1>8 DEF ReadNode, Using, HandlesMatch, Reached, Resolvable
  <2>2. /\ wpc'[w] = "answer" /\ Others
        /\ UNCHANGED <<nextFileFh, openFiles, wfile, wid, files, opens>>
        /\ got'[w] = IF wid[w] \in DOMAIN nodeRegistry THEN nodeRegistry[wid[w]] ELSE "EIO"
      BY <1>8 DEF ReadNode, Answer, WGoto, FilesTypeOK
  <2>3. \/ got'[w] \in Nodes /\ nodeID[got'[w]] = wfile[w].id /\ wfile[w].id # 0
        \/ got'[w] = "EIO" /\ wfile[w].id \in forgotten
      BY <2>1, <2>2 DEF OnceThere, IndInv, TypeOK, RegistrySound, CounterOK
  <2>4. FilesTypeOK'
      BY <1>8, <2>3 DEF ReadNode, Answer, WGoto, FilesTypeOK, WLabels, Errors
  <2> QED
      BY <1>00, <2>1, <2>2, <2>3, <2>4 DEF HandlesMatch, Minted, Using, Resolvable, OnceThere, Reached
<1>9. CASE ReadReply(w)
  <2>1. /\ wpc[w] = "answer" /\ wpc'[w] = "idle" /\ Others
        /\ UNCHANGED <<nextFileFh, openFiles, files, opens>>
      BY <1>9 DEF ReadReply, Done, WGoto, FilesTypeOK
  <2>2. FilesTypeOK'
      BY <1>9 DEF ReadReply, Done, WGoto, FilesTypeOK, WLabels, NoFile, OpenFile, Errors
  <2> QED
      BY <1>00, <2>1, <2>2 DEF HandlesMatch, Minted, Using, Resolvable, OnceThere, Reached
<1>10. CASE Release(w)
  <2>1. /\ wpc[w] = "release" /\ wpc'[w] = "idle" /\ Others
        /\ openFiles' = MapDelete(openFiles, wfile[w].fh)
        /\ UNCHANGED <<nextFileFh, files, opens>>
      BY <1>10 DEF Release, Done, WGoto, FilesTypeOK
  <2>2. FilesTypeOK'
    <3>1. DOMAIN openFiles' \subseteq Nat /\ openFiles' \in [DOMAIN openFiles' -> Nat]
        BY <2>1 DEF MapDelete, FilesTypeOK
    <3> QED
        BY <1>10, <3>1 DEF Release, Done, WGoto, FilesTypeOK, WLabels, NoFile, OpenFile, Errors
  <2>3. HandlesMatch'
      BY <2>1 DEF HandlesMatch, Using, MapDelete
  <2>4. Minted' /\ Using'
      BY <2>1 DEF Minted, Using, MapDelete
  <2>5. Resolvable' /\ Reached'
      BY <1>00, <2>1 DEF Resolvable, OnceThere, Reached, MapDelete
  <2> QED
      BY <2>2, <2>3, <2>4, <2>5
<1> QED
    BY <1>1, <1>2, <1>3, <1>4, <1>5, <1>6, <1>7, <1>8, <1>9, <1>10 DEF WorkerStep

-----------------------------------------------------------------------------
(* The invariant holds in every reachable state. *)
THEOREM FilesInvariance == FilesSpec => [](IndInv /\ FilesInv)
<1>1. IndInv /\ FilesInv /\ [FilesNext]_filesVars => (IndInv /\ FilesInv)'
  <2> SUFFICES ASSUME IndInv, FilesInv, [FilesNext]_filesVars PROVE IndInv' /\ FilesInv'
      OBVIOUS
  <2>1. IndInv'
      BY StepsOfRegistry, NextInv
  <2>2. CASE RegistryStep \/ UNCHANGED filesVars
      BY <2>1, <2>2, StepsOfRegistry, RegistryStepInv DEF RegistryStep, filesVars
  <2>3. CASE \E w \in Workers : WorkerStep(w)
      BY <2>1, <2>3, WorkerStepInv
  <2> QED
      BY <2>1, <2>2, <2>3 DEF FilesNext
<1> QED
    BY <1>1, FilesInitInv, PTL DEF FilesSpec

(* The handle table, the workers' variables and the kernel's open files    *)
(* keep their types.                                                       *)
THEOREM FilesTypeCorrect == FilesSpec => []FilesTypeOK
<1>1. FilesInv => FilesTypeOK
    BY DEF FilesInv
<1> QED
    BY <1>1, FilesInvariance, PTL

(* However many Opens, Reads and Releases run at once, the table holds     *)
(* exactly the handles of open files and of Releases in progress.          *)
THEOREM HandlesAlwaysMatch == FilesSpec => []HandlesMatch
<1>1. FilesInv => HandlesMatch
    BY DEF FilesInv
<1> QED
    BY <1>1, FilesInvariance, PTL

(* A Read never reaches another node than the one its file was opened for, *)
(* and only an id that the kernel gave up can be missing: ForgetNodeID is  *)
(* the one place where the registry loses entries.                         *)
THEOREM ReadsReachOwnFile == FilesSpec => []ReadsOwnFile
<1>1. FilesInv => ReadsOwnFile
    BY FilesAssumption DEF FilesInv, Reached, ReadsOwnFile, Errors
<1> QED
    BY <1>1, FilesInvariance, PTL
=============================================================================
