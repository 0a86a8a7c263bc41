--------------------------- MODULE NodeTreeProofs ---------------------------
(***************************************************************************)
(* Proofs about NodeTree, for every set of names, callers and requests and *)
(* every bound: racing AddDirNode, AddFileNode, RemoveChild and Del calls  *)
(* keep the children maps a forest whose edges agree with the parent       *)
(* pointers, and AddChild never leaves a deleted node in a map.  One call  *)
(* at a time also keeps Node.Path and lookups in agreement.                *)
(***************************************************************************)
EXTENDS NodeTree, WellFoundedInduction, TLAPS

-----------------------------------------------------------------------------
Linked(i) == \E p \in Inos, x \in Comps : children[p][x] = i

(* t has made a node and not published it yet; t is inside AddChild. *)
Building(t) == pc[t] \in {"take", "store"} \/ (pc[t] = "del" /\ req[t].op # "Del")
Adding(t)   == Building(t) \/ pc[t] = "link"
Walking(t)  == pc[t] \in {"walk", "mkdir", "check", "create"} \/ Adding(t)

(* A node that has left the tree: in no map, and no caller will store it.  *)
(* This is what LoadAndDelete gives its caller, and it is for ever.        *)
Out(i) ==
    /\ i \in Inos /\ i <= lastIno
    /\ ~Linked(i)
    /\ \A u \in Threads : Building(u) => new[u] # i

Bounded ==
    \A p \in Inos, x \in Comps : children[p][x] # NoIno => children[p][x] <= lastIno

RequestOK(t) ==
    /\ pc[t] # "idle" => req[t] \in Reqs
    /\ pc[t] \in {"check", "create", "rmtake"} => req[t].op # "AddDirNode"
    /\ pc[t] = "mkdir" => todo[t] # << >>
    /\ pc[t] = "rmtake" => cur[t] \in Inos
    /\ Walking(t) => cur[t] \in Inos /\ cur[t] <= lastIno

NewOK(t) ==
    /\ Adding(t) => new[t] \in Inos /\ cur[t] < new[t] /\ new[t] <= lastIno
    /\ Adding(t) /\ kind[new[t]] = "dir" => todo[t] # << >>
    /\ Building(t) => ~Linked(new[t])
    /\ pc[t] = "link" =>
           \A p \in Inos, x \in Comps : children[p][x] = new[t] => p = cur[t]
    /\ \A u \in Threads : Adding(t) /\ Adding(u) /\ u # t => new[u] # new[t]

OldOK(t) ==
    /\ pc[t] \in {"del", "unlink"} => old[t] \in Inos
    /\ pc[t] = "unlink" \/ (pc[t] = "del" /\ req[t].op # "Del") => Out(old[t])

IndInv ==
    /\ TypeOK
    /\ Bounded
    /\ Forest
    /\ ParentAgrees
    /\ \A t \in Threads : RequestOK(t) /\ NewOK(t) /\ OldOK(t)

-----------------------------------------------------------------------------
(* The node numbers are the numbers from 1 to MaxIno, and nil is not one. *)
LEMMA InosFacts ==
    /\ RootIno \in Inos /\ NoIno \notin Inos
    /\ \A i \in Inos : i \in Nat
    /\ \A i \in Inos : i < MaxIno => i + 1 \in Inos
  BY TreeConstants DEF Inos, RootIno, NoIno

(* A file's path has a last part, and what is before it is a path. *)
LEMMA PathParts ==
    ASSUME NEW r \in Reqs
    PROVE  /\ r.path \in Seq(Comps)
           /\ r.op # "AddDirNode" => Last(r.path) \in Comps /\ Front(r.path) \in Seq(Comps)
<1>1. r.path \in Seq(Comps) /\ (r.op # "AddDirNode" => r.path # << >>)
    BY TreeConstants DEF Requests
<1>2. ASSUME r.path # << >> PROVE Last(r.path) \in Comps /\ Front(r.path) \in Seq(Comps)
    BY <1>1, <1>2 DEF Last, Front
<1> QED
    BY <1>1, <1>2

(* NewFS establishes the invariant. *)
LEMMA InitInv == Init => IndInv
<1> SUFFICES ASSUME Init PROVE IndInv
    OBVIOUS
<1> USE InosFacts, TreeConstants
<1>1. TypeOK
    BY DEF Init, TypeOK, Comps, Labels
<1>2. \A p \in Inos, x \in Comps : children[p][x] = NoIno
    BY DEF Init
<1>3. Bounded /\ Forest /\ ParentAgrees
    BY <1>2 DEF Bounded, Forest, ParentAgrees
<1>4. \A t \in Threads : RequestOK(t) /\ NewOK(t) /\ OldOK(t)
    BY DEF Init, RequestOK, NewOK, OldOK, Walking, Adding, Building
<1> QED
    BY <1>1, <1>3, <1>4 DEF IndInv

(* A caller that returns has no locals left. *)
LEMMA ReturnType ==
    ASSUME TypeOK, NEW t \in Threads, Return(t)
    PROVE  /\ pc' \in [Threads -> Labels]
           /\ req' \in [Threads -> Reqs \cup {NoReq}]
           /\ todo' \in [Threads -> Seq(Comps)]
           /\ cur' \in [Threads -> Inos \cup {NoIno}]
           /\ new' \in [Threads -> Inos \cup {NoIno}]
           /\ old' \in [Threads -> Inos \cup {NoIno}]
<1>1. << >> \in Seq(Comps)
    OBVIOUS
<1>2. todo' \in [Threads -> Seq(Comps)]
    BY <1>1 DEF TypeOK, Return
<1> QED
    BY <1>2 DEF TypeOK, Return, Goto, Labels

(* No step leads out of the types. *)
LEMMA TypePreserved == IndInv /\ [Next]_vars => TypeOK'
<1> SUFFICES ASSUME IndInv, [Next]_vars PROVE TypeOK'
    OBVIOUS
<1> USE InosFacts, TreeConstants
<1> USE DEF TypeOK, Labels, localVars, nodeVars
<1>0. TypeOK /\ \A t \in Threads : RequestOK(t) /\ NewOK(t) /\ OldOK(t)
    BY DEF IndInv
<1>1. ASSUME NEW t \in Threads, NEW r \in Reqs,
             r.op \in {"AddDirNode", "AddFileNode"}, AddNode(t, r)
      PROVE  TypeOK'
  <2>1. todo' \in [Threads -> Seq(Comps)]
    BY <1>0, <1>1, PathParts DEF AddNode, DirPath
  <2> QED
    BY <1>0, <1>1, <2>1 DEF AddNode, Call, Goto
<1>2. ASSUME NEW t \in Threads, NEW r \in Reqs, RemoveChild(t, r) PROVE TypeOK'
    BY <1>0, <1>2 DEF RemoveChild, Call, Goto
<1>3. ASSUME NEW t \in Threads, NEW r \in Reqs, Del(t, r) PROVE TypeOK'
    BY <1>0, <1>3 DEF Del, Call, Goto
<1>4. ASSUME NEW t \in Threads, Walk(t) PROVE TypeOK'
  <2>1. cur[t] \in Inos /\ req[t] \in Reqs
    BY <1>0, <1>4 DEF Walk, RequestOK, Walking
  <2>2. todo[t] # << >> => Head(todo[t]) \in Comps /\ Tail(todo[t]) \in Seq(Comps)
    BY <1>0
  <2>3. CASE ReturnOK(t, cur[t])
    <3>1. results' \subseteq (Reqs \X Inos)
        BY <1>0, <2>1, <2>3 DEF ReturnOK
    <3> QED
        BY <1>0, <1>4, <2>3, <3>1, ReturnType DEF Walk, ReturnOK
  <2>4. CASE ~ReturnOK(t, cur[t])
    <3>1. todo' \in [Threads -> Seq(Comps)]
        BY <1>0, <1>4, <2>2, <2>4 DEF Walk
    <3>2. \/ UNCHANGED cur
          \/ \E x \in Comps : cur' = [cur EXCEPT ![t] = children[cur[t]][x]]
        BY <1>4, <2>2, <2>4 DEF Walk
    <3>3. pc' \in [Threads -> Labels]
        BY <1>0, <1>4, <2>4 DEF Walk, Goto
    <3>4. UNCHANGED <<lastIno, nodeVars, calls, req, new, old, results>>
        BY <1>4, <2>4 DEF Walk
    <3>5. \A x \in Comps : children[cur[t]][x] \in Inos \cup {NoIno}
        BY <1>0, <2>1
    <3>6. cur' \in [Threads -> Inos \cup {NoIno}]
        BY <1>0, <3>2, <3>5
    <3> QED
        BY <1>0, <3>1, <3>3, <3>4, <3>6
  <2> QED
    BY <2>3, <2>4
<1>5. ASSUME NEW t \in Threads, MkDir(t) PROVE TypeOK'
  <2>1. Head(todo[t]) \in Comps
    BY <1>0, <1>5 DEF MkDir, RequestOK
  <2> QED
    BY <1>0, <1>5, <2>1 DEF MkDir, NewNode, Goto
<1>6. ASSUME NEW t \in Threads, Check(t) PROVE TypeOK'
    BY <1>0, <1>6, ReturnType DEF Check, Goto
<1>7. ASSUME NEW t \in Threads, Create(t) PROVE TypeOK'
  <2>1. Last(req[t].path) \in Comps
    BY <1>0, <1>7, PathParts DEF Create, RequestOK
  <2>2. CASE req[t].adapter
    <3>1. /\ NewNode(t, "file", Last(req[t].path))
          /\ UNCHANGED <<req, todo, cur, old, calls, results>>
        BY <1>7, <2>2 DEF Create
    <3> QED
        BY <1>0, <2>1, <3>1 DEF NewNode, Goto
  <2>3. CASE ~req[t].adapter
    BY <1>0, <1>7, <2>3, ReturnType DEF Create
  <2> QED
    BY <2>2, <2>3
<1>8. ASSUME NEW t \in Threads, AddChildTake(t) PROVE TypeOK'
  <2>1. cur[t] \in Inos /\ name[new[t]] \in Comps
    BY <1>0, <1>8 DEF AddChildTake, RequestOK, NewOK, Walking, Adding, Building
  <2> QED
    BY <1>0, <1>8, <2>1 DEF AddChildTake, Goto
<1>9. ASSUME NEW t \in Threads, DelNode(t) PROVE TypeOK'
    BY <1>0, <1>9, ReturnType DEF DelNode, Goto
<1>10. ASSUME NEW t \in Threads, AddChildStore(t) PROVE TypeOK'
  <2>1. cur[t] \in Inos /\ name[new[t]] \in Comps /\ new[t] \in Inos
    BY <1>0, <1>10 DEF AddChildStore, RequestOK, NewOK, Walking, Adding, Building
  <2> QED
    BY <1>0, <1>10, <2>1 DEF AddChildStore, Goto
<1>11. ASSUME NEW t \in Threads, AddChildLink(t) PROVE TypeOK'
  <2>1. /\ cur[t] \in Inos /\ new[t] \in Inos /\ req[t] \in Reqs
        /\ kind[new[t]] = "dir" => Tail(todo[t]) \in Seq(Comps)
    BY <1>0, <1>11 DEF AddChildLink, LinkTo, RequestOK, NewOK, Walking, Adding
  <2>2. CASE kind[new[t]] = "dir"
    <3>1. todo' \in [Threads -> Seq(Comps)]
        BY <1>0, <1>11, <2>1, <2>2 DEF AddChildLink, Added
    <3> QED
        BY <1>0, <1>11, <2>1, <2>2, <3>1 DEF AddChildLink, LinkTo, Added, Goto
  <2>3. CASE kind[new[t]] # "dir"
    <3>1. results' \subseteq (Reqs \X Inos)
        BY <1>0, <1>11, <2>1, <2>3 DEF AddChildLink, Added, ReturnOK
    <3> QED
        BY <1>0, <1>11, <2>1, <2>3, <3>1, ReturnType DEF AddChildLink, LinkTo, Added, ReturnOK
  <2> QED
    BY <2>2, <2>3
<1>12. ASSUME NEW t \in Threads, RemoveChildTake(t) PROVE TypeOK'
  <2>1. Last(req[t].path) \in Comps /\ cur[t] \in Inos
    BY <1>0, <1>12, PathParts DEF RemoveChildTake, RequestOK
  <2>2. CASE children[cur[t]][Last(req[t].path)] = NoIno
    BY <1>0, <1>12, <2>2, ReturnType DEF RemoveChildTake
  <2>3. CASE children[cur[t]][Last(req[t].path)] # NoIno
    <3>1. PICK x \in Comps : x = Last(req[t].path)
        BY <2>1
    <3>2. /\ old' = [old EXCEPT ![t] = children[cur[t]][x]]
          /\ children' = [children EXCEPT ![cur[t]][x] = NoIno]
          /\ pc' = [pc EXCEPT ![t] = "unlink"]
          /\ UNCHANGED <<lastIno, kind, name, parent, isDel, calls, results, req, todo, cur, new>>
        BY <1>12, <2>3, <3>1 DEF RemoveChildTake, Goto
    <3> QED
        BY <1>0, <2>1, <3>2
  <2> QED
    BY <2>2, <2>3
<1>13. ASSUME NEW t \in Threads, RemoveChildUnlink(t) PROVE TypeOK'
    BY <1>0, <1>13, ReturnType DEF RemoveChildUnlink, Goto
<1>14. CASE UNCHANGED vars
    BY <1>0, <1>14 DEF vars
<1> QED
    BY <1>1, <1>2, <1>3, <1>4, <1>5, <1>6, <1>7, <1>8, <1>9, <1>10, <1>11, <1>12,
       <1>13, <1>14 DEF Next, Request, Step

-----------------------------------------------------------------------------
(* A step of t touches no other caller's locals. *)
OnlyLocal(t) ==
    \A u \in Threads : u # t =>
        /\ pc'[u] = pc[u] /\ req'[u] = req[u] /\ todo'[u] = todo[u]
        /\ cur'[u] = cur[u] /\ new'[u] = new[u] /\ old'[u] = old[u]

(* Every step is a step of one caller. *)
LEMMA StepIsLocal ==
    ASSUME TypeOK, NEW t \in Threads, Request(t) \/ Step(t) PROVE OnlyLocal(t)
<1> USE DEF TypeOK, OnlyLocal, localVars, Goto, Return, ReturnOK
<1>1. CASE Request(t)
    BY <1>1 DEF Request, AddNode, RemoveChild, Del, Call
<1>2. CASE Walk(t)
    BY <1>2 DEF Walk
<1>3. CASE MkDir(t) \/ Create(t)
    BY <1>3 DEF MkDir, Create, NewNode
<1>4. CASE Check(t)
    BY <1>4 DEF Check
<1>5. CASE AddChildTake(t) \/ DelNode(t) \/ AddChildStore(t)
    BY <1>5 DEF AddChildTake, DelNode, AddChildStore
<1>6. CASE AddChildLink(t)
    BY <1>6 DEF AddChildLink, LinkTo, Added
<1>7. CASE RemoveChildTake(t) \/ RemoveChildUnlink(t)
    BY <1>7 DEF RemoveChildTake, RemoveChildUnlink
<1> QED
    BY <1>1, <1>2, <1>3, <1>4, <1>5, <1>6, <1>7 DEF Step

(* A step of t that leaves the maps alone, and in which t does not start   *)
(* an AddChild, keeps the invariant if it keeps the parents right.         *)
LEMMA QuietStep ==
    ASSUME IndInv, TypeOK', NEW t \in Threads, OnlyLocal(t),
           UNCHANGED <<kind, name, children>>, lastIno <= lastIno',
           Building(t)' => Building(t),
           Adding(t)' => /\ Adding(t) /\ cur'[t] = cur[t] /\ new'[t] = new[t]
                         /\ todo'[t] = todo[t],
           pc'[t] = "link" => pc[t] = "link",
           RequestOK(t)',
           pc'[t] \in {"del", "unlink"} => old'[t] \in Inos,
           pc'[t] # "unlink",
           pc'[t] = "del" => req'[t].op = "Del",
           ParentAgrees'
    PROVE  IndInv'
<1> USE InosFacts
<1>0. /\ TypeOK /\ Bounded /\ Forest
      /\ \A u \in Threads : RequestOK(u) /\ NewOK(u) /\ OldOK(u)
    BY DEF IndInv
<1>1. Bounded' /\ Forest'
    BY <1>0 DEF TypeOK, Bounded, Forest
<1>2. /\ \A i : Linked(i)' <=> Linked(i)
      /\ \A u \in Threads : Building(u)' => Building(u) /\ new'[u] = new[u]
    BY DEF Linked, Building, Adding, OnlyLocal
<1>3. ASSUME NEW u \in Threads PROVE RequestOK(u)' /\ NewOK(u)' /\ OldOK(u)'
  <2>1. RequestOK(u)'
    BY <1>0 DEF RequestOK, Walking, Adding, Building, OnlyLocal, TypeOK
  <2>2. \A v \in Threads :
           Adding(v)' => /\ Adding(v) /\ cur'[v] = cur[v] /\ new'[v] = new[v]
                         /\ todo'[v] = todo[v] /\ (pc'[v] = "link" => pc[v] = "link")
    BY DEF Adding, Building, OnlyLocal
  <2>3. NewOK(u)'
    <3>1. Adding(u)' => new'[u] \in Inos /\ cur'[u] < new'[u] /\ new'[u] <= lastIno'
        BY <1>0, <2>2 DEF NewOK, TypeOK
    <3>2. Adding(u)' /\ kind'[new'[u]] = "dir" => todo'[u] # << >>
        BY <1>0, <2>2 DEF NewOK
    <3>3. Building(u)' => ~Linked(new[u])'
        BY <1>0, <1>2 DEF NewOK, Linked
    <3>4. pc'[u] = "link" =>
             \A p \in Inos, x \in Comps : children'[p][x] = new'[u] => p = cur'[u]
        BY <1>0, <2>2 DEF NewOK, Adding
    <3>5. \A v \in Threads : Adding(u)' /\ Adding(v)' /\ v # u => new'[v] # new'[u]
        BY <1>0, <2>2 DEF NewOK
    <3> QED
        BY <3>1, <3>2, <3>3, <3>4, <3>5 DEF NewOK
  <2>4. OldOK(u)'
    <3>1. CASE u = t
        BY <3>1 DEF OldOK
    <3>2. CASE u # t
      <4>1. pc'[u] = pc[u] /\ req'[u] = req[u] /\ old'[u] = old[u]
          BY <3>2 DEF OnlyLocal
      <4>2. Out(old[u]) => Out(old[u])'
          BY <1>0, <1>2, <4>1 DEF Out, Linked, TypeOK
      <4> QED
          BY <1>0, <4>1, <4>2 DEF OldOK
    <3> QED
        BY <3>1, <3>2
  <2> QED
    BY <2>1, <2>3, <2>4
<1> QED
    BY <1>1, <1>3 DEF IndInv

(* NewNode makes a node that no map holds and no other caller has. *)
LEMMA NewNodeStep ==
    ASSUME IndInv, TypeOK', NEW t \in Threads, OnlyLocal(t),
           NEW k, NEW x \in Comps, NewNode(t, k, x),
           pc[t] \in {"mkdir", "create"}, UNCHANGED <<req, todo, cur>>,
           k = "dir" => todo[t] # << >>
    PROVE  IndInv'
<1> USE InosFacts
<1>0. /\ TypeOK /\ Bounded /\ Forest /\ ParentAgrees
      /\ \A u \in Threads : RequestOK(u) /\ NewOK(u) /\ OldOK(u)
    BY DEF IndInv
<1>1. /\ lastIno' = lastIno + 1 /\ lastIno' \in Inos
      /\ new'[t] = lastIno + 1 /\ pc'[t] = "take"
      /\ \A i \in Inos : i # lastIno' => kind'[i] = kind[i] /\ name'[i] = name[i]
      /\ kind'[lastIno'] = k
      /\ UNCHANGED <<children, parent, isDel>>
    BY <1>0 DEF NewNode, Goto, TypeOK
<1>2. lastIno \in Nat /\ lastIno' \in Nat
    BY <1>0, <1>1 DEF TypeOK
<1>3. ASSUME NEW i \in Inos, i <= lastIno PROVE i \in Nat /\ i <= lastIno' /\ i # lastIno'
  <2>1. i \in Nat
    BY <1>3
  <2> QED
    BY <1>1, <1>2, <1>3, <2>1
<1>4. \A p \in Inos, y \in Comps : children[p][y] # NoIno =>
         children[p][y] \in Inos /\ children[p][y] \in Nat /\ children[p][y] <= lastIno
    BY <1>0 DEF TypeOK, Bounded
<1>5. \A p \in Inos, y \in Comps :
         /\ children[p][y] # lastIno'
         /\ children[p][y] # NoIno => name'[children[p][y]] = name[children[p][y]]
    BY <1>1, <1>2, <1>4
<1>6. Bounded'
    BY <1>1, <1>2, <1>4 DEF Bounded
<1>7. Forest'
    BY <1>0, <1>1, <1>5 DEF Forest
<1>8. ParentAgrees'
  <2>1. \A u \in Threads : pc[u] = "link" => u # t /\ pc'[u] = "link" /\ new'[u] = new[u]
    BY DEF OnlyLocal
  <2> QED
    BY <1>0, <1>1, <2>1 DEF ParentAgrees
<1>9. \A u \in Threads : u # t =>
         /\ Adding(u)' <=> Adding(u)
         /\ Building(u)' <=> Building(u)
         /\ Walking(u)' <=> Walking(u)
    BY DEF Walking, Adding, Building, OnlyLocal
<1>10. \A u \in Threads : u # t /\ Adding(u) =>
         /\ new[u] \in Inos /\ new[u] \in Nat /\ new[u] <= lastIno /\ new[u] # lastIno'
         /\ new'[u] = new[u] /\ kind'[new[u]] = kind[new[u]]
    BY <1>0, <1>1, <1>3 DEF NewOK, OnlyLocal
<1>11. ASSUME NEW u \in Threads PROVE RequestOK(u)' /\ NewOK(u)' /\ OldOK(u)'
  <2>1. CASE u = t
    <3>1. cur[t] \in Inos /\ cur[t] \in Nat /\ cur[t] <= lastIno /\ req[t] \in Reqs
        BY <1>0 DEF RequestOK, Walking
    <3>2. RequestOK(t)'
        BY <1>1, <1>2, <3>1 DEF RequestOK
    <3>3. \A v \in Threads : Adding(v)' /\ v # t => new'[v] # new'[t]
        BY <1>1, <1>9, <1>10
    <3>4. ~Linked(new[t])'
        BY <1>1, <1>5 DEF Linked
    <3>5. NewOK(t)'
        BY <1>1, <1>2, <3>1, <3>3, <3>4 DEF NewOK
    <3> QED
        BY <1>1, <2>1, <3>2, <3>5 DEF OldOK
  <2>2. CASE u # t
    <3>1. /\ pc'[u] = pc[u] /\ req'[u] = req[u] /\ todo'[u] = todo[u]
          /\ cur'[u] = cur[u] /\ old'[u] = old[u]
        BY <2>2 DEF OnlyLocal
    <3>2. RequestOK(u)'
        BY <1>0, <1>3, <1>9, <2>2, <3>1 DEF RequestOK
    <3>3. Adding(u) => \A v \in Threads : Adding(v)' /\ v # u => new'[v] # new'[u]
        BY <1>0, <1>1, <1>9, <1>10, <2>2 DEF NewOK
    <3>4. Building(u) => ~Linked(new[u])'
        BY <1>0, <1>1, <1>10, <2>2 DEF NewOK, Linked, Adding
    <3>5. NewOK(u)'
        BY <1>0, <1>1, <1>2, <1>9, <1>10, <2>2, <3>1, <3>3, <3>4 DEF NewOK, Adding
    <3>6. Out(old[u]) => Out(old[u])'
      <4> SUFFICES ASSUME Out(old[u]) PROVE Out(old[u])'
          OBVIOUS
      <4>1. old'[u] = old[u] /\ old[u] \in Inos /\ old[u] <= lastIno' /\ old[u] # lastIno'
          BY <1>3, <3>1 DEF Out
      <4>2. ~Linked(old[u])'
          BY <1>1, <4>1 DEF Out, Linked
      <4>3. \A v \in Threads : Building(v)' => new'[v] # old'[u]
          BY <1>1, <1>9, <1>10, <4>1 DEF Out, Adding
      <4> QED
          BY <4>1, <4>2, <4>3 DEF Out
    <3> QED
        BY <1>0, <3>1, <3>2, <3>5, <3>6 DEF OldOK
  <2> QED
    BY <2>1, <2>2
<1> QED
    BY <1>6, <1>7, <1>8, <1>11 DEF IndInv

(* LoadAndDelete, in AddChild or in RemoveChild: what was in the map is    *)
(* out of the tree.                                                        *)
LEMMA TakeStep ==
    ASSUME IndInv, TypeOK', NEW t \in Threads, OnlyLocal(t),
           NEW c \in Inos, NEW x \in Comps,
           children' = [children EXCEPT ![c][x] = NoIno],
           UNCHANGED <<lastIno, kind, name, parent, isDel>>,
           pc[t] # "link", pc'[t] # "link",
           Adding(t)' => /\ Adding(t) /\ cur'[t] = cur[t] /\ new'[t] = new[t]
                         /\ todo'[t] = todo[t],
           RequestOK(t)',
           pc'[t] \in {"del", "unlink"} => old'[t] = children[c][x] /\ old'[t] # NoIno
    PROVE  IndInv'
<1> USE InosFacts
<1>0. /\ TypeOK /\ Bounded /\ Forest /\ ParentAgrees
      /\ \A u \in Threads : RequestOK(u) /\ NewOK(u) /\ OldOK(u)
    BY DEF IndInv
<1>1. \A p \in Inos, y \in Comps :
         children'[p][y] = IF p = c /\ y = x THEN NoIno ELSE children[p][y]
    BY <1>0 DEF TypeOK
<1>2. Bounded' /\ Forest'
    BY <1>0, <1>1 DEF Bounded, Forest
<1>3. ParentAgrees'
    BY <1>0, <1>1 DEF ParentAgrees, OnlyLocal
<1>4. \A u \in Threads :
         /\ Adding(u)' => /\ Adding(u) /\ cur'[u] = cur[u] /\ new'[u] = new[u]
                          /\ todo'[u] = todo[u] /\ (pc'[u] = "link" => pc[u] = "link")
         /\ Building(u)' => Building(u)
    BY DEF Adding, Building, OnlyLocal
<1>5. \A i \in Inos : ~Linked(i) => ~Linked(i)'
    BY <1>0, <1>1 DEF Linked
<1>6. ASSUME NEW u \in Threads PROVE RequestOK(u)' /\ NewOK(u)' /\ OldOK(u)'
  <2>1. RequestOK(u)'
    BY <1>0 DEF RequestOK, Walking, Adding, Building, OnlyLocal
  <2>2. NewOK(u)'
    <3>1. /\ Adding(u)' => new'[u] \in Inos /\ cur'[u] < new'[u] /\ new'[u] <= lastIno'
          /\ Adding(u)' /\ kind'[new'[u]] = "dir" => todo'[u] # << >>
          /\ \A v \in Threads : Adding(u)' /\ Adding(v)' /\ v # u => new'[v] # new'[u]
        BY <1>0, <1>4 DEF NewOK
    <3>2. Building(u)' => ~Linked(new[u])'
        BY <1>0, <1>1, <1>4 DEF NewOK, Linked, Adding
    <3>3. pc'[u] = "link" =>
             \A p \in Inos, y \in Comps : children'[p][y] = new'[u] => p = cur'[u]
        BY <1>0, <1>1, <1>4 DEF NewOK, Adding
    <3> QED
        BY <3>1, <3>2, <3>3 DEF NewOK
  <2>3. CASE u = t /\ pc'[t] \in {"del", "unlink"}
    <3>1. /\ old'[t] = children[c][x] /\ old'[t] # NoIno
          /\ old'[t] \in Inos /\ old'[t] <= lastIno
        BY <1>0, <2>3 DEF TypeOK, Bounded
    <3>2. ~Linked(old[t])'
        BY <1>0, <1>1, <3>1 DEF Linked, Forest
    <3>3. \A v \in Threads : Building(v)' => new'[v] # old'[t]
        BY <1>0, <1>4, <3>1 DEF NewOK, Linked, Adding
    <3> QED
        BY <2>1, <2>2, <2>3, <3>1, <3>2, <3>3 DEF OldOK, Out
  <2>4. CASE u = t /\ pc'[t] \notin {"del", "unlink"}
    BY <2>1, <2>2, <2>4 DEF OldOK
  <2>5. CASE u # t
    <3>1. pc'[u] = pc[u] /\ req'[u] = req[u] /\ old'[u] = old[u]
        BY <2>5 DEF OnlyLocal
    <3>2. Out(old[u]) => Out(old[u])'
        BY <1>0, <1>1, <1>4, <3>1 DEF Out, Linked, Adding
    <3> QED
        BY <1>0, <2>1, <2>2, <3>1, <3>2 DEF OldOK
  <2> QED
    BY <2>3, <2>4, <2>5
<1> QED
    BY <1>2, <1>3, <1>6 DEF IndInv

(* AddChild's Store publishes a node that was in no map. *)
LEMMA StoreStep ==
    ASSUME IndInv, TypeOK', NEW t \in Threads, OnlyLocal(t), AddChildStore(t)
    PROVE  IndInv'
<1> USE InosFacts
<1>0. /\ TypeOK /\ Bounded /\ Forest /\ ParentAgrees
      /\ \A u \in Threads : RequestOK(u) /\ NewOK(u) /\ OldOK(u)
    BY DEF IndInv
<1>1. /\ pc[t] = "store" /\ pc'[t] = "link" /\ Building(t) /\ Adding(t)
      /\ UNCHANGED <<lastIno, kind, name, parent, isDel, req, todo, cur, new, old>>
    BY <1>0 DEF AddChildStore, Goto, TypeOK, localVars, Building, Adding
<1>2. /\ cur[t] \in Inos /\ new[t] \in Inos /\ cur[t] < new[t] /\ new[t] <= lastIno
      /\ name[new[t]] \in Comps /\ ~Linked(new[t])
    BY <1>0, <1>1 DEF RequestOK, NewOK, Walking, TypeOK
<1>3. \A p \in Inos, y \in Comps : children'[p][y] =
         IF p = cur[t] /\ y = name[new[t]] THEN new[t] ELSE children[p][y]
    BY <1>0, <1>2 DEF TypeOK, AddChildStore
<1>4. Bounded' /\ Forest'
    BY <1>0, <1>1, <1>2, <1>3 DEF Bounded, Forest, Linked
<1>5. ParentAgrees'
    BY <1>0, <1>1, <1>2, <1>3 DEF ParentAgrees, OnlyLocal
<1>6. \A u \in Threads : /\ Adding(u)' <=> Adding(u)
                         /\ Building(u)' => Building(u) /\ u # t
    BY <1>1 DEF Adding, Building, OnlyLocal
<1>7. ASSUME NEW u \in Threads PROVE RequestOK(u)' /\ NewOK(u)' /\ OldOK(u)'
  <2>1. RequestOK(u)'
    BY <1>0, <1>1 DEF RequestOK, Walking, Adding, Building, OnlyLocal
  <2>2. NewOK(u)'
    <3>1. /\ Adding(u)' => new'[u] \in Inos /\ cur'[u] < new'[u] /\ new'[u] <= lastIno'
          /\ Adding(u)' /\ kind'[new'[u]] = "dir" => todo'[u] # << >>
          /\ \A v \in Threads : Adding(u)' /\ Adding(v)' /\ v # u => new'[v] # new'[u]
        BY <1>0, <1>1, <1>6 DEF NewOK
    <3>2. Building(u)' => ~Linked(new[u])'
        BY <1>0, <1>1, <1>3, <1>6 DEF NewOK, Linked, Adding
    <3>3. pc'[u] = "link" =>
             \A p \in Inos, y \in Comps : children'[p][y] = new'[u] => p = cur'[u]
      <4>1. CASE u = t
          BY <1>1, <1>2, <1>3, <4>1 DEF Linked
      <4>2. CASE u # t
          BY <1>0, <1>1, <1>3, <4>2 DEF NewOK, OnlyLocal, Adding
      <4> QED
          BY <4>1, <4>2
    <3> QED
        BY <3>1, <3>2, <3>3 DEF NewOK
  <2>3. OldOK(u)'
    <3>1. Out(old[u]) => Out(old[u])'
        BY <1>0, <1>1, <1>3, <1>6 DEF Out, Linked
    <3> QED
        BY <1>0, <1>1, <3>1 DEF OldOK, OnlyLocal
  <2> QED
    BY <2>1, <2>2, <2>3
<1> QED
    BY <1>4, <1>5, <1>7 DEF IndInv

(* The back pointers survive a step that leaves tree and pointers alone    *)
(* and does not end an AddChild.                                           *)
LEMMA ParentsKept ==
    ASSUME ParentAgrees, NEW t \in Threads, OnlyLocal(t), pc[t] # "link",
           UNCHANGED <<children, parent, isDel>>
    PROVE  ParentAgrees'
<1>1. \A u \in Threads : pc[u] = "link" =>
         pc'[u] = "link" /\ new'[u] = new[u] /\ cur'[u] = cur[u]
    BY DEF OnlyLocal
<1> QED
    BY <1>1 DEF ParentAgrees

(* A caller returns, with the tree as it is. *)
LEMMA ReturnStep ==
    ASSUME IndInv, TypeOK', NEW t \in Threads, OnlyLocal(t), Return(t),
           UNCHANGED <<kind, name, children>>, lastIno <= lastIno', ParentAgrees'
    PROVE  IndInv'
<1>1. pc'[t] = "idle"
    BY DEF Return, Goto, IndInv, TypeOK
<1>2. ~Building(t)' /\ ~Adding(t)' /\ RequestOK(t)'
    BY <1>1 DEF Building, Adding, Walking, RequestOK
<1> QED
    BY <1>1, <1>2, QuietStep

(* Every step preserves the invariant. *)
LEMMA NextInv == IndInv /\ [Next]_vars => IndInv'
<1> SUFFICES ASSUME IndInv, [Next]_vars PROVE IndInv'
    OBVIOUS
<1> USE InosFacts
<1> USE DEF localVars, nodeVars
<1>0. /\ TypeOK' /\ TypeOK /\ Bounded /\ Forest /\ ParentAgrees
      /\ \A t \in Threads : RequestOK(t) /\ NewOK(t) /\ OldOK(t)
      /\ lastIno \in Nat
      /\ \A p \in Inos, x \in Comps : children[p][x] # NoIno => children[p][x] \in Inos
  <2>1. TypeOK' /\ TypeOK
    BY TypePreserved DEF IndInv
  <2>2. \A p \in Inos, x \in Comps : children[p][x] # NoIno => children[p][x] \in Inos
    BY <2>1 DEF TypeOK
  <2>3. lastIno \in Nat
    BY <2>1 DEF TypeOK
  <2> QED
    BY <2>1, <2>2, <2>3 DEF IndInv
<1>1. CASE UNCHANGED vars
  <2>1. UNCHANGED <<pc, req, todo, cur, new, old, lastIno, kind, name, children, parent, isDel>>
    BY <1>1 DEF vars
  <2> QED
    BY <1>0, <2>1 DEF IndInv, Bounded, Forest, ParentAgrees, RequestOK, NewOK, OldOK,
                      Walking, Adding, Building, Out, Linked
<1>2. ASSUME NEW t \in Threads, Request(t) PROVE IndInv'
  <2>1. OnlyLocal(t)
    BY <1>0, <1>2, StepIsLocal
  <2>2. /\ UNCHANGED <<kind, name, children, parent, isDel, lastIno>>
        /\ pc[t] = "idle" /\ pc'[t] \in {"walk", "rmtake", "del"}
        /\ pc'[t] = "walk" => cur'[t] = RootIno
        /\ pc'[t] = "rmtake" => cur'[t] \in Inos /\ req'[t].op = "RemoveChild"
        /\ pc'[t] = "del" => old'[t] \in Inos /\ req'[t].op = "Del"
        /\ req'[t] \in Reqs
    BY <1>0, <1>2 DEF Request, AddNode, RemoveChild, Del, Call, Goto, TypeOK
  <2>3. RootIno <= lastIno
    BY <1>0, TreeConstants DEF TypeOK, Inos, RootIno
  <2>4. ~Building(t)' /\ ~Adding(t)' /\ RequestOK(t)'
    BY <2>2, <2>3 DEF Building, Adding, Walking, RequestOK
  <2>5. ParentAgrees'
    BY <1>0, <2>1, <2>2, ParentsKept
  <2> QED
    BY <1>0, <2>1, <2>2, <2>4, <2>5, QuietStep
<1>3. ASSUME NEW t \in Threads, Walk(t) PROVE IndInv'
  <2>1. OnlyLocal(t)
    BY <1>0, <1>3, StepIsLocal DEF Step
  <2>2. /\ UNCHANGED <<kind, name, children, parent, isDel, lastIno>> /\ pc[t] = "walk"
        /\ cur[t] \in Inos /\ cur[t] <= lastIno /\ req[t] \in Reqs
    BY <1>0, <1>3 DEF Walk, RequestOK, Walking
  <2>3. ParentAgrees'
    BY <1>0, <2>1, <2>2, ParentsKept
  <2>4. CASE Return(t)
    BY <1>0, <2>1, <2>2, <2>3, <2>4, ReturnStep
  <2>5. CASE ~Return(t)
    <3>1. todo[t] # << >> => Head(todo[t]) \in Comps
        BY <1>0 DEF TypeOK
    <3>2. /\ UNCHANGED <<req>> /\ pc'[t] \in {"walk", "mkdir", "check"}
          /\ pc'[t] = "mkdir" => UNCHANGED todo /\ todo[t] # << >>
          /\ pc'[t] = "check" => req[t].op = "AddFileNode"
          /\ cur'[t] = cur[t] \/ \E x \in Comps : cur'[t] = children[cur[t]][x] /\ cur'[t] # NoIno
        BY <1>0, <1>3, <2>5, <3>1 DEF Walk, ReturnOK, Goto, TypeOK
    <3>3. cur'[t] \in Inos /\ cur'[t] <= lastIno'
        BY <1>0, <2>2, <3>2 DEF TypeOK, Bounded
    <3>4. ~Building(t)' /\ ~Adding(t)' /\ RequestOK(t)'
        BY <2>2, <3>2, <3>3 DEF Building, Adding, Walking, RequestOK
    <3> QED
        BY <1>0, <2>1, <2>2, <2>3, <3>2, <3>4, QuietStep
  <2> QED
    BY <2>4, <2>5
<1>4. ASSUME NEW t \in Threads, MkDir(t) PROVE IndInv'
  <2>1. OnlyLocal(t)
    BY <1>0, <1>4, StepIsLocal DEF Step
  <2>2. pc[t] = "mkdir" /\ todo[t] # << >> /\ Head(todo[t]) \in Comps
    BY <1>0, <1>4 DEF MkDir, RequestOK, TypeOK
  <2>3. NewNode(t, "dir", Head(todo[t])) /\ UNCHANGED <<req, todo, cur>>
    BY <1>4 DEF MkDir
  <2> QED
    BY <1>0, <2>1, <2>2, <2>3, NewNodeStep
<1>5. ASSUME NEW t \in Threads, Check(t) PROVE IndInv'
  <2>1. OnlyLocal(t)
    BY <1>0, <1>5, StepIsLocal DEF Step
  <2>2. UNCHANGED <<kind, name, children, parent, isDel, lastIno>> /\ pc[t] = "check"
    BY <1>5 DEF Check
  <2>3. ParentAgrees'
    BY <1>0, <2>1, <2>2, ParentsKept
  <2>4. CASE Return(t)
    BY <1>0, <2>1, <2>2, <2>3, <2>4, ReturnStep
  <2>5. CASE ~Return(t)
    <3>1. pc'[t] = "create" /\ UNCHANGED <<req, cur>>
        BY <1>0, <1>5, <2>5 DEF Check, Goto, TypeOK
    <3>2. ~Building(t)' /\ ~Adding(t)' /\ RequestOK(t)'
        BY <1>0, <2>2, <3>1 DEF Building, Adding, Walking, RequestOK
    <3> QED
        BY <1>0, <2>1, <2>2, <2>3, <3>1, <3>2, QuietStep
  <2> QED
    BY <2>4, <2>5
<1>6. ASSUME NEW t \in Threads, Create(t) PROVE IndInv'
  <2>1. OnlyLocal(t)
    BY <1>0, <1>6, StepIsLocal DEF Step
  <2>2. pc[t] = "create" /\ Last(req[t].path) \in Comps
    BY <1>0, <1>6, PathParts DEF Create, RequestOK
  <2>3. CASE req[t].adapter
    <3>1. NewNode(t, "file", Last(req[t].path)) /\ UNCHANGED <<req, todo, cur>>
        BY <1>6, <2>3 DEF Create
    <3> QED
        BY <1>0, <2>1, <2>2, <3>1, NewNodeStep
  <2>4. CASE ~req[t].adapter
    <3>1. Return(t) /\ UNCHANGED <<kind, name, children, parent, isDel>> /\ lastIno <= lastIno'
        BY <1>0, <1>6, <2>4 DEF Create
    <3>2. ParentAgrees'
        BY <1>0, <2>1, <2>2, <3>1, ParentsKept
    <3> QED
        BY <1>0, <2>1, <3>1, <3>2, ReturnStep
  <2> QED
    BY <2>3, <2>4
<1>7. ASSUME NEW t \in Threads, AddChildTake(t) PROVE IndInv'
  <2>1. OnlyLocal(t)
    BY <1>0, <1>7, StepIsLocal DEF Step
  <2>2. /\ pc[t] = "take" /\ cur[t] \in Inos /\ name[new[t]] \in Comps /\ req[t] \in Reqs
        /\ cur[t] <= lastIno
    BY <1>0, <1>7 DEF AddChildTake, RequestOK, NewOK, Walking, Adding, Building, TypeOK
  <2>3. /\ children' = [children EXCEPT ![cur[t]][name[new[t]]] = NoIno]
        /\ UNCHANGED <<lastIno, kind, name, parent, isDel, req, todo, cur, new>>
        /\ old'[t] = children[cur[t]][name[new[t]]]
        /\ pc'[t] \in {"del", "store"}
        /\ pc'[t] = "del" => old'[t] # NoIno
    BY <1>0, <1>7 DEF AddChildTake, Goto, TypeOK
  <2>4. Adding(t) /\ RequestOK(t)'
    BY <2>2, <2>3 DEF RequestOK, Adding, Building
  <2> QED
    BY <1>0, <2>1, <2>2, <2>3, <2>4, TakeStep
<1>8. ASSUME NEW t \in Threads, DelNode(t) PROVE IndInv'
  <2>1. OnlyLocal(t)
    BY <1>0, <1>8, StepIsLocal DEF Step
  <2>2. /\ UNCHANGED <<kind, name, children, lastIno>> /\ pc[t] = "del"
        /\ isDel' = [isDel EXCEPT ![old[t]] = TRUE]
        /\ parent' = [parent EXCEPT ![old[t]] = NoIno]
    BY <1>8 DEF DelNode
  <2>3. ParentAgrees'
    <3>1. \A u \in Threads : pc[u] = "link" =>
             pc'[u] = "link" /\ new'[u] = new[u] /\ cur'[u] = cur[u]
        BY <2>1, <2>2 DEF OnlyLocal
    <3>2. \A j \in Inos : /\ j # old[t] => parent'[j] = parent[j]
                          /\ isDel[j] \/ j = old[t] => isDel'[j]
        BY <1>0, <2>2 DEF TypeOK
    <3> QED
        BY <1>0, <2>2, <3>1, <3>2 DEF ParentAgrees
  <2>4. CASE req[t].op = "Del"
    <3>1. Return(t)
        BY <1>8, <2>4 DEF DelNode
    <3> QED
        BY <1>0, <2>1, <2>2, <2>3, <3>1, ReturnStep
  <2>5. CASE req[t].op # "Del"
    <3>1. pc'[t] = "store" /\ UNCHANGED <<req, todo, cur, new, old>>
        BY <1>0, <1>8, <2>5 DEF DelNode, Goto, TypeOK
    <3>2. Building(t) /\ Adding(t) /\ RequestOK(t)'
        BY <1>0, <2>2, <2>5, <3>1 DEF Building, Adding, Walking, RequestOK
    <3> QED
        BY <1>0, <2>1, <2>2, <2>3, <3>1, <3>2, QuietStep
  <2> QED
    BY <2>4, <2>5
<1>9. ASSUME NEW t \in Threads, AddChildStore(t) PROVE IndInv'
  <2>1. OnlyLocal(t)
    BY <1>0, <1>9, StepIsLocal DEF Step
  <2> QED
    BY <1>0, <1>9, <2>1, StoreStep
<1>10. ASSUME NEW t \in Threads, AddChildLink(t) PROVE IndInv'
  <2>1. OnlyLocal(t)
    BY <1>0, <1>10, StepIsLocal DEF Step
  <2>2. /\ UNCHANGED <<kind, name, children, isDel, lastIno>> /\ pc[t] = "link"
        /\ parent' = [parent EXCEPT ![new[t]] = cur[t]]
        /\ new[t] \in Inos /\ new[t] <= lastIno /\ req[t] \in Reqs
    BY <1>0, <1>10 DEF AddChildLink, LinkTo, NewOK, RequestOK, Adding
  <2>3. ParentAgrees'
    <3>1. \A u \in Threads : u # t /\ pc[u] = "link" =>
             pc'[u] = "link" /\ new'[u] = new[u] /\ cur'[u] = cur[u]
        BY <2>1 DEF OnlyLocal
    <3>2. /\ \A j \in Inos : j # new[t] => parent'[j] = parent[j]
          /\ parent'[new[t]] = cur[t]
        BY <1>0, <2>2 DEF TypeOK
    <3>3. \A p \in Inos, x \in Comps : children[p][x] = new[t] => p = cur[t]
        BY <1>0, <2>2 DEF NewOK
    <3> QED
        BY <1>0, <2>2, <3>1, <3>2, <3>3 DEF ParentAgrees
  <2>4. CASE kind[new[t]] # "dir"
    <3>1. Return(t)
        BY <1>10, <2>4 DEF AddChildLink, Added, ReturnOK
    <3> QED
        BY <1>0, <2>1, <2>2, <2>3, <3>1, ReturnStep
  <2>5. CASE kind[new[t]] = "dir"
    <3>1. pc'[t] = "walk" /\ cur'[t] = new[t] /\ UNCHANGED req
        BY <1>0, <1>10, <2>5 DEF AddChildLink, Added, Goto, TypeOK
    <3>2. ~Building(t)' /\ ~Adding(t)' /\ RequestOK(t)'
        BY <2>2, <3>1 DEF Building, Adding, Walking, RequestOK
    <3> QED
        BY <1>0, <2>1, <2>2, <2>3, <3>1, <3>2, QuietStep
  <2> QED
    BY <2>4, <2>5
<1>11. ASSUME NEW t \in Threads, RemoveChildTake(t) PROVE IndInv'
  <2>1. OnlyLocal(t)
    BY <1>0, <1>11, StepIsLocal DEF Step
  <2>2. /\ pc[t] = "rmtake" /\ cur[t] \in Inos /\ Last(req[t].path) \in Comps
        /\ req[t] \in Reqs /\ UNCHANGED <<lastIno, kind, name, parent, isDel>>
    BY <1>0, <1>11, PathParts DEF RemoveChildTake, RequestOK
  <2>3. CASE children[cur[t]][Last(req[t].path)] = NoIno
    <3>1. Return(t) /\ UNCHANGED children
        BY <1>11, <2>3 DEF RemoveChildTake
    <3>2. ParentAgrees'
        BY <1>0, <2>1, <2>2, <3>1, ParentsKept
    <3> QED
        BY <1>0, <2>1, <2>2, <3>1, <3>2, ReturnStep
  <2>4. CASE children[cur[t]][Last(req[t].path)] # NoIno
    <3>1. PICK x \in Comps : x = Last(req[t].path)
        BY <2>2
    <3>2. /\ old'[t] = children[cur[t]][x] /\ old'[t] # NoIno
          /\ children' = [children EXCEPT ![cur[t]][x] = NoIno]
          /\ pc'[t] = "unlink" /\ UNCHANGED req
        BY <1>0, <1>11, <2>4, <3>1 DEF RemoveChildTake, Goto, TypeOK
    <3>3. ~Adding(t)' /\ RequestOK(t)'
        BY <2>2, <3>2 DEF Building, Adding, Walking, RequestOK
    <3> QED
        BY <1>0, <2>1, <2>2, <3>2, <3>3, TakeStep
  <2> QED
    BY <2>3, <2>4
<1>12. ASSUME NEW t \in Threads, RemoveChildUnlink(t) PROVE IndInv'
  <2>1. OnlyLocal(t)
    BY <1>0, <1>12, StepIsLocal DEF Step
  <2>2. /\ UNCHANGED <<kind, name, children, isDel, lastIno>> /\ pc[t] = "unlink"
        /\ parent' = [parent EXCEPT ![old[t]] = NoIno] /\ Return(t)
    BY <1>12 DEF RemoveChildUnlink
  <2>3. ParentAgrees'
    <3>1. \A u \in Threads : pc[u] = "link" =>
             pc'[u] = "link" /\ new'[u] = new[u] /\ cur'[u] = cur[u]
        BY <2>1, <2>2 DEF OnlyLocal
    <3>2. /\ \A j \in Inos : j # old[t] => parent'[j] = parent[j]
          /\ ~Linked(old[t])
        BY <1>0, <2>2 DEF TypeOK, OldOK, Out
    <3> QED
        BY <1>0, <2>2, <3>1, <3>2 DEF ParentAgrees, Linked
  <2> QED
    BY <1>0, <2>1, <2>2, <2>3, ReturnStep
<1> QED
    BY <1>1, <1>2, <1>3, <1>4, <1>5, <1>6, <1>7, <1>8, <1>9, <1>10, <1>11, <1>12
       DEF Next, Step

-----------------------------------------------------------------------------
(* The invariant holds in every reachable state. *)
THEOREM Invariance == Spec => []IndInv
  BY InitInv, NextInv, PTL DEF Spec

(* The nodes and the callers always have their types. *)
THEOREM TypeCorrect == Spec => []TypeOK
<1>1. IndInv => TypeOK
    BY DEF IndInv
<1> QED
    BY <1>1, Invariance, PTL

(* However AddDirNode, AddFileNode, RemoveChild and Del calls interleave,  *)
(* the children maps are a forest: no cycle, no node in two places, every  *)
(* node under its own name.                                                *)
THEOREM TreeIsForest == Spec => []Forest
<1>1. IndInv => Forest
    BY DEF IndInv
<1> QED
    BY <1>1, Invariance, PTL

(* A node that a lookup finds points back to where it was found, unless    *)
(* its AddChild is still under way or it has been deleted.                 *)
THEOREM ParentsAgree == Spec => []ParentAgrees
<1>1. IndInv => ParentAgrees
    BY DEF IndInv
<1> QED
    BY <1>1, Invariance, PTL

-----------------------------------------------------------------------------
(* A node that is out of the tree stays out: no step stores a node that    *)
(* was in a map before.                                                    *)
LEMMA OutForEver ==
    ASSUME IndInv, Next, NEW i, Out(i) PROVE Out(i)'
<1> USE InosFacts
<1> PICK t \in Threads : Request(t) \/ Step(t)
    BY DEF Next
<1>0. /\ TypeOK /\ OnlyLocal(t) /\ lastIno \in Nat /\ i \in Nat
      /\ RequestOK(t) /\ NewOK(t)
  <2>1. TypeOK /\ lastIno \in Nat /\ i \in Nat
    BY DEF IndInv, TypeOK, Out
  <2> QED
    BY <2>1, StepIsLocal DEF IndInv
<1>1. lastIno' = lastIno \/ lastIno' = lastIno + 1
    BY DEF Request, Step, AddNode, RemoveChild, Del, Walk, MkDir, Check, Create, NewNode,
           AddChildTake, DelNode, AddChildStore, AddChildLink, LinkTo, RemoveChildTake,
           RemoveChildUnlink
<1>2. \A p \in Inos, x \in Comps : children'[p][x] = i => children[p][x] = i
  <2>1. CASE AddChildStore(t)
    <3>1. /\ cur[t] \in Inos /\ name[new[t]] \in Comps /\ new[t] # i
        BY <1>0, <2>1 DEF AddChildStore, RequestOK, NewOK, Walking, Adding, Building,
                          TypeOK, Out
    <3> QED
        BY <1>0, <2>1, <3>1 DEF AddChildStore, TypeOK
  <2>2. CASE AddChildTake(t)
    <3>1. cur[t] \in Inos /\ name[new[t]] \in Comps
        BY <1>0, <2>2 DEF AddChildTake, RequestOK, NewOK, Walking, Adding, Building, TypeOK
    <3> QED
        BY <1>0, <2>2, <3>1 DEF AddChildTake, TypeOK, Out
  <2>3. CASE RemoveChildTake(t)
    <3>1. PICK x \in Comps : x = Last(req[t].path)
        BY <1>0, <2>3, PathParts DEF RemoveChildTake, RequestOK
    <3>2. cur[t] \in Inos
        BY <1>0, <2>3 DEF RemoveChildTake, RequestOK
    <3>3. UNCHANGED children \/ children' = [children EXCEPT ![cur[t]][x] = NoIno]
        BY <2>3, <3>1 DEF RemoveChildTake
    <3>4. ASSUME NEW p \in Inos, NEW y \in Comps
          PROVE  children'[p][y] = children[p][y] \/ children'[p][y] = NoIno
      <4>1. children \in [Inos -> [Comps -> Inos \cup {NoIno}]]
          BY <1>0 DEF TypeOK
      <4>2. CASE UNCHANGED children
          BY <4>2
      <4>3. CASE children' = [children EXCEPT ![cur[t]][x] = NoIno]
          BY <3>2, <4>1, <4>3
      <4> QED
          BY <3>3, <4>2, <4>3
    <3>5. i # NoIno
        BY DEF Out
    <3> QED
        BY <3>4, <3>5
  <2>4. CASE UNCHANGED children
    BY <2>4
  <2> QED
    BY <2>1, <2>2, <2>3, <2>4
       DEF Request, Step, AddNode, RemoveChild, Del, Walk, MkDir, Check, Create, NewNode,
           DelNode, AddChildLink, LinkTo, RemoveChildUnlink, nodeVars
<1>3. Building(t)' => new'[t] = lastIno + 1 \/ (Building(t) /\ new'[t] = new[t])
  <2> USE DEF Goto, Return, ReturnOK, localVars, Building, TypeOK
  <2>1. CASE Request(t)
    BY <1>0, <2>1 DEF Request, AddNode, RemoveChild, Del, Call
  <2>2. CASE Walk(t) \/ Check(t) \/ AddChildLink(t)
    BY <1>0, <2>2 DEF Walk, Check, AddChildLink, LinkTo, Added
  <2>3. CASE MkDir(t) \/ Create(t)
    BY <1>0, <2>3 DEF MkDir, Create, NewNode
  <2>4. CASE AddChildTake(t) \/ DelNode(t) \/ AddChildStore(t)
    BY <1>0, <2>4 DEF AddChildTake, DelNode, AddChildStore
  <2>5. CASE RemoveChildTake(t) \/ RemoveChildUnlink(t)
    BY <1>0, <2>5 DEF RemoveChildTake, RemoveChildUnlink
  <2> QED
    BY <2>1, <2>2, <2>3, <2>4, <2>5 DEF Step
<1>4. \A u \in Threads : Building(u)' => new'[u] # i
  <2>1. \A u \in Threads : u # t /\ Building(u)' => Building(u) /\ new'[u] = new[u]
    BY <1>0 DEF OnlyLocal, Building
  <2>2. i # lastIno + 1
    BY <1>0 DEF Out
  <2> QED
    BY <1>3, <2>1, <2>2 DEF Out
<1>5. i \in Inos /\ i <= lastIno'
    BY <1>0, <1>1 DEF Out
<1> QED
    BY <1>2, <1>4, <1>5 DEF Out, Linked

(* Every deleted node is out of the tree, unless a caller asked for its    *)
(* deletion; and what such a caller is about to delete it has asked for.   *)
DeletedOut ==
    /\ \A i \in Inos : isDel[i] => Out(i) \/ Condemned(i)
    /\ \A t \in Threads : pc[t] # "idle" /\ req[t].op = "Del" =>
           pc[t] = "del" /\ Condemned(old[t])

(* What was asked for stays so. *)
LEMMA CondemnedForEver ==
    ASSUME [Next]_vars
    PROVE  results \subseteq results' /\ \A i : Condemned(i) => Condemned(i)'
<1>1. results \subseteq results'
  <2>1. CASE UNCHANGED vars
      BY <2>1 DEF vars
  <2>2. CASE Next
      BY <2>2 DEF Next, Request, Step, AddNode, RemoveChild, Del, Walk, MkDir, Check, Create, NewNode,
                  AddChildTake, DelNode, AddChildStore, AddChildLink, LinkTo, Added,
                  RemoveChildTake, RemoveChildUnlink, ReturnOK
  <2> QED
      BY <2>1, <2>2
<1> QED
    BY <1>1 DEF Condemned

(* AddChild takes the node it replaces out of the map before deleting it,  *)
(* and a node that has left a map never returns: no lookup, at any time,   *)
(* finds a deleted node but one that an outside call of Del was for.       *)
THEOREM OverwriteIsClean == Spec => []DeletedUnlinked
<1>1. Init => DeletedOut
    BY DEF Init, DeletedOut
<1>2. IndInv /\ DeletedOut /\ [Next]_vars => DeletedOut'
  <2> SUFFICES ASSUME IndInv, DeletedOut, [Next]_vars PROVE DeletedOut'
      OBVIOUS
  <2>0. \A i : Condemned(i) => Condemned(i)'
      BY CondemnedForEver
  <2>1. ASSUME NEW i \in Inos, isDel'[i], ~Condemned(i)' PROVE Out(i)'
    <3>1. CASE UNCHANGED vars
        BY <2>0, <2>1, <3>1 DEF vars, DeletedOut, Out, Linked, Building
    <3>2. CASE Next
      <4>1. CASE isDel[i]
          BY <2>0, <2>1, <3>2, <4>1, OutForEver DEF DeletedOut
      <4>2. CASE ~isDel[i]
        <5>1. PICK t \in Threads : DelNode(t)
            BY <2>1, <3>2, <4>2
               DEF Next, Request, Step, AddNode, RemoveChild, Del, Walk, MkDir, Check, Create,
                   NewNode, AddChildTake, AddChildStore, AddChildLink, LinkTo,
                   RemoveChildTake, RemoveChildUnlink, nodeVars
        <5>2. TypeOK /\ RequestOK(t) /\ OldOK(t)
            BY DEF IndInv
        <5>3. i = old[t] /\ pc[t] = "del"
            BY <2>1, <4>2, <5>1, <5>2 DEF DelNode, TypeOK
        <5>4. req[t].op # "Del"
            BY <2>0, <2>1, <5>3 DEF DeletedOut
        <5>5. Out(i)
            BY <5>2, <5>3, <5>4 DEF OldOK
        <5> QED
            BY <3>2, <5>5, OutForEver
      <4> QED
          BY <4>1, <4>2
    <3> QED
        BY <3>1, <3>2
  <2>2. ASSUME NEW t \in Threads, pc'[t] # "idle", req'[t].op = "Del"
        PROVE  pc'[t] = "del" /\ Condemned(old[t])'
    <3>0. TypeOK
        BY DEF IndInv
    <3>1. CASE pc'[t] = pc[t] /\ req'[t] = req[t] /\ old'[t] = old[t]
        BY <2>0, <2>2, <3>1 DEF DeletedOut
    <3>2. CASE Request(t)
      <4>1. PICK r \in Reqs : req' = [req EXCEPT ![t] = r]
                             /\ \/ r.op \in {"AddDirNode", "AddFileNode"}
                                \/ r.op = "RemoveChild"
                                \/ Del(t, r)
          BY <3>2 DEF Request, AddNode, RemoveChild, Del, Call
      <4>2. r.op = "Del" /\ Del(t, r)
          BY <2>2, <3>0, <4>1 DEF TypeOK
      <4>3. PICK n \in Inos : old' = [old EXCEPT ![t] = n] /\ results' = results \cup {<<r, n>>}
          BY <4>2 DEF Del
      <4>4. pc'[t] = "del" /\ old'[t] = n
          BY <3>0, <4>2, <4>3 DEF Del, Goto, TypeOK
      <4>5. <<r, n>> \in results' /\ <<r, n>>[1] = r /\ <<r, n>>[2] = n
          BY <4>3
      <4>6. \E res \in results' : res[1].op = "Del" /\ res[2] = old'[t]
          BY <4>2, <4>4, <4>5
      <4> QED
          BY <4>4, <4>6 DEF Condemned
    <3>3. CASE Step(t)
      <4>1. pc[t] # "idle"
          BY <3>3 DEF Step, Walk, MkDir, Check, Create, NewNode, AddChildTake, DelNode, AddChildStore,
                      AddChildLink, LinkTo, RemoveChildTake, RemoveChildUnlink
      <4>2. CASE DelNode(t) \/ RemoveChildUnlink(t)
        <5>1. CASE Return(t)
            BY <2>2, <3>0, <5>1 DEF Return, Goto, TypeOK
        <5>2. CASE DelNode(t) /\ UNCHANGED req
          <6>1. pc[t] = "del" /\ req[t].op = "Del"
              BY <2>2, <5>2 DEF DelNode
          <6> QED
              BY <5>1, <5>2, <6>1 DEF DelNode
        <5> QED
            BY <4>2, <5>1, <5>2 DEF DelNode, RemoveChildUnlink, localVars
      <4>3. CASE ~(DelNode(t) \/ RemoveChildUnlink(t))
        <5>1. pc[t] # "del"
          <6>1. \/ Walk(t) \/ MkDir(t) \/ Check(t) \/ Create(t)
                \/ AddChildTake(t) \/ AddChildStore(t) \/ AddChildLink(t) \/ RemoveChildTake(t)
              BY <3>3, <4>3 DEF Step
          <6> QED
              BY <6>1 DEF Walk, MkDir, Check, Create, NewNode, AddChildTake, AddChildStore,
                          AddChildLink, LinkTo, RemoveChildTake
        <5>2. req[t].op # "Del"
            BY <4>1, <5>1 DEF DeletedOut
        <5>3. req'[t] = req[t] \/ pc'[t] = "idle"
            BY <3>0, <3>3, <4>3
               DEF Step, Walk, MkDir, Check, Create, NewNode, AddChildTake, AddChildStore,
                   AddChildLink, LinkTo, Added, RemoveChildTake, Return, ReturnOK, Goto, localVars, TypeOK
        <5> QED
            BY <2>2, <5>2, <5>3
      <4> QED
          BY <4>2, <4>3
    <3>4. CASE \E u \in Threads : u # t /\ (Request(u) \/ Step(u))
      <4>1. PICK u \in Threads : u # t /\ (Request(u) \/ Step(u))
          BY <3>4
      <4>2. pc'[t] = pc[t] /\ req'[t] = req[t] /\ old'[t] = old[t]
          BY <3>0, <4>1
             DEF Request, Step, AddNode, RemoveChild, Del, Call, Goto, Walk, MkDir, Check, Create,
                 NewNode, AddChildTake, DelNode, AddChildStore, AddChildLink, LinkTo, Added,
                 RemoveChildTake, RemoveChildUnlink, Return, ReturnOK, TypeOK, localVars
      <4> QED
          BY <3>1, <4>2
    <3> QED
        BY <3>1, <3>2, <3>3, <3>4 DEF Next, vars
  <2> QED
      BY <2>1, <2>2 DEF DeletedOut
<1>3. IndInv /\ DeletedOut => DeletedUnlinked
  <2> SUFFICES ASSUME IndInv, DeletedOut, NEW p \in Inos, NEW x \in Comps,
                      children[p][x] # NoIno
               PROVE  ~isDel[children[p][x]] \/ Condemned(children[p][x])
      BY DEF DeletedUnlinked
  <2>1. children[p][x] \in Inos
      BY DEF IndInv, TypeOK
  <2> QED
      BY <2>1 DEF DeletedOut, Out, Linked
<1> QED
    BY <1>1, <1>2, <1>3, Invariance, PTL DEF Spec

-----------------------------------------------------------------------------
(* Lookups.  Follow is a recursive function; what holds of it for all      *)
(* paths is proved without induction schemes: a set of numbers that is not *)
(* empty has a least element, and the least counterexample leads to a      *)
(* smaller one.                                                            *)

(* A set of numbers that is not empty has a least one. *)
LEMMA LeastElement ==
    ASSUME NEW S \in SUBSET Nat, S # {}
    PROVE  \E m \in S : \A k \in S : m <= k
<1>1. PICK m \in S : \A k \in S : ~(<<k, m>> \in OpToRel(<, Nat))
    BY WFMin, NatLessThanWellFounded
<1>2. \A k \in S : ~(k < m)
    BY <1>1 DEF OpToRel
<1> QED
    BY <1>2

(* f leads along the path, place after place. *)
NextIno(ch, i, x, ignored) == IF i = NoIno \/ x \in ignored THEN i ELSE ch[i][x]

Leads(f, ch, path, ignored) ==
    f = [n \in 0 .. Len(path) |-> IF n = 0 THEN RootIno
                                  ELSE NextIno(ch, f[n - 1], path[n], ignored)]

FollowIn(ch, path, ignored) == (CHOOSE f : Leads(f, ch, path, ignored))[Len(path)]

(* Follow is the last value of a function that leads along the path,       *)
(* before a step and after it.                                             *)
LEMMA FollowIs ==
    ASSUME NEW path, NEW ignored
    PROVE  /\ Follow(path, ignored) = FollowIn(children, path, ignored)
           /\ Follow(path, ignored)' = FollowIn(children', path, ignored)
  BY DEF Follow, FollowIn, Leads, NextIno

(* Such a function exists: there is no least length up to which it does    *)
(* not.                                                                    *)
LEMMA LeadsExists ==
    ASSUME NEW ch, NEW ignored, NEW path \in Seq(Comps)
    PROVE  \E f : Leads(f, ch, path, ignored)
<1> DEFINE Body(g, n) == IF n = 0 THEN RootIno
                         ELSE NextIno(ch, g[n - 1], path[n], ignored)
           To(g, k) == g = [n \in 0 .. k |-> Body(g, n)]
           Bad == {k \in Nat : ~ \E g : To(g, k)}
<1>1. \E g : To(g, 0)
  <2> DEFINE g == [n \in 0 .. 0 |-> RootIno]
  <2>1. \A n \in 0 .. 0 : Body(g, n) = RootIno
    OBVIOUS
  <2>2. [n \in 0 .. 0 |-> Body(g, n)] = g
    BY <2>1
  <2> QED
    BY <2>2
<1>2. ASSUME NEW k \in Nat, NEW g, To(g, k)
      PROVE  \E h : To(h, k + 1)
  <2> DEFINE h == [n \in 0 .. k + 1 |-> IF n = k + 1 THEN Body(g, k + 1) ELSE g[n]]
  <2>1. \A n \in 0 .. k : h[n] = g[n]
    OBVIOUS
  <2>2. \A n \in 0 .. k : g[n] = Body(g, n)
    BY <1>2
  <2>3. \A n \in 0 .. k + 1 : h[n] = Body(h, n)
    <3> SUFFICES ASSUME NEW n \in 0 .. k + 1
                 PROVE  h[n] = Body(h, n)
      OBVIOUS
    <3>1. n # 0 => n - 1 \in 0 .. k
      OBVIOUS
    <3>2. Body(h, n) = Body(g, n)
      BY <2>1, <3>1
    <3>3. h[n] = Body(g, n)
      BY <2>2
    <3> QED
      BY <3>2, <3>3
  <2> DEFINE hh == [n \in 0 .. k + 1 |-> Body(h, n)]
  <2>4. h = hh
    BY <2>3
  <2> QED
    BY <2>4
<1> HIDE DEF To
<1>3. Bad = {}
  <2> SUFFICES ASSUME Bad # {}
               PROVE  FALSE
    OBVIOUS
  <2>1. PICK m \in Bad : \A k \in Bad : m <= k
    BY LeastElement
  <2>2. m \in Nat /\ m # 0 /\ ~ \E g : To(g, m)
    BY <1>1
  <2>3. m - 1 \in Nat /\ m - 1 \notin Bad
    BY <2>1, <2>2
  <2>4. PICK g : To(g, m - 1)
    BY <2>3
  <2>5. m - 1 + 1 = m
    BY <2>2
  <2> QED
    BY <1>2, <2>2, <2>3, <2>4, <2>5
<1>4. Len(path) \in Nat
  OBVIOUS
<1>5. PICK g : To(g, Len(path))
  BY <1>3, <1>4
<1> QED
  BY <1>5 DEF To, Leads

(* FollowIn is the last value of some function that leads along the path. *)
LEMMA FollowLeads ==
    ASSUME NEW ch, NEW ignored, NEW path \in Seq(Comps)
    PROVE  \E f : Leads(f, ch, path, ignored) /\ FollowIn(ch, path, ignored) = f[Len(path)]
<1> DEFINE f == CHOOSE f : Leads(f, ch, path, ignored)
<1>1. Leads(f, ch, path, ignored)
  BY LeadsExists, Zenon
<1> QED
  BY <1>1 DEF FollowIn

(* Its values, one after the other. *)
LEMMA LeadsSteps ==
    ASSUME NEW ch, NEW ignored, NEW path \in Seq(Comps), NEW f,
           Leads(f, ch, path, ignored)
    PROVE  /\ f[0] = RootIno
           /\ \A n \in 1 .. Len(path) : f[n] = NextIno(ch, f[n - 1], path[n], ignored)
<1> Len(path) \in Nat
  OBVIOUS
<1> DEFINE g == [n \in 0 .. Len(path) |-> IF n = 0 THEN RootIno
                                  ELSE NextIno(ch, f[n - 1], path[n], ignored)]
<1>1. f = g
  BY DEF Leads
<1>2. \A n \in 0 .. Len(path) : g[n] = IF n = 0 THEN RootIno
                                  ELSE NextIno(ch, f[n - 1], path[n], ignored)
  OBVIOUS
<1> HIDE DEF g
<1> QED
  BY <1>1, <1>2

(* The empty path leads to the root. *)
LEMMA FollowEmpty ==
    ASSUME NEW ch, NEW ignored
    PROVE  FollowIn(ch, << >>, ignored) = RootIno
<1>1. << >> \in Seq(Comps) /\ Len(<< >>) = 0
  OBVIOUS
<1>2. PICK f : Leads(f, ch, << >>, ignored) /\ FollowIn(ch, << >>, ignored) = f[Len(<< >>)]
  BY <1>1, FollowLeads
<1>3. f[0] = RootIno
  BY <1>1, <1>2, LeadsSteps
<1> QED
  BY <1>1, <1>2, <1>3

(* One more part leads one step further. *)
LEMMA FollowAppend ==
    ASSUME NEW ch, NEW ignored, NEW path \in Seq(Comps), NEW x \in Comps
    PROVE  FollowIn(ch, Append(path, x), ignored)
              = NextIno(ch, FollowIn(ch, path, ignored), x, ignored)
<1> DEFINE long == Append(path, x)
           m == Len(path)
<1>1. /\ long \in Seq(Comps) /\ Len(long) = m + 1 /\ m \in Nat
      /\ \A n \in 1 .. m : long[n] = path[n]
      /\ long[m + 1] = x
  OBVIOUS
<1> HIDE DEF long
<1>2. PICK f : Leads(f, ch, path, ignored) /\ FollowIn(ch, path, ignored) = f[m]
  BY FollowLeads
<1>3. PICK g : Leads(g, ch, long, ignored) /\ FollowIn(ch, long, ignored) = g[m + 1]
  BY <1>1, FollowLeads
<1>4. /\ f[0] = RootIno
      /\ \A n \in 1 .. m : f[n] = NextIno(ch, f[n - 1], path[n], ignored)
  BY <1>2, LeadsSteps
<1>5. /\ g[0] = RootIno
      /\ \A n \in 1 .. m + 1 : g[n] = NextIno(ch, g[n - 1], long[n], ignored)
  BY <1>1, <1>3, LeadsSteps
<1> HIDE DEF m
<1>6. g[m + 1] = NextIno(ch, g[m], x, ignored)
  <2>1. m + 1 \in 1 .. m + 1 /\ m + 1 - 1 = m
    BY <1>1
  <2> QED
    BY <1>1, <1>5, <2>1
<1>7. \A n \in 1 .. m : g[n] = NextIno(ch, g[n - 1], path[n], ignored)
  <2> SUFFICES ASSUME NEW n \in 1 .. m
               PROVE  g[n] = NextIno(ch, g[n - 1], path[n], ignored)
    OBVIOUS
  <2>1. n \in 1 .. m + 1 /\ long[n] = path[n]
    BY <1>1
  <2> QED
    BY <1>5, <2>1
<1>8. f[m] = g[m]
  <2> DEFINE Bad == {n \in 0 .. m : f[n] # g[n]}
  <2> SUFFICES ASSUME Bad # {}
               PROVE  FALSE
    BY <1>1
  <2>1. Bad \in SUBSET Nat
    OBVIOUS
  <2>2. PICK k \in Bad : \A j \in Bad : k <= j
    BY <2>1, LeastElement
  <2>3. k \in 1 .. m /\ k - 1 \in 0 .. m /\ k - 1 \notin Bad
    BY <1>1, <1>4, <1>5, <2>2
  <2>4. f[k - 1] = g[k - 1]
    BY <2>3
  <2> QED
    BY <1>4, <1>7, <2>2, <2>3, <2>4
<1> QED
  BY <1>2, <1>3, <1>6, <1>8 DEF long, m

Maps == [Inos -> [Comps -> Inos \cup {NoIno}]]

(* Lookups find nodes or nothing. *)
LEMMA FollowType ==
    ASSUME NEW ch \in Maps, NEW ignored, NEW path \in Seq(Comps)
    PROVE  FollowIn(ch, path, ignored) \in Inos \cup {NoIno}
<1> DEFINE m == Len(path)
<1>1. m \in Nat /\ \A n \in 1 .. m : path[n] \in Comps
  OBVIOUS
<1>2. PICK f : Leads(f, ch, path, ignored) /\ FollowIn(ch, path, ignored) = f[m]
  BY FollowLeads
<1>3. /\ f[0] = RootIno
      /\ \A n \in 1 .. m : f[n] = NextIno(ch, f[n - 1], path[n], ignored)
  BY <1>2, LeadsSteps
<1> HIDE DEF m
<1> DEFINE Bad == {n \in 0 .. m : f[n] \notin Inos \cup {NoIno}}
<1> SUFFICES ASSUME Bad # {}
             PROVE  FALSE
  <2>1. m \in 0 .. m
    BY <1>1
  <2> QED
    BY <1>2, <2>1
<1>4. Bad \in SUBSET Nat
  OBVIOUS
<1>5. PICK k \in Bad : \A j \in Bad : k <= j
  BY <1>4, LeastElement
<1>6. k \in 1 .. m /\ k - 1 \in 0 .. m /\ k - 1 \notin Bad
  <2>1. 0 \notin Bad
    BY <1>3, InosFacts
  <2> QED
    BY <1>1, <1>5, <2>1
<1>7. f[k - 1] \in Inos \cup {NoIno}
  BY <1>6
<1>8. path[k] \in Comps /\ f[k] = NextIno(ch, f[k - 1], path[k], ignored)
  BY <1>1, <1>3, <1>6
<1>9. f[k] \in Inos \cup {NoIno}
  BY <1>7, <1>8 DEF NextIno, Maps
<1> QED
  BY <1>5, <1>9

(* What a lookup finds, it finds again in maps that have grown. *)
LEMMA FollowGrows ==
    ASSUME NEW ch \in Maps, NEW dh \in Maps, NEW ignored, NEW path \in Seq(Comps),
           \A i \in Inos, x \in Comps : ch[i][x] # NoIno => dh[i][x] = ch[i][x],
           FollowIn(ch, path, ignored) # NoIno
    PROVE  FollowIn(dh, path, ignored) = FollowIn(ch, path, ignored)
<1> DEFINE m == Len(path)
<1>1. m \in Nat /\ \A n \in 1 .. m : path[n] \in Comps
  OBVIOUS
<1>2. PICK f : Leads(f, ch, path, ignored) /\ FollowIn(ch, path, ignored) = f[m]
  BY FollowLeads
<1>3. PICK g : Leads(g, dh, path, ignored) /\ FollowIn(dh, path, ignored) = g[m]
  BY FollowLeads
<1>4. /\ f[0] = g[0] /\ f[0] \in Inos
      /\ \A n \in 1 .. m : f[n] = NextIno(ch, f[n - 1], path[n], ignored)
                           /\ g[n] = NextIno(dh, g[n - 1], path[n], ignored)
  BY <1>2, <1>3, LeadsSteps, InosFacts
<1> HIDE DEF m
<1> DEFINE Good(n) == f[n] \in Inos \cup {NoIno} /\ (f[n] # NoIno => g[n] = f[n])
           Bad == {n \in 0 .. m : ~Good(n)}
<1> SUFFICES ASSUME Bad # {}
             PROVE  FALSE
  <2>1. m \in 0 .. m
    BY <1>1
  <2> QED
    BY <1>2, <1>3, <2>1
<1>5. Bad \in SUBSET Nat
  OBVIOUS
<1>6. PICK k \in Bad : \A j \in Bad : k <= j
  BY <1>5, LeastElement
<1>7. k \in 1 .. m /\ k - 1 \in 0 .. m /\ k - 1 \notin Bad
  <2>1. 0 \notin Bad
    BY <1>4
  <2> QED
    BY <1>1, <1>6, <2>1
<1>8. Good(k - 1)
  BY <1>7
<1>9. f[k] = NextIno(ch, f[k - 1], path[k], ignored)
      /\ g[k] = NextIno(dh, g[k - 1], path[k], ignored)
  BY <1>4, <1>7
<1>10. path[k] \in Comps
  BY <1>1, <1>7
<1>11. Good(k)
  <2>1. CASE f[k - 1] = NoIno
    BY <1>9, <2>1 DEF NextIno
  <2>2. CASE f[k - 1] # NoIno
    <3>1. f[k - 1] \in Inos /\ g[k - 1] = f[k - 1]
      BY <1>8, <2>2
    <3>2. ch[f[k - 1]][path[k]] \in Inos \cup {NoIno}
      BY <1>10, <3>1 DEF Maps
    <3> QED
      BY <1>9, <1>10, <2>2, <3>1, <3>2 DEF NextIno
  <2> QED
    BY <2>1, <2>2
<1> QED
  BY <1>6, <1>11

-----------------------------------------------------------------------------
(* One caller at a time: what it looked up is still so when it acts on it. *)

(* What a caller that is alone can rely on: what it looked up is still so. *)
SoloOK(t) ==
    /\ Walking(t) => req[t].op \in {"AddDirNode", "AddFileNode"}
    /\ pc[t] \in {"rmtake", "unlink"} => req[t].op = "RemoveChild"
    /\ pc[t] = "del" => req[t].op = "Del"
    /\ pc[t] = "mkdir" =>
           Head(todo[t]) # EmptyName /\ children[cur[t]][Head(todo[t])] = NoIno
    /\ pc[t] \in {"check", "create"} => todo[t] = << >>
    /\ pc[t] = "create" => children[cur[t]][Last(req[t].path)] = NoIno
    /\ pc[t] \in {"take", "store"} => children[cur[t]][name[new[t]]] = NoIno
    /\ pc[t] = "link" => children[cur[t]][name[new[t]]] = new[t]
    /\ pc[t] \in {"take", "store", "link"} =>
           \/ /\ kind[new[t]] = "dir"
              /\ name[new[t]] = Head(todo[t]) /\ Head(todo[t]) # EmptyName
           \/ /\ kind[new[t]] = "file" /\ req[t].op = "AddFileNode"
              /\ name[new[t]] = Last(req[t].path) /\ todo[t] = << >>

(* A parent pointer is to an older node, whose map holds the node. *)
ParentOK ==
    \A i \in Inos : parent[i] # NoIno =>
        /\ parent[i] \in Inos /\ parent[i] < i /\ i <= lastIno
        /\ \/ children[parent[i]][name[i]] = i
           \/ isDel[i]
           \/ \E t \in Threads : pc[t] = "unlink" /\ old[t] = i

SoloInv == ParentOK /\ \A t \in Threads : SoloOK(t)

ResultsOK == \A res \in results : res[1].op # "Del" => Resolve(res[1]) = res[2]

(* A node that is not in the tree yet has no children. *)
BareOK ==
    \A i \in Inos : i > lastIno \/ (\E t \in Threads : Adding(t) /\ new[t] = i) =>
        \A x \in Comps : children[i][x] = NoIno

(* Nodes in the tree are directories, or files that were asked for. *)
KindOK ==
    /\ kind[RootIno] = "dir"
    /\ \A p \in Inos, x \in Comps : children[p][x] # NoIno =>
          \/ kind[children[p][x]] = "dir"
          \/ /\ kind[children[p][x]] = "file"
             /\ \E s \in Reqs : s.op = "AddFileNode" /\ Resolve(s) = children[p][x]

(* NewFS establishes what a lone caller relies on. *)
LEMMA SoloInit == Init => SoloInv
<1> SUFFICES ASSUME Init PROVE SoloInv
    OBVIOUS
<1>1. ParentOK
    BY DEF Init, ParentOK
<1>2. \A t \in Threads : SoloOK(t)
    BY DEF Init, SoloOK, Walking, Adding, Building
<1> QED
    BY <1>1, <1>2 DEF SoloInv

(* Steps that leave the nodes alone keep the parent pointers right. *)
LEMMA ParentOKKept ==
    ASSUME TypeOK, ParentOK, NEW t \in Threads, OnlyLocal(t),
           UNCHANGED <<parent, children, name, isDel>>, lastIno <= lastIno',
           lastIno \in Nat, lastIno' \in Nat,
           pc[t] # "unlink"
    PROVE  ParentOK'
<1>1. \A i \in Inos : (\E u \in Threads : pc[u] = "unlink" /\ old[u] = i)
                     => \E u \in Threads : pc'[u] = "unlink" /\ old'[u] = i
    BY DEF OnlyLocal
<1>2. \A i \in Inos : i <= lastIno => i <= lastIno'
    BY InosFacts
<1> QED
    BY <1>1, <1>2 DEF ParentOK

(* A new request keeps what a lone caller relies on. *)
LEMMA SoloRequest ==
    ASSUME IndInv, SoloInv, TypeOK', OneCaller, NEW t \in Threads, Request(t)
    PROVE  SoloInv'
<1> USE DEF IndInv, nodeVars
<1>1. OnlyLocal(t)
    BY StepIsLocal
<1>2. /\ UNCHANGED <<kind, name, children, parent, isDel, lastIno>>
      /\ pc[t] = "idle"
      /\ \/ pc'[t] = "walk" /\ req'[t].op \in {"AddDirNode", "AddFileNode"}
         \/ pc'[t] = "rmtake" /\ req'[t].op = "RemoveChild"
         \/ pc'[t] = "del" /\ req'[t].op = "Del"
    BY DEF Request, AddNode, RemoveChild, Del, Call, Goto, TypeOK
<1>3. ParentOK'
  <2>1. TypeOK /\ ParentOK
    BY DEF SoloInv
  <2>2. lastIno \in Nat /\ lastIno' \in Nat /\ lastIno <= lastIno'
    BY <1>2, InosFacts DEF TypeOK
  <2>3. UNCHANGED <<parent, children, name, isDel>> /\ pc[t] # "unlink"
    BY <1>2
  <2> HIDE DEF IndInv
  <2> QED
    BY <1>1, <2>1, <2>2, <2>3, ParentOKKept
<1>4. SoloOK(t)'
    BY <1>2 DEF SoloOK, Walking, Adding, Building
<1> QED
    BY <1>3, <1>4 DEF SoloInv, OneCaller

(* So does a return, if the parent pointers are right. *)
LEMMA SoloReturn ==
    ASSUME TypeOK, ParentOK', OneCaller, NEW t \in Threads, Return(t)
    PROVE  SoloInv'
<1>1. pc'[t] = "idle"
    BY DEF Return, Goto, TypeOK
<1>2. SoloOK(t)'
    BY <1>1 DEF SoloOK, Walking, Adding, Building
<1> QED
    BY <1>2 DEF SoloInv, OneCaller

(* So does a step of the walk: what it did not find is not there. *)
LEMMA SoloWalk ==
    ASSUME IndInv, SoloInv, TypeOK', OneCaller, NEW t \in Threads, Walk(t)
    PROVE  SoloInv'
<1> USE DEF IndInv, nodeVars, localVars
<1>1. OnlyLocal(t)
    BY StepIsLocal DEF Step
<1>2. /\ UNCHANGED <<kind, name, children, parent, isDel, lastIno>>
      /\ pc[t] = "walk" /\ req[t].op \in {"AddDirNode", "AddFileNode"}
    BY DEF Walk, SoloInv, SoloOK, Walking
<1>3. ParentOK'
  <2>1. TypeOK /\ ParentOK
    BY DEF SoloInv
  <2>2. lastIno \in Nat /\ lastIno' \in Nat /\ lastIno <= lastIno'
    BY <1>2, InosFacts DEF TypeOK
  <2>3. UNCHANGED <<parent, children, name, isDel>> /\ pc[t] # "unlink"
    BY <1>2
  <2> HIDE DEF IndInv
  <2> QED
    BY <1>1, <2>1, <2>2, <2>3, ParentOKKept
<1>4. CASE Return(t)
    BY <1>3, <1>4, SoloReturn
<1>5. CASE ~Return(t)
  <2>1. /\ UNCHANGED req
        /\ \/ pc'[t] = "walk"
           \/ /\ pc'[t] = "mkdir" /\ UNCHANGED <<todo, cur>>
              /\ Head(todo[t]) # EmptyName /\ children[cur[t]][Head(todo[t])] = NoIno
           \/ pc'[t] = "check" /\ todo[t] = << >> /\ UNCHANGED todo
    BY <1>2, <1>5 DEF Walk, ReturnOK, Goto, TypeOK
  <2>2. SoloOK(t)'
    BY <1>2, <2>1 DEF SoloOK, Walking, Adding, Building
  <2> QED
    BY <1>3, <2>2 DEF SoloInv, OneCaller
<1> QED
    BY <1>4, <1>5

(* The caller makes a node for a name that it has not found. *)
LEMMA SoloNewNode ==
    ASSUME IndInv, SoloInv, TypeOK', OneCaller, NEW t \in Threads, OnlyLocal(t),
           NEW k, NEW x \in Comps, NewNode(t, k, x), UNCHANGED <<req, todo, cur>>,
           pc[t] \in {"mkdir", "create"},
           children[cur[t]][x] = NoIno,
           \/ k = "dir" /\ x = Head(todo[t]) /\ x # EmptyName
           \/ /\ k = "file" /\ req[t].op = "AddFileNode"
              /\ x = Last(req[t].path) /\ todo[t] = << >>
    PROVE  SoloInv'
<1> USE InosFacts DEF IndInv
<1>1. /\ UNCHANGED <<children, parent, isDel>>
      /\ lastIno' = lastIno + 1 /\ lastIno \in Nat /\ lastIno' \in Inos
      /\ new'[t] = lastIno' /\ pc'[t] = "take"
      /\ kind'[lastIno'] = k /\ name'[lastIno'] = x
      /\ \A i \in Inos : i # lastIno' => name'[i] = name[i]
    BY DEF NewNode, Goto, TypeOK
<1>2. ParentOK'
  <2>1. \A i \in Inos : i <= lastIno => name'[i] = name[i] /\ i <= lastIno'
    <3> SUFFICES ASSUME NEW i \in Inos, i <= lastIno
                 PROVE  name'[i] = name[i] /\ i <= lastIno'
        OBVIOUS
    <3>1. i \in Nat /\ lastIno \in Nat /\ lastIno' = lastIno + 1
        BY <1>1
    <3>2. i # lastIno' /\ i <= lastIno'
        BY <3>1
    <3> QED
        BY <1>1, <3>2
  <2>2. pc[t] # "unlink"
    OBVIOUS
  <2>3. \A i \in Inos : (\E u \in Threads : pc[u] = "unlink" /\ old[u] = i)
                     => \E u \in Threads : pc'[u] = "unlink" /\ old'[u] = i
    BY <2>2 DEF OnlyLocal
  <2> QED
    BY <1>1, <2>1, <2>3 DEF ParentOK, SoloInv
<1>3. SoloOK(t)'
  <2>1. req[t].op \in {"AddDirNode", "AddFileNode"}
    BY DEF SoloInv, SoloOK, Walking
  <2> QED
    BY <1>1, <2>1 DEF SoloOK, Walking, Adding, Building
<1> QED
    BY <1>2, <1>3 DEF SoloInv, OneCaller

(* The steps that look up and make nodes keep what a lone caller relies    *)
(* on.                                                                     *)
LEMMA SoloCreate ==
    ASSUME IndInv, SoloInv, TypeOK', OneCaller, NEW t \in Threads,
           MkDir(t) \/ Check(t) \/ Create(t)
    PROVE  SoloInv'
<1> USE DEF IndInv, nodeVars, localVars
<1>1. OnlyLocal(t)
    BY StepIsLocal DEF Step
<1>2. RequestOK(t) /\ SoloOK(t) /\ ParentOK
    BY DEF SoloInv
<1>3. CASE MkDir(t)
  <2>1. pc[t] = "mkdir" /\ todo[t] # << >> /\ Head(todo[t]) \in Comps
    BY <1>2, <1>3 DEF MkDir, RequestOK, TypeOK
  <2>2. Head(todo[t]) # EmptyName /\ children[cur[t]][Head(todo[t])] = NoIno
    BY <1>2, <2>1 DEF SoloOK
  <2>3. NewNode(t, "dir", Head(todo[t])) /\ UNCHANGED <<req, todo, cur>>
    BY <1>3 DEF MkDir
  <2> QED
    BY <1>1, <2>1, <2>2, <2>3, SoloNewNode
<1>4. CASE Check(t)
  <2>1. UNCHANGED <<kind, name, children, parent, isDel, lastIno>> /\ pc[t] = "check"
    BY <1>4 DEF Check
  <2>2. ParentOK'
    <3>1. lastIno \in Nat /\ lastIno' \in Nat /\ lastIno <= lastIno'
        BY <2>1, InosFacts DEF TypeOK
    <3>2. UNCHANGED <<parent, children, name, isDel>> /\ pc[t] # "unlink"
        BY <2>1
    <3> QED
        BY <1>1, <1>2, <3>1, <3>2, ParentOKKept
  <2>3. CASE Return(t)
    BY <2>2, <2>3, SoloReturn
  <2>4. CASE ~Return(t)
    <3>1. /\ pc'[t] = "create" /\ UNCHANGED <<req, cur, todo>>
          /\ children[cur[t]][Last(req[t].path)] = NoIno
        BY <1>4, <2>4 DEF Check, Goto, TypeOK
    <3>2. req[t].op \in {"AddDirNode", "AddFileNode"} /\ todo[t] = << >>
        BY <1>2, <2>1 DEF SoloOK, Walking
    <3>3. SoloOK(t)'
        BY <2>1, <3>1, <3>2 DEF SoloOK, Walking, Adding, Building
    <3> QED
        BY <2>2, <3>3 DEF SoloInv, OneCaller
  <2> QED
    BY <2>3, <2>4
<1>5. CASE Create(t)
  <2>1. pc[t] = "create" /\ Last(req[t].path) \in Comps
    BY <1>2, <1>5, PathParts DEF Create, RequestOK
  <2>2. CASE req[t].adapter
    <3>1. NewNode(t, "file", Last(req[t].path)) /\ UNCHANGED <<req, todo, cur>>
        BY <1>5, <2>2 DEF Create
    <3>2. /\ children[cur[t]][Last(req[t].path)] = NoIno /\ todo[t] = << >>
          /\ req[t].op = "AddFileNode"
        BY <1>2, <2>1 DEF SoloOK, RequestOK, Walking
    <3> QED
        BY <1>1, <2>1, <3>1, <3>2, SoloNewNode
  <2>3. CASE ~req[t].adapter
    <3>1. Return(t) /\ UNCHANGED <<kind, name, children, parent, isDel>>
          /\ lastIno' = lastIno + 1
        BY <1>5, <2>3 DEF Create
    <3>2. ParentOK'
        BY <1>1, <1>2, <2>1, <3>1, ParentOKKept, InosFacts DEF TypeOK
    <3> QED
        BY <3>1, <3>2, SoloReturn
  <2> QED
    BY <2>2, <2>3
<1> QED
    BY <1>3, <1>4, <1>5

(* A lone AddChild finds nothing to replace. *)
LEMMA SoloTake ==
    ASSUME IndInv, SoloInv, NEW t \in Threads, AddChildTake(t)
    PROVE  /\ UNCHANGED <<lastIno, kind, name, children, parent, isDel, req, todo, cur, new, results>>
           /\ pc[t] = "take" /\ pc'[t] = "store" /\ old'[t] = NoIno
<1> USE DEF IndInv
<1>1. /\ pc[t] = "take" /\ cur[t] \in Inos /\ name[new[t]] \in Comps
      /\ children[cur[t]][name[new[t]]] = NoIno
    BY DEF AddChildTake, RequestOK, NewOK, Walking, Adding, Building, TypeOK, SoloInv, SoloOK
<1>2. children' = [children EXCEPT ![cur[t]][name[new[t]]] = NoIno]
    BY DEF AddChildTake
<1>3. children' = children
    BY <1>1, <1>2 DEF TypeOK
<1> QED
    BY <1>1, <1>3 DEF AddChildTake, Goto, TypeOK

(* The store of a lone AddChild adds an entry where there was none. *)
LEMMA SoloStore ==
    ASSUME IndInv, SoloInv, NEW t \in Threads, AddChildStore(t)
    PROVE  /\ UNCHANGED <<lastIno, kind, name, parent, isDel, req, todo, cur, new, old, results>>
           /\ pc[t] = "store" /\ pc'[t] = "link"
           /\ cur[t] \in Inos /\ new[t] \in Inos /\ name[new[t]] \in Comps
           /\ children[cur[t]][name[new[t]]] = NoIno
           /\ \A p \in Inos, x \in Comps :
                 children'[p][x] = IF p = cur[t] /\ x = name[new[t]] THEN new[t]
                                   ELSE children[p][x]
<1> USE DEF IndInv
<1>1. /\ pc[t] = "store" /\ cur[t] \in Inos /\ new[t] \in Inos /\ name[new[t]] \in Comps
      /\ children[cur[t]][name[new[t]]] = NoIno
    BY DEF AddChildStore, RequestOK, NewOK, Walking, Adding, Building, TypeOK, SoloInv, SoloOK
<1> QED
    BY <1>1 DEF AddChildStore, Goto, TypeOK, localVars

(* AddChild keeps what a lone caller relies on. *)
LEMMA SoloAdd ==
    ASSUME IndInv, SoloInv, TypeOK', OneCaller, NEW t \in Threads,
           AddChildTake(t) \/ AddChildStore(t) \/ AddChildLink(t)
    PROVE  SoloInv'
<1> USE DEF IndInv, localVars
<1>1. OnlyLocal(t)
    BY StepIsLocal DEF Step
<1>2. RequestOK(t) /\ NewOK(t) /\ SoloOK(t) /\ ParentOK /\ lastIno \in Nat
    BY InosFacts DEF SoloInv, TypeOK
<1>3. CASE AddChildTake(t)
  <2>1. /\ UNCHANGED <<lastIno, kind, name, children, parent, isDel, req, todo, cur, new>>
        /\ pc[t] = "take" /\ pc'[t] = "store"
    BY <1>3, SoloTake
  <2>2. ParentOK'
    BY <1>1, <1>2, <2>1, ParentOKKept
  <2>3. SoloOK(t)'
    BY <1>2, <2>1 DEF SoloOK, Walking, Adding, Building
  <2> QED
    BY <2>2, <2>3 DEF SoloInv, OneCaller
<1>4. CASE AddChildStore(t)
  <2>1. /\ UNCHANGED <<lastIno, kind, name, parent, isDel, req, todo, cur, new, old>>
        /\ pc[t] = "store" /\ pc'[t] = "link"
        /\ cur[t] \in Inos /\ new[t] \in Inos /\ name[new[t]] \in Comps
        /\ children[cur[t]][name[new[t]]] = NoIno
        /\ \A p \in Inos, x \in Comps :
              children'[p][x] = IF p = cur[t] /\ x = name[new[t]] THEN new[t]
                                ELSE children[p][x]
    BY <1>4, SoloStore
  <2>2. ParentOK'
    <3>1. \A p \in Inos, x \in Comps : children[p][x] # NoIno => children'[p][x] = children[p][x]
        BY <2>1
    <3>2. \A i \in Inos : (\E u \in Threads : pc[u] = "unlink" /\ old[u] = i)
                     => \E u \in Threads : pc'[u] = "unlink" /\ old'[u] = i
        BY <1>1, <2>1 DEF OnlyLocal
    <3>3. \A i \in Inos : name[i] \in Comps /\ i # NoIno
        BY InosFacts DEF TypeOK
    <3> QED
        BY <1>2, <2>1, <3>1, <3>2, <3>3 DEF ParentOK
  <2>3. SoloOK(t)'
    BY <1>2, <2>1 DEF SoloOK, Walking, Adding, Building
  <2> QED
    BY <2>2, <2>3 DEF SoloInv, OneCaller
<1>5. CASE AddChildLink(t)
  <2>1. /\ UNCHANGED <<kind, name, children, isDel, lastIno>> /\ pc[t] = "link"
        /\ parent' = [parent EXCEPT ![new[t]] = cur[t]]
        /\ new[t] \in Inos /\ new[t] <= lastIno /\ cur[t] < new[t] /\ cur[t] \in Inos
        /\ children[cur[t]][name[new[t]]] = new[t]
        /\ req[t].op \in {"AddDirNode", "AddFileNode"}
    BY <1>2, <1>5 DEF AddChildLink, LinkTo, NewOK, RequestOK, Adding, Walking, SoloOK
  <2>2. ParentOK'
    <3>1. \A i \in Inos : (\E u \in Threads : pc[u] = "unlink" /\ old[u] = i)
                     => \E u \in Threads : pc'[u] = "unlink" /\ old'[u] = i
        BY <1>1, <2>1 DEF OnlyLocal
    <3>2. /\ \A i \in Inos : i # new[t] => parent'[i] = parent[i]
          /\ parent'[new[t]] = cur[t]
        BY <2>1 DEF TypeOK
    <3> QED
        BY <1>2, <2>1, <3>1, <3>2 DEF ParentOK
  <2>3. CASE kind[new[t]] # "dir"
    <3>1. Return(t)
        BY <1>5, <2>3 DEF AddChildLink, Added, ReturnOK
    <3> QED
        BY <2>2, <3>1, SoloReturn
  <2>4. CASE kind[new[t]] = "dir"
    <3>1. pc'[t] = "walk" /\ UNCHANGED req
        BY <1>5, <2>4 DEF AddChildLink, Added, Goto, TypeOK
    <3>2. SoloOK(t)'
        BY <2>1, <3>1 DEF SoloOK, Walking, Adding, Building
    <3> QED
        BY <2>2, <3>2 DEF SoloInv, OneCaller
  <2> QED
    BY <2>3, <2>4
<1> QED
    BY <1>3, <1>4, <1>5

(* Del and RemoveChild keep what a lone caller relies on. *)
LEMMA SoloRemove ==
    ASSUME IndInv, SoloInv, TypeOK', OneCaller, NEW t \in Threads,
           DelNode(t) \/ RemoveChildTake(t) \/ RemoveChildUnlink(t)
    PROVE  SoloInv'
<1> USE DEF IndInv, localVars
<1>1. OnlyLocal(t)
    BY StepIsLocal DEF Step
<1>2. RequestOK(t) /\ OldOK(t) /\ SoloOK(t) /\ ParentOK /\ lastIno \in Nat
    BY InosFacts DEF SoloInv, TypeOK
<1>3. CASE DelNode(t)
  <2>1. /\ UNCHANGED <<kind, name, children, lastIno>> /\ pc[t] = "del"
        /\ isDel' = [isDel EXCEPT ![old[t]] = TRUE]
        /\ parent' = [parent EXCEPT ![old[t]] = NoIno]
        /\ old[t] \in Inos /\ Return(t)
    BY <1>2, <1>3 DEF DelNode, OldOK, SoloOK
  <2>2. ParentOK'
    <3>1. \A i \in Inos : (\E u \in Threads : pc[u] = "unlink" /\ old[u] = i)
                     => \E u \in Threads : pc'[u] = "unlink" /\ old'[u] = i
        BY <1>1, <2>1 DEF OnlyLocal
    <3>2. /\ \A i \in Inos : i # old[t] => parent'[i] = parent[i] /\ isDel'[i] = isDel[i]
          /\ parent'[old[t]] = NoIno
        BY <2>1 DEF TypeOK
    <3> QED
        BY <1>2, <2>1, <3>1, <3>2 DEF ParentOK
  <2> QED
    BY <2>1, <2>2, SoloReturn
<1>4. CASE RemoveChildTake(t)
  <2>1. /\ pc[t] = "rmtake" /\ cur[t] \in Inos /\ Last(req[t].path) \in Comps
        /\ UNCHANGED <<lastIno, kind, name, parent, isDel>>
        /\ req[t].op = "RemoveChild"
    BY <1>2, <1>4, PathParts DEF RemoveChildTake, RequestOK, SoloOK
  <2>2. CASE children[cur[t]][Last(req[t].path)] = NoIno
    <3>1. Return(t) /\ UNCHANGED children
        BY <1>4, <2>2 DEF RemoveChildTake
    <3>2. ParentOK'
        BY <1>1, <1>2, <2>1, <3>1, ParentOKKept
    <3> QED
        BY <3>1, <3>2, SoloReturn
  <2>3. CASE children[cur[t]][Last(req[t].path)] # NoIno
    <3>1. PICK x \in Comps : x = Last(req[t].path)
        BY <2>1
    <3>2. /\ old'[t] = children[cur[t]][x] /\ old'[t] # NoIno
          /\ children' = [children EXCEPT ![cur[t]][x] = NoIno]
          /\ pc'[t] = "unlink" /\ UNCHANGED req
        BY <1>4, <2>3, <3>1 DEF RemoveChildTake, Goto, TypeOK
    <3>3. \A p \in Inos, y \in Comps :
             children'[p][y] = IF p = cur[t] /\ y = x THEN NoIno ELSE children[p][y]
        BY <2>1, <3>2 DEF TypeOK
    <3>4. SoloOK(t)'
        BY <2>1, <3>2 DEF SoloOK, Walking, Adding, Building
    <3>5. ParentOK'
      <4> SUFFICES ASSUME NEW i \in Inos, parent[i] # NoIno
                   PROVE  /\ parent[i] \in Inos /\ parent[i] < i /\ i <= lastIno
                          /\ \/ children'[parent[i]][name[i]] = i
                             \/ isDel[i]
                             \/ \E u \in Threads : pc'[u] = "unlink" /\ old'[u] = i
          BY <2>1 DEF ParentOK
      <4>1. parent[i] \in Inos /\ parent[i] < i /\ i <= lastIno /\ name[i] \in Comps
          BY <1>2 DEF ParentOK, TypeOK
      <4>2. \/ children[parent[i]][name[i]] = i
            \/ isDel[i]
            \/ \E u \in Threads : pc[u] = "unlink" /\ old[u] = i
          BY <1>2 DEF ParentOK
      <4>3. \A u \in Threads : pc[u] # "unlink"
          BY <2>1 DEF OneCaller
      <4>4. CASE children[parent[i]][name[i]] = i
          BY <3>2, <3>3, <4>1, <4>4
      <4> QED
          BY <4>1, <4>2, <4>3, <4>4
    <3> QED
        BY <3>4, <3>5 DEF SoloInv, OneCaller
  <2> QED
    BY <2>2, <2>3
<1>5. CASE RemoveChildUnlink(t)
  <2>1. /\ UNCHANGED <<kind, name, children, isDel, lastIno>> /\ pc[t] = "unlink"
        /\ parent' = [parent EXCEPT ![old[t]] = NoIno] /\ Return(t)
        /\ old[t] \in Inos
    BY <1>2, <1>5 DEF RemoveChildUnlink, OldOK
  <2>2. ParentOK'
    <3>1. /\ \A i \in Inos : i # old[t] => parent'[i] = parent[i]
          /\ parent'[old[t]] = NoIno
        BY <2>1 DEF TypeOK
    <3>2. \A i \in Inos : i # old[t] => ~ \E u \in Threads : pc[u] = "unlink" /\ old[u] = i
        BY DEF OneCaller
    <3> QED
        BY <1>2, <2>1, <3>1, <3>2 DEF ParentOK
  <2> QED
    BY <2>1, <2>2, SoloReturn
<1> QED
    BY <1>3, <1>4, <1>5

(* Every step of a lone caller keeps what it relies on. *)
LEMMA SoloNext ==
    ASSUME OneCaller
    PROVE  IndInv /\ SoloInv /\ [Next]_vars => SoloInv'
<1> SUFFICES ASSUME IndInv, SoloInv, [Next]_vars PROVE SoloInv'
    OBVIOUS
<1>1. TypeOK'
    BY TypePreserved
<1>2. CASE UNCHANGED vars
  <2>1. ParentOK'
    BY <1>2 DEF vars, SoloInv, ParentOK
  <2>2. \A t \in Threads : SoloOK(t)'
    BY <1>2 DEF vars, SoloInv, SoloOK, Walking, Adding, Building
  <2> QED
    BY <2>1, <2>2 DEF SoloInv
<1>3. ASSUME NEW t \in Threads, Request(t) \/ Step(t) PROVE SoloInv'
    BY <1>1, <1>3, SoloRequest, SoloWalk, SoloCreate, SoloAdd, SoloRemove DEF Step
<1> QED
    BY <1>2, <1>3 DEF Next

(* So it can always rely on it. *)
LEMMA SoloInvariance ==
    ASSUME OneCaller
    PROVE  Spec => []SoloInv
<1>1. IndInv /\ SoloInv /\ [Next]_vars => SoloInv'
    BY SoloNext
<1> QED
    BY <1>1, SoloInit, Invariance, PTL DEF Spec

-----------------------------------------------------------------------------
(* Node.Path. *)

(* f climbs from every node to the root, parent after parent. *)
Upward(f, n) ==
    IF n = RootIno THEN {<< >>}
    ELSE IF isDel[n] \/ parent[n] = NoIno THEN {}
    ELSE {Join(up, name[n]) : up \in f[parent[n]]}

Climbs(f) == f = [n \in Inos |-> Upward(f, n)]

(* Parents are older, so that climbing ends. *)
LEMMA ClimbsExists ==
    ASSUME \A i \in Inos : parent[i] # NoIno => parent[i] \in Inos /\ parent[i] < i
    PROVE  \E f : Climbs(f)
<1> DEFINE UpTo(k) == {i \in Inos : i <= k}
           To(g, k) == g = [n \in UpTo(k) |-> Upward(g, n)]
           Bad == {k \in Nat : ~ \E g : To(g, k)}
<1>1. \E g : To(g, 0)
  <2>1. UpTo(0) = {}
    BY InosFacts DEF NoIno
  <2> DEFINE g == [n \in {} |-> << >>]
  <2>2. [n \in UpTo(0) |-> Upward(g, n)] = g
    BY <2>1
  <2> QED
    BY <2>2
<1>2. ASSUME NEW k \in Nat, NEW g, To(g, k)
      PROVE  \E h : To(h, k + 1)
  <2> DEFINE h == [n \in UpTo(k + 1) |-> IF n = k + 1 THEN Upward(g, k + 1) ELSE g[n]]
  <2>0. \A n \in UpTo(k + 1) : n \in Inos /\ (n # k + 1 => n \in UpTo(k))
    BY InosFacts
  <2>00. \A n \in UpTo(k) : n \in UpTo(k + 1) /\ n # k + 1
    BY InosFacts
  <2>1. \A n \in UpTo(k) : h[n] = g[n]
    BY <2>00
  <2>2. \A n \in UpTo(k) : g[n] = Upward(g, n)
    BY <1>2
  <2>3. \A n \in UpTo(k + 1) : h[n] = Upward(h, n)
    <3> SUFFICES ASSUME NEW n \in UpTo(k + 1)
                 PROVE  h[n] = Upward(h, n)
      OBVIOUS
    <3>1. parent[n] # NoIno => parent[n] \in UpTo(k)
      BY InosFacts
    <3>4. parent[n] # NoIno => h[parent[n]] = g[parent[n]]
      BY <2>1, <3>1
    <3>2. Upward(h, n) = Upward(g, n)
      <4> HIDE DEF h
      <4> QED
        BY <3>4 DEF Upward
    <3>3. h[n] = Upward(g, n)
      BY <2>0, <2>2
    <3> QED
      BY <3>2, <3>3
  <2> DEFINE hh == [n \in UpTo(k + 1) |-> Upward(h, n)]
  <2>4. h = hh
    BY <2>3
  <2> QED
    BY <2>4
<1>6. \A g : To(g, MaxIno) => Climbs(g)
  <2>1. UpTo(MaxIno) = Inos
    BY TreeConstants DEF Inos, RootIno
  <2> QED
    BY <2>1 DEF Climbs
<1> HIDE DEF To
<1>3. Bad = {}
  <2> SUFFICES ASSUME Bad # {}
               PROVE  FALSE
    OBVIOUS
  <2>1. PICK m \in Bad : \A k \in Bad : m <= k
    BY LeastElement
  <2>2. m \in Nat /\ m # 0 /\ ~ \E g : To(g, m)
    BY <1>1
  <2>3. m - 1 \in Nat /\ m - 1 \notin Bad
    BY <2>1, <2>2
  <2>4. PICK g : To(g, m - 1)
    BY <2>3
  <2>5. m - 1 + 1 = m
    BY <2>2
  <2> QED
    BY <1>2, <2>2, <2>3, <2>4, <2>5
<1>4. MaxIno \in Nat
  BY TreeConstants
<1>5. PICK g : To(g, MaxIno)
  BY <1>3, <1>4
<1> QED
  BY <1>5, <1>6

(* Below the root a path is the parent's path and the node's name; the     *)
(* root's path is empty.                                                   *)
LEMMA PathUnfolds ==
    ASSUME \A i \in Inos : parent[i] # NoIno => parent[i] \in Inos /\ parent[i] < i
    PROVE  /\ Path(RootIno) = {<< >>}
           /\ \A i \in Inos : i # RootIno /\ Path(i) # {} =>
                 /\ ~isDel[i] /\ parent[i] # NoIno
                 /\ Path(i) = {Join(up, name[i]) : up \in Path(parent[i])}
<1> DEFINE f == CHOOSE f : Climbs(f)
<1>1. Climbs(f)
  <2>1. \E g : Climbs(g)
    BY ClimbsExists
  <2> QED
    BY <2>1, Zenon
<1>2. \A n : Path(n) = f[n]
  BY DEF Path, Climbs, Upward
<1> HIDE DEF f
<1>3. \A n \in Inos : f[n] = Upward(f, n)
  BY <1>1 DEF Climbs
<1>4. Path(RootIno) = {<< >>}
  BY <1>2, <1>3, InosFacts DEF Upward
<1>5. ASSUME NEW i \in Inos, i # RootIno, Path(i) # {}
      PROVE  /\ ~isDel[i] /\ parent[i] # NoIno
             /\ Path(i) = {Join(up, name[i]) : up \in Path(parent[i])}
  <2>1. f[i] = Upward(f, i) /\ f[i] # {}
    BY <1>2, <1>3, <1>5
  <2> QED
    BY <1>2, <1>5, <2>1 DEF Upward
<1> QED
  BY <1>4, <1>5

-----------------------------------------------------------------------------
(* A node named "" has nothing below it: AddDirNode passes over empty      *)
(* parts.  The root is named "" too.                                       *)
Named(i) == i = RootIno \/ name[i] # EmptyName

NamedInv ==
    /\ \A i \in Inos : parent[i] # NoIno => Named(parent[i])
    /\ \A t \in Threads : Walking(t) => Named(cur[t])

(* A lone caller's steps keep it so. *)
LEMMA NamedNext ==
    ASSUME IndInv, SoloInv, OneCaller, NamedInv, [Next]_vars
    PROVE  NamedInv'
<1>0. /\ TypeOK /\ ParentOK /\ Forest
      /\ \A t \in Threads : SoloOK(t) /\ RequestOK(t) /\ NewOK(t)
  BY DEF IndInv, SoloInv
<1>1. CASE UNCHANGED vars
  BY <1>1 DEF vars, NamedInv, Named, Walking, Adding, Building
<1>2. ASSUME NEW t \in Threads, UNCHANGED <<name, parent>>,
             Walking(t)' => Named(cur'[t])
      PROVE  NamedInv'
  BY <1>2 DEF NamedInv, Named, OneCaller
<1>3. ASSUME NEW t \in Threads, UNCHANGED <<name>>,
             \A i \in Inos : parent'[i] \in {parent[i], NoIno},
             Walking(t)' => Walking(t) /\ cur'[t] = cur[t]
      PROVE  NamedInv'
  BY <1>3 DEF NamedInv, Named, OneCaller
<1>4. ASSUME NEW t \in Threads, Request(t) PROVE NamedInv'
  <2>1. /\ UNCHANGED <<name, parent>>
        /\ \/ pc'[t] = "walk" /\ cur'[t] = RootIno
           \/ pc'[t] = "rmtake"
           \/ pc'[t] = "del" /\ req'[t].op = "Del"
    BY <1>0, <1>4 DEF Request, AddNode, RemoveChild, Del, Call, Goto, TypeOK, nodeVars
  <2>2. Walking(t)' => Named(cur'[t])
    BY <2>1 DEF Walking, Adding, Building, Named
  <2> QED
    BY <1>2, <2>1, <2>2
<1>5. ASSUME NEW t \in Threads, Walk(t) PROVE NamedInv'
  <2>1. UNCHANGED <<name, parent>> /\ Named(cur[t]) /\ cur[t] \in Inos
    BY <1>0, <1>5 DEF Walk, nodeVars, NamedInv, Walking, RequestOK
  <2>2. \/ pc'[t] = "idle"
        \/ cur'[t] = cur[t]
        \/ /\ todo[t] # << >> /\ Head(todo[t]) # EmptyName
           /\ children[cur[t]][Head(todo[t])] # NoIno
           /\ cur'[t] = children[cur[t]][Head(todo[t])]
    BY <1>0, <1>5 DEF Walk, ReturnOK, Return, Goto, TypeOK, localVars
  <2>3. todo[t] # << >> => Head(todo[t]) \in Comps
    BY <1>0 DEF TypeOK
  <2>4. pc'[t] # "idle" => Named(cur'[t])
    BY <1>0, <2>1, <2>2, <2>3 DEF Named, Forest
  <2>5. Walking(t)' => Named(cur'[t])
    BY <2>4 DEF Walking, Adding, Building
  <2> QED
    BY <1>2, <2>1, <2>5
<1>6. ASSUME NEW t \in Threads, MkDir(t) \/ Create(t) PROVE NamedInv'
  <2>1. cur[t] \in Inos /\ cur[t] <= lastIno /\ Named(cur[t]) /\ lastIno \in Nat
    BY <1>0, <1>6, InosFacts DEF MkDir, Create, RequestOK, Walking, NamedInv, TypeOK
  <2>2. /\ UNCHANGED parent
        /\ \A i \in Inos : i # lastIno + 1 => name'[i] = name[i]
        /\ pc'[t] = "idle" \/ cur'[t] = cur[t]
    BY <1>0, <1>6 DEF MkDir, Create, NewNode, Return, Goto, TypeOK, nodeVars
  <2>3. \A i \in Inos : i <= lastIno /\ Named(i) => Named(i)'
    BY <2>1, <2>2, InosFacts DEF Named
  <2>4. \A i \in Inos : parent[i] # NoIno => parent[i] \in Inos /\ parent[i] <= lastIno
    BY <1>0, <2>1, InosFacts DEF ParentOK
  <2>5. \A i \in Inos : parent'[i] # NoIno => Named(parent[i])'
    BY <2>2, <2>3, <2>4 DEF NamedInv, Named
  <2>6. Walking(t)' => Named(cur[t])'
    BY <2>1, <2>2, <2>3 DEF Walking, Adding, Building, Named
  <2> QED
    BY <2>5, <2>6 DEF NamedInv, OneCaller
<1>7. ASSUME NEW t \in Threads, Check(t) \/ AddChildTake(t) \/ AddChildStore(t) PROVE NamedInv'
  <2>1. /\ UNCHANGED <<name, parent>> /\ Walking(t)
        /\ pc'[t] = "idle" \/ cur'[t] = cur[t]
    BY <1>0, <1>7 DEF Check, AddChildTake, AddChildStore, Return, Goto, TypeOK, nodeVars,
                      localVars, Walking, Adding, Building
  <2>2. Walking(t)' => Named(cur'[t])
    BY <2>1 DEF Walking, Adding, Building, NamedInv
  <2> QED
    BY <1>2, <2>1, <2>2
<1>8. ASSUME NEW t \in Threads, DelNode(t) \/ RemoveChildTake(t) \/ RemoveChildUnlink(t)
      PROVE  NamedInv'
  <2>1. pc[t] \in {"del", "rmtake", "unlink"} /\ (pc[t] = "del" => req[t].op = "Del")
    BY <1>0, <1>8 DEF DelNode, RemoveChildTake, RemoveChildUnlink, SoloOK
  <2>2. UNCHANGED name /\ pc'[t] \in {"idle", "unlink"}
        /\ \A i \in Inos : parent'[i] \in {parent[i], NoIno}
    BY <1>0, <1>8, <2>1
       DEF DelNode, RemoveChildTake, RemoveChildUnlink, Return, Goto, TypeOK
  <2>3. ~Walking(t)'
    BY <2>2 DEF Walking, Adding, Building
  <2> QED
    BY <1>3, <2>2, <2>3
<1>9. ASSUME NEW t \in Threads, AddChildLink(t) PROVE NamedInv'
  <2>1. pc[t] = "link" /\ Named(cur[t]) /\ new[t] \in Inos /\ SoloOK(t)
    BY <1>0, <1>9 DEF AddChildLink, LinkTo, NewOK, Walking, Adding, NamedInv
  <2>2. /\ UNCHANGED name
        /\ \A i \in Inos : parent'[i] \in {parent[i], cur[t]}
        /\ \/ pc'[t] = "idle"
           \/ kind[new[t]] = "dir" /\ cur'[t] = new[t]
    BY <1>0, <1>9 DEF AddChildLink, LinkTo, Added, ReturnOK, Return, Goto, TypeOK
  <2>3. Walking(t)' => Named(cur'[t])
    BY <2>1, <2>2 DEF Walking, Adding, Building, SoloOK, Named
  <2>4. \A i \in Inos : parent'[i] # NoIno => Named(parent'[i])
    BY <2>1, <2>2 DEF NamedInv
  <2>5. \A i \in Inos : parent'[i] # NoIno => Named(parent[i])'
    BY <2>2, <2>4 DEF Named
  <2>6. \A u \in Threads : Walking(u)' => Named(cur[u])'
    BY <2>2, <2>3 DEF Named, OneCaller
  <2> QED
    BY <2>5, <2>6 DEF NamedInv
<1> QED
  BY <1>1, <1>4, <1>5, <1>6, <1>7, <1>8, <1>9 DEF Next, Step

(* A path of a node leads down to it, unless it is a file named "" below   *)
(* the root.                                                               *)
Unnamed(i) == parent[i] = RootIno /\ name[i] = EmptyName

LEMMA PathDescends ==
    ASSUME TypeOK, ParentOK, NamedInv, Quiet
    PROVE  \A i \in Inos : \A path \in Path(i) :
              \/ FollowIn(children, path, {}) = i
              \/ Unnamed(i) /\ path = << >>
<1> DEFINE Good(n) == \A p \in Path(n) :
                         /\ p \in Seq(Comps)
                         /\ \/ FollowIn(children, p, {}) = n /\ (n = RootIno \/ p # << >>)
                            \/ Unnamed(n) /\ p = << >>
           Bad == {n \in Inos : ~Good(n)}
<1> SUFFICES ASSUME Bad # {}
             PROVE  FALSE
  OBVIOUS
<1>1. Bad \in SUBSET Nat
  BY InosFacts
<1>2. PICK k \in Bad : \A j \in Bad : k <= j
  BY <1>1, LeastElement
<1>3. \A n \in Inos : parent[n] # NoIno => parent[n] \in Inos /\ parent[n] < n
  BY DEF ParentOK
<1>4. k \in Inos /\ ~Good(k)
  BY <1>2
<1>5. k # RootIno
  <2>1. Good(RootIno)
    <3>1. Path(RootIno) = {<< >>}
      BY <1>3, PathUnfolds
    <3>2. << >> \in Seq(Comps)
      OBVIOUS
    <3> QED
      BY <3>1, <3>2, FollowEmpty
  <2> QED
    BY <1>4, <2>1
<1>6. Path(k) # {}
  BY <1>4
<1>7. /\ ~isDel[k] /\ parent[k] # NoIno
      /\ Path(k) = {Join(up, name[k]) : up \in Path(parent[k])}
  BY <1>3, <1>4, <1>5, <1>6, PathUnfolds
<1>8. PICK p \in Inos : p = parent[k] /\ p < k
  BY <1>3, <1>4, <1>7
<1>9. Good(p)
  <2>1. p \notin Bad
    BY <1>1, <1>2, <1>8, InosFacts
  <2> QED
    BY <1>8, <2>1
<1>10. Named(p)
  BY <1>4, <1>7, <1>8 DEF NamedInv
<1>11. name[k] \in Comps
  BY <1>4 DEF TypeOK
<1>12. children[p][name[k]] = k
  BY <1>4, <1>7, <1>8 DEF ParentOK, Quiet
<1>13. ASSUME NEW q \in Path(k)
       PROVE  /\ q \in Seq(Comps)
              /\ \/ FollowIn(children, q, {}) = k /\ q # << >>
                 \/ Unnamed(k) /\ q = << >>
  <2>1. PICK up \in Path(p) : q = Join(up, name[k])
    BY <1>7, <1>8, <1>13
  <2>2. up \in Seq(Comps) /\ (up = << >> => p = RootIno)
    BY <1>9, <1>10, <2>1 DEF Unnamed, Named
  <2>3. CASE up = << >> /\ name[k] = EmptyName
    <3>1. q = << >> /\ Unnamed(k)
      BY <1>8, <2>1, <2>2, <2>3 DEF Join, Unnamed
    <3>2. << >> \in Seq(Comps)
      OBVIOUS
    <3> QED
      BY <3>1, <3>2
  <2>4. CASE ~(up = << >> /\ name[k] = EmptyName)
    <3>1. q = Append(up, name[k])
      BY <2>1, <2>4 DEF Join
    <3>2. FollowIn(children, up, {}) = p
      <4>1. ~Unnamed(p)
        BY <1>3, <1>8, <1>10, InosFacts DEF Unnamed, Named, RootIno, NoIno
      <4> QED
        BY <1>9, <2>1, <4>1
    <3>3. FollowIn(children, q, {}) = NextIno(children, p, name[k], {})
      BY <1>11, <2>2, <3>1, <3>2, FollowAppend
    <3>4. NextIno(children, p, name[k], {}) = k
      BY <1>8, <1>12, InosFacts DEF NextIno
    <3>5. q \in Seq(Comps) /\ q # << >>
      <4> HIDE DEF Bad, Good
      <4> QED
        BY <1>11, <2>2, <3>1
    <3> QED
      BY <3>3, <3>4, <3>5
  <2> QED
    BY <2>3, <2>4
<1> QED
  BY <1>4, <1>13

(* When calls come one at a time, removals and deletions among them, a     *)
(* node that has a path is what its path leads to, but for a file named "" *)
(* below the root (PathLeadsBack; Node.Path).  Racing callers break this:  *)
(* of two AddChild calls for one name the second overwrites what the first *)
(* stored, whose node keeps its parent.                                    *)
THEOREM PathsLeadBack ==
    ASSUME OneCaller
    PROVE  Spec => []PathLeadsBack
<1>1. IndInv /\ SoloInv /\ NamedInv => PathLeadsBack
  <2> SUFFICES ASSUME IndInv, SoloInv, NamedInv, Quiet, NEW i \in Inos, NEW p \in Path(i)
               PROVE  \/ Find(p) = i
                      \/ parent[i] = RootIno /\ name[i] = EmptyName /\ Find(p) = RootIno
    BY DEF PathLeadsBack
  <2>1. TypeOK /\ ParentOK
    BY DEF IndInv, SoloInv
  <2>2. FollowIn(children, p, {}) = i \/ (Unnamed(i) /\ p = << >>)
    BY <2>1, PathDescends
  <2>3. Find(p) = FollowIn(children, p, {})
    BY FollowIs DEF Find
  <2>4. FollowIn(children, << >>, {}) = RootIno
    BY FollowEmpty
  <2> QED
    BY <2>2, <2>3, <2>4 DEF Unnamed
<1>2. Init => NamedInv
    BY DEF Init, NamedInv, Walking, Adding, Building
<1>3. IndInv /\ SoloInv /\ NamedInv /\ [Next]_vars => NamedInv'
    BY NamedNext
<1>4. Spec => []IndInv
    BY Invariance
<1>5. Spec => []SoloInv
    BY SoloInvariance
<1> QED
    BY <1>1, <1>2, <1>3, <1>4, <1>5, PTL DEF Spec
=============================================================================
