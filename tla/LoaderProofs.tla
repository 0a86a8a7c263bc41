---------------------------- MODULE LoaderProofs ----------------------------
(***************************************************************************)
(* Proofs about the node tree when requests come one at a time and remove  *)
(* nothing, and about the loader, which makes them so, for all names,      *)
(* requests, nodes files and bounds: what a call returned stays where it   *)
(* was asked for, the tree only grows as PathTree says, and the loader is  *)
(* such a caller of NodeTree, which leaves nothing of a nodes file out.    *)
(***************************************************************************)
EXTENDS Loader, NodeTreeProofs, SequenceTheorems

-----------------------------------------------------------------------------
(* What a call has walked, and what it has returned. *)

Found(t) ==
    Walking(t) =>
        \E done \in Seq(Comps) :
            /\ done \o todo[t] = DirPath(req[t])
            /\ Follow(done, {EmptyName}) = cur[t]

WalkInv == ResultsOK /\ \A t \in Threads : Found(t)

(* The first part of what is left becomes the last of what is done. *)
LEMMA OneFurther ==
    ASSUME NEW done \in Seq(Comps), NEW left \in Seq(Comps), left # << >>
    PROVE  /\ Append(done, Head(left)) \in Seq(Comps)
           /\ Append(done, Head(left)) \o Tail(left) = done \o left
<1>1. Head(left) \in Comps /\ Tail(left) \in Seq(Comps)
    OBVIOUS
<1>2. Append(done, Head(left)) = done \o <<Head(left)>> /\ <<Head(left)>> \in Seq(Comps)
    BY <1>1
<1>3. <<Head(left)>> \o Tail(left) = left
    BY <1>1
<1>4. (done \o <<Head(left)>>) \o Tail(left) = done \o (<<Head(left)>> \o Tail(left))
    BY <1>1, <1>2, ConcatAssociative
<1> QED
    BY <1>1, <1>2, <1>3, <1>4

(* At the end of the walk all parts are done. *)
LEMMA NothingLeft ==
    ASSUME NEW done \in Seq(Comps)
    PROVE  done \o << >> = done
  OBVIOUS

(* Entries are added, none is lost. *)
Grows == \A p \in Inos, x \in Comps :
            children[p][x] # NoIno => children'[p][x] = children[p][x]

(* The step is not that of a removal. *)
NoTake == \A t \in Threads : ~RemoveChildTake(t)

(* Where no request removes, no step takes a child out. *)
LEMMA NoneRemoves ==
    ASSUME NoRemoval, IndInv, SoloInv
    PROVE  NoTake
<1> SUFFICES ASSUME NEW t \in Threads, RemoveChildTake(t) PROVE FALSE
    BY DEF NoTake
<1>1. pc[t] = "rmtake" => req[t].op = "RemoveChild" /\ req[t] \in Reqs
    BY DEF IndInv, SoloInv, SoloOK, RequestOK
<1> QED
    BY <1>1 DEF RemoveChildTake, NoRemoval

(* A lone caller that removes nothing only adds entries to the maps. *)
LEMMA StepGrows ==
    ASSUME IndInv, SoloInv, NoTake, [Next]_vars
    PROVE  Grows
<1> USE DEF IndInv
<1>1. CASE UNCHANGED children
    BY <1>1 DEF Grows
<1>2. ASSUME NEW t \in Threads, Request(t) \/ Step(t), children' # children PROVE Grows
  <2>1. Request(t) => UNCHANGED children
    BY DEF Request, AddNode, RemoveChild, Del, nodeVars
  <2>2. Walk(t) \/ MkDir(t) \/ Check(t) \/ Create(t) \/ DelNode(t) \/ AddChildLink(t)
          \/ RemoveChildUnlink(t) => UNCHANGED children
    BY DEF Walk, MkDir, Check, Create, DelNode, AddChildLink, LinkTo, RemoveChildUnlink,
           NewNode, nodeVars
  <2>3. AddChildTake(t) => UNCHANGED children
    BY SoloTake
  <2>4. ~RemoveChildTake(t)
    BY DEF NoTake
  <2>5. AddChildStore(t)
    BY <1>2, <2>1, <2>2, <2>3, <2>4 DEF Step
  <2> QED
    BY <2>5, SoloStore DEF Grows
<1> QED
    BY <1>1, <1>2 DEF Next, vars

(* What a path leads to, it goes on leading to. *)
LEMMA StillFound ==
    ASSUME TypeOK, TypeOK', Grows, NEW path \in Seq(Comps), NEW ignored,
           Follow(path, ignored) # NoIno
    PROVE  Follow(path, ignored)' = Follow(path, ignored)
<1>1. children \in Maps /\ children' \in Maps
    BY DEF TypeOK, Maps
<1>2. FollowIn(children, path, ignored) # NoIno
    BY FollowIs
<1>3. FollowIn(children', path, ignored) = FollowIn(children, path, ignored)
    BY <1>1, <1>2, FollowGrows DEF Grows
<1> QED
    BY <1>3, FollowIs

(* What a request's path resolves to, it goes on resolving to. *)
LEMMA StillResolved ==
    ASSUME TypeOK, TypeOK', Grows, NEW r \in Reqs, Resolve(r) # NoIno
    PROVE  Resolve(r)' = Resolve(r)
<1>1. CASE r.op = "AddDirNode"
  <2>1. Resolve(r) = Follow(r.path, {EmptyName}) /\ Resolve(r)' = Follow(r.path, {EmptyName})'
    BY <1>1 DEF Resolve
  <2> QED
    BY <2>1, PathParts, StillFound
<1>2. CASE r.op # "AddDirNode"
  <2>1. Front(r.path) \in Seq(Comps) /\ Last(r.path) \in Comps
    BY <1>2, PathParts
  <2> DEFINE p == Follow(Front(r.path), {EmptyName})
             q == Follow(Front(r.path), {EmptyName})'
  <2>2. Resolve(r) = IF p = NoIno THEN NoIno ELSE children[p][Last(r.path)]
    BY <1>2 DEF Resolve
  <2>3. Resolve(r)' = IF q = NoIno THEN NoIno ELSE children'[q][Last(r.path)]
    BY <1>2 DEF Resolve
  <2>4. p # NoIno /\ children[p][Last(r.path)] # NoIno
    BY <2>2
  <2>5. q = p
    BY <2>1, <2>4, StillFound
  <2>6. p \in Inos
    <3>1. children \in Maps
        BY DEF TypeOK, Maps
    <3>2. FollowIn(children, Front(r.path), {EmptyName}) \in Inos \cup {NoIno}
        BY <2>1, <3>1, FollowType
    <3> QED
        BY <2>4, <3>2, FollowIs
  <2> HIDE DEF p, q
  <2>7. children'[p][Last(r.path)] = children[p][Last(r.path)]
    BY <2>1, <2>4, <2>6 DEF Grows
  <2> QED
    BY <2>2, <2>3, <2>4, <2>5, <2>7
<1> QED
    BY <1>1, <1>2

(* At first nothing is walked or returned. *)
LEMMA WalkInit == Init => WalkInv
  BY DEF Init, WalkInv, ResultsOK, Found, Walking, Adding, Building

(* What was returned stays there. *)
LEMMA ResultsKept ==
    ASSUME TypeOK, TypeOK', Grows, ResultsOK,
           NEW res \in results, res[1].op # "Del"
    PROVE  Resolve(res[1])' = res[2]
<1>1. res[1] \in Reqs /\ res[2] \in Inos
    BY DEF TypeOK
<1>2. Resolve(res[1]) = res[2] /\ res[2] # NoIno
    BY <1>1, InosFacts DEF ResultsOK
<1> QED
    BY <1>1, <1>2, StillResolved

(* The walk stands where it stood. *)
LEMMA FoundStays ==
    ASSUME TypeOK, TypeOK', Grows, NEW t \in Threads, Found(t), Walking(t),
           cur[t] \in Inos,
           todo'[t] = todo[t], req'[t] = req[t], cur'[t] = cur[t]
    PROVE  Found(t)'
<1>1. PICK done \in Seq(Comps) : done \o todo[t] = DirPath(req[t])
                                 /\ Follow(done, {EmptyName}) = cur[t]
    BY DEF Found
<1>2. Follow(done, {EmptyName})' = cur[t]
    BY <1>1, StillFound, InosFacts
<1>3. done \o todo'[t] = DirPath(req'[t]) /\ Follow(done, {EmptyName})' = cur'[t]
    BY <1>1, <1>2
<1> QED
    BY <1>3 DEF Found, DirPath

(* The walk goes down by one part of the path. *)
LEMMA FoundDown ==
    ASSUME TypeOK, NEW t \in Threads, Found(t), Walking(t), todo[t] # << >>,
           UNCHANGED children, req'[t] = req[t], todo'[t] = Tail(todo[t]),
           cur'[t] = NextIno(children, cur[t], Head(todo[t]), {EmptyName})
    PROVE  Found(t)'
<1>1. PICK done \in Seq(Comps) : done \o todo[t] = DirPath(req[t])
                                 /\ Follow(done, {EmptyName}) = cur[t]
    BY DEF Found
<1>2. todo[t] \in Seq(Comps)
    BY DEF TypeOK
<1>3. Head(todo[t]) \in Comps
    BY <1>2
<1>4. PICK further \in Seq(Comps) : further = Append(done, Head(todo[t]))
    BY <1>2, OneFurther
<1>5. further \o Tail(todo[t]) = DirPath(req[t])
    BY <1>1, <1>2, <1>4, OneFurther
<1>6. FollowIn(children, further, {EmptyName})
         = NextIno(children, FollowIn(children, done, {EmptyName}), Head(todo[t]), {EmptyName})
    BY <1>3, <1>4, FollowAppend
<1>7. FollowIn(children, done, {EmptyName}) = cur[t]
    BY <1>1, FollowIs
<1>8. Follow(further, {EmptyName})' = FollowIn(children', further, {EmptyName})
    BY FollowIs
<1>9. further \o todo'[t] = DirPath(req'[t]) /\ Follow(further, {EmptyName})' = cur'[t]
    BY <1>5, <1>6, <1>7, <1>8
<1> QED
    BY <1>9 DEF Found, DirPath

(* A walk begins at the root. *)
LEMMA FoundRequest ==
    ASSUME TypeOK, NEW t \in Threads, Request(t)
    PROVE  Found(t)'
<1>1. CASE ~Walking(t)'
    BY <1>1 DEF Found
<1>2. CASE Walking(t)'
  <2>1. PICK r \in Reqs : /\ AddNode(t, r)
                          /\ r.op \in {"AddDirNode", "AddFileNode"}
    BY <1>2 DEF Request, RemoveChild, Del, Goto, Walking, Adding, Building, TypeOK, Call
  <2>2. todo'[t] = DirPath(r) /\ cur'[t] = RootIno /\ req'[t] = r
    BY <2>1 DEF AddNode, Call, DirPath, TypeOK
  <2>3. DirPath(r) \in Seq(Comps)
    BY <2>1, PathParts DEF DirPath
  <2>4. << >> \o DirPath(r) = DirPath(r) /\ << >> \in Seq(Comps)
    BY <2>3
  <2>5. Follow(<< >>, {EmptyName})' = RootIno
    BY FollowIs, FollowEmpty
  <2> QED
    BY <2>2, <2>4, <2>5 DEF Found, DirPath
<1> QED
    BY <1>1, <1>2

(* Every step leaves the walk at what the parts behind it lead to. *)
LEMMA FoundStep ==
    ASSUME IndInv, TypeOK', SoloInv, NoTake, Grows, NEW t \in Threads, Step(t), Found(t)
    PROVE  Found(t)'
<1> USE DEF IndInv
<1>0. /\ RequestOK(t) /\ SoloOK(t) /\ TypeOK
      /\ (Walking(t) => cur[t] \in Inos)
    BY DEF SoloInv, RequestOK
<1>1. CASE pc'[t] = "idle"
    BY <1>1 DEF Found, Walking, Adding, Building
<1>2. CASE Walk(t) /\ pc'[t] # "idle"
  <2>1. Walking(t) /\ cur[t] \in Inos /\ cur[t] # NoIno /\ UNCHANGED <<children, req>>
    BY <1>0, <1>2, InosFacts DEF Walk, Walking, nodeVars, localVars, ReturnOK, Return, Goto, TypeOK
  <2>2. CASE todo'[t] = todo[t] /\ cur'[t] = cur[t]
    BY <1>0, <2>1, <2>2, FoundStays
  <2>3. CASE ~(todo'[t] = todo[t] /\ cur'[t] = cur[t])
    <3>1. todo[t] # << >> /\ todo'[t] = Tail(todo[t])
        BY <1>2, <2>3 DEF Walk, localVars, ReturnOK, Return, Goto, TypeOK
    <3>2. cur'[t] = NextIno(children, cur[t], Head(todo[t]), {EmptyName})
        BY <1>2, <2>1, <2>3 DEF Walk, localVars, ReturnOK, Return, Goto, TypeOK, NextIno
    <3> QED
        BY <1>0, <2>1, <3>1, <3>2, FoundDown
  <2> QED
    BY <2>2, <2>3
<1>3. CASE (MkDir(t) \/ Check(t) \/ Create(t)) /\ pc'[t] # "idle"
  <2>1. Walking(t) /\ UNCHANGED <<todo, req, cur>>
    BY <1>0, <1>3 DEF MkDir, Check, Create, NewNode, Return, Goto, TypeOK, Walking, localVars
  <2> QED
    BY <1>0, <2>1, FoundStays
<1>4. CASE AddChildTake(t) \/ AddChildStore(t)
  <2>1. Walking(t) /\ UNCHANGED <<todo, req, cur>>
    BY <1>4 DEF AddChildTake, AddChildStore, Walking, Adding, Building, localVars
  <2> QED
    BY <1>0, <2>1, FoundStays
<1>5. CASE DelNode(t)
    BY <1>0, <1>1, <1>5 DEF DelNode, SoloOK, Return, Goto, TypeOK
<1>6. CASE AddChildLink(t) /\ pc'[t] # "idle"
  <2>1. pc[t] = "link" /\ kind[new[t]] = "dir" /\ UNCHANGED <<children, req>>
        /\ todo'[t] = Tail(todo[t]) /\ cur'[t] = new[t]
    BY <1>6 DEF AddChildLink, LinkTo, Added, ReturnOK, Return, Goto, TypeOK
  <2>2. Walking(t) /\ Adding(t) /\ cur[t] \in Inos /\ cur[t] # NoIno
    BY <1>0, <2>1, InosFacts DEF Walking, Adding
  <2>3. todo[t] # << >>
    BY <2>1, <2>2 DEF NewOK
  <2>4. /\ children[cur[t]][name[new[t]]] = new[t]
        /\ name[new[t]] = Head(todo[t]) /\ Head(todo[t]) # EmptyName
    BY <1>0, <2>1 DEF SoloOK
  <2>5. cur'[t] = NextIno(children, cur[t], Head(todo[t]), {EmptyName})
    BY <2>1, <2>2, <2>4 DEF NextIno
  <2> QED
    BY <1>0, <2>1, <2>2, <2>3, <2>5, FoundDown
<1>7. ~RemoveChildTake(t)
    BY DEF NoTake
<1>8. CASE RemoveChildUnlink(t)
    BY <1>1, <1>8 DEF RemoveChildUnlink, Return, Goto, TypeOK
<1> QED
    BY <1>1, <1>2, <1>3, <1>4, <1>5, <1>6, <1>7, <1>8 DEF Step

(* What a call returns is at its path. *)
LEMMA NewResults ==
    ASSUME IndInv, SoloInv, NEW t \in Threads, Request(t) \/ Step(t), Found(t),
           NEW res \in results', res \notin results, res[1].op # "Del"
    PROVE  res[1] \in Reqs /\ Resolve(res[1])' = res[2]
<1> USE DEF IndInv
<1>0. /\ RequestOK(t) /\ SoloOK(t) /\ TypeOK
    BY DEF SoloInv
<1>1. ~Request(t)
    BY DEF Request, AddNode, RemoveChild, Del
<1>2. (Walk(t) /\ todo[t] = << >> /\ req[t].op = "AddDirNode" /\ res = <<req[t], cur[t]>>)
      \/ (AddChildLink(t) /\ kind[new[t]] # "dir" /\ res = <<req[t], new[t]>>)
    BY <1>1 DEF Step, Walk, MkDir, Check, Create, AddChildTake, AddChildStore, DelNode,
       AddChildLink, LinkTo, Added, RemoveChildTake, RemoveChildUnlink, ReturnOK
<1>3. Walking(t) /\ req[t] \in Reqs /\ UNCHANGED children
    BY <1>0, <1>2 DEF Walk, AddChildLink, LinkTo, Walking, Adding, RequestOK, nodeVars
<1>4. PICK done \in Seq(Comps) : done \o todo[t] = DirPath(req[t])
                                 /\ Follow(done, {EmptyName}) = cur[t]
    BY <1>3 DEF Found
<1>5. Follow(done, {EmptyName})' = cur[t]
    BY <1>3, <1>4, FollowIs
<1>6. CASE Walk(t) /\ todo[t] = << >> /\ req[t].op = "AddDirNode" /\ res = <<req[t], cur[t]>>
  <2>1. done = req[t].path
    BY <1>4, <1>6, NothingLeft DEF DirPath
  <2>2. res[1] = req[t] /\ res[2] = cur[t]
    BY <1>6
  <2>3. Resolve(res[1])' = Follow(done, {EmptyName})'
    BY <1>6, <2>1, <2>2 DEF Resolve
  <2> QED
    BY <1>3, <1>5, <2>2, <2>3
<1>7. CASE AddChildLink(t) /\ kind[new[t]] # "dir" /\ res = <<req[t], new[t]>>
  <2>1. /\ pc[t] = "link" /\ req[t].op = "AddFileNode" /\ todo[t] = << >>
        /\ children[cur[t]][Last(req[t].path)] = new[t]
        /\ cur[t] \in Inos /\ cur[t] # NoIno
    BY <1>0, <1>3, <1>7, InosFacts DEF AddChildLink, LinkTo, SoloOK, RequestOK
  <2>2. done = Front(req[t].path)
    BY <1>4, <2>1, NothingLeft DEF DirPath
  <2>3. res[1] = req[t] /\ res[2] = new[t] /\ res[1].op # "AddDirNode"
    BY <1>7, <2>1
  <2> DEFINE q == Follow(done, {EmptyName})'
  <2>4. Resolve(res[1])' = IF q = NoIno THEN NoIno ELSE children'[q][Last(res[1].path)]
    BY <2>2, <2>3 DEF Resolve
  <2> QED
    BY <1>3, <1>5, <2>1, <2>3, <2>4
<1> QED
    BY <1>2, <1>6, <1>7

(* Every step keeps walks and results right. *)
LEMMA WalkNext ==
    ASSUME OneCaller
    PROVE  IndInv /\ SoloInv /\ NoTake /\ WalkInv /\ [Next]_vars => WalkInv'
<1> SUFFICES ASSUME IndInv, SoloInv, NoTake, WalkInv, [Next]_vars PROVE WalkInv'
    OBVIOUS
<1>1. TypeOK /\ TypeOK' /\ Grows
    BY TypePreserved, StepGrows DEF IndInv
<1>2. \A res \in results : res[1].op # "Del" => Resolve(res[1])' = res[2]
    BY <1>1, ResultsKept DEF WalkInv
<1>3. CASE UNCHANGED vars
  <2>1. ResultsOK'
    BY <1>2, <1>3 DEF ResultsOK, vars
  <2>2. \A t \in Threads : Found(t)'
    <3> SUFFICES ASSUME NEW t \in Threads PROVE Found(t)'
        OBVIOUS
    <3>1. CASE Walking(t)
      <4>1. cur[t] \in Inos /\ Found(t)
        BY <3>1 DEF IndInv, RequestOK, WalkInv
      <4> QED
        BY <1>1, <1>3, <3>1, <4>1, FoundStays DEF vars
    <3>2. CASE ~Walking(t)
        BY <1>3, <3>2 DEF vars, Found, Walking, Adding, Building
    <3> QED
        BY <3>1, <3>2
  <2> QED
    BY <2>1, <2>2 DEF WalkInv
<1>4. ASSUME NEW t \in Threads, Request(t) \/ Step(t) PROVE WalkInv'
  <2>1. Found(t)
    BY DEF WalkInv
  <2>2. \A res \in results' : res \notin results /\ res[1].op # "Del" => Resolve(res[1])' = res[2]
    BY <1>4, <2>1, NewResults
  <2>3. ResultsOK'
    BY <1>2, <2>2 DEF ResultsOK
  <2>4. Found(t)'
    BY <1>1, <1>4, <2>1, FoundRequest, FoundStep
  <2> QED
    BY <2>3, <2>4 DEF WalkInv, OneCaller
<1> QED
    BY <1>3, <1>4 DEF Next

(* When calls come one at a time and none is RemoveChild, what AddDirNode  *)
(* or AddFileNode returned stays at the request's path, unless Del is      *)
(* called on it or above it (ReturnedIsThere).                             *)
THEOREM ReturnedStays ==
    ASSUME OneCaller, NoRemoval
    PROVE  Spec => []ReturnedIsThere
<1>1. IndInv /\ SoloInv /\ WalkInv /\ [Next]_vars => WalkInv'
    BY WalkNext, NoneRemoves
<1>2. WalkInv => ReturnedIsThere
    BY DEF WalkInv, ResultsOK, ReturnedIsThere
<1>3. Spec => []IndInv
    BY Invariance
<1>4. Spec => []SoloInv
    BY SoloInvariance
<1> QED
    BY <1>1, <1>2, <1>3, <1>4, WalkInit, PTL DEF Spec

-----------------------------------------------------------------------------
(* Paths without their empty parts. *)

NextParts(s, x) == IF x = EmptyName THEN s ELSE Append(s, x)

Cuts(f, path) ==
    f = [n \in 0 .. Len(path) |-> IF n = 0 THEN << >> ELSE NextParts(f[n - 1], path[n])]

(* The function that passes over the empty parts exists: there is no least *)
(* length up to which it does not.                                         *)
LEMMA CutsExists ==
    ASSUME NEW path \in Seq(Comps)
    PROVE  \E f : Cuts(f, path)
<1> DEFINE Body(g, n) == IF n = 0 THEN << >> ELSE NextParts(g[n - 1], path[n])
           To(g, k) == g = [n \in 0 .. k |-> Body(g, n)]
           Bad == {k \in Nat : ~ \E g : To(g, k)}
<1>1. \E g : To(g, 0)
  <2> DEFINE g == [n \in 0 .. 0 |-> << >>]
  <2>1. \A n \in 0 .. 0 : Body(g, n) = << >>
    OBVIOUS
  <2>2. [n \in 0 .. 0 |-> Body(g, n)] = g
    BY <2>1
  <2> QED
    BY <2>2
<1>2. ASSUME NEW k \in Nat, NEW g, To(g, k)
      PROVE  \E h : To(h, k + 1)
  <2> DEFINE h == [n \in 0 .. k + 1 |-> IF n = k + 1 THEN Body(g, k + 1) ELSE g[n]]
  <2>1. \A n \in 0 .. k : h[n] = g[n]
    OBVIOUS
  <2>2. \A n \in 0 .. k : g[n] = Body(g, n)
    BY <1>2
  <2>3. \A n \in 0 .. k + 1 : h[n] = Body(h, n)
    <3> SUFFICES ASSUME NEW n \in 0 .. k + 1
                 PROVE  h[n] = Body(h, n)
      OBVIOUS
    <3>1. n # 0 => n - 1 \in 0 .. k
      OBVIOUS
    <3>2. Body(h, n) = Body(g, n)
      BY <2>1, <3>1
    <3>3. h[n] = Body(g, n)
      BY <2>2
    <3> QED
      BY <3>2, <3>3
  <2> DEFINE hh == [n \in 0 .. k + 1 |-> Body(h, n)]
  <2>4. h = hh
    BY <2>3
  <2> QED
    BY <2>4
<1> HIDE DEF To
<1>3. Bad = {}
  <2> SUFFICES ASSUME Bad # {}
               PROVE  FALSE
    OBVIOUS
  <2>1. PICK m \in Bad : \A k \in Bad : m <= k
    BY LeastElement
  <2>2. m \in Nat /\ m # 0 /\ ~ \E g : To(g, m)
    BY <1>1
  <2>3. m - 1 \in Nat /\ m - 1 \notin Bad
    BY <2>1, <2>2
  <2>4. PICK g : To(g, m - 1)
    BY <2>3
  <2>5. m - 1 + 1 = m
    BY <2>2
  <2> QED
    BY <1>2, <2>2, <2>3, <2>4, <2>5
<1>4. Len(path) \in Nat
  OBVIOUS
<1>5. PICK g : To(g, Len(path))
  BY <1>3, <1>4
<1> QED
  BY <1>5 DEF To, Cuts

(* Parts is its last value. *)
LEMMA PartsCuts ==
    ASSUME NEW path \in Seq(Comps)
    PROVE  \E f : /\ Parts(path) = f[Len(path)]
                  /\ f[0] = << >>
                  /\ \A n \in 1 .. Len(path) : f[n] = NextParts(f[n - 1], path[n])
<1> DEFINE f == CHOOSE f : Cuts(f, path)
<1>1. Cuts(f, path)
  BY CutsExists, Zenon
<1>2. Parts(path) = f[Len(path)]
  BY DEF Parts, Cuts, NextParts
<1> HIDE DEF f
<1> DEFINE m == Len(path)
           g == [n \in 0 .. m |-> IF n = 0 THEN << >> ELSE NextParts(f[n - 1], path[n])]
<1>3. f = g /\ m \in Nat
  BY <1>1 DEF Cuts
<1>4. \A n \in 0 .. m : g[n] = IF n = 0 THEN << >> ELSE NextParts(f[n - 1], path[n])
  OBVIOUS
<1> HIDE DEF g
<1>5. f[0] = << >> /\ \A n \in 1 .. m : f[n] = NextParts(f[n - 1], path[n])
  BY <1>3, <1>4
<1> QED
  BY <1>2, <1>5

(* The empty path has no parts. *)
LEMMA PartsEmpty == Parts(<< >>) = << >>
<1>1. << >> \in Seq(Comps) /\ Len(<< >>) = 0
  OBVIOUS
<1>2. PICK f : Parts(<< >>) = f[Len(<< >>)] /\ f[0] = << >>
  BY <1>1, PartsCuts
<1> QED
  BY <1>1, <1>2

(* A further part is added, unless it is empty. *)
LEMMA PartsAppend ==
    ASSUME NEW path \in Seq(Comps), NEW x \in Comps
    PROVE  Parts(Append(path, x)) = NextParts(Parts(path), x)
<1> DEFINE long == Append(path, x)
           m == Len(path)
<1>1. /\ long \in Seq(Comps) /\ Len(long) = m + 1 /\ m \in Nat
      /\ \A n \in 1 .. m : long[n] = path[n]
      /\ long[m + 1] = x
  OBVIOUS
<1> HIDE DEF long
<1>2. PICK f : /\ Parts(path) = f[m]
               /\ f[0] = << >>
               /\ \A n \in 1 .. m : f[n] = NextParts(f[n - 1], path[n])
  BY PartsCuts
<1>3. PICK g : /\ Parts(long) = g[m + 1]
               /\ g[0] = << >>
               /\ \A n \in 1 .. m + 1 : g[n] = NextParts(g[n - 1], long[n])
  BY <1>1, PartsCuts
<1> HIDE DEF m
<1>6. g[m + 1] = NextParts(g[m], x)
  <2>1. m + 1 \in 1 .. m + 1 /\ m + 1 - 1 = m
    BY <1>1
  <2> QED
    BY <1>1, <1>3, <2>1
<1>7. \A n \in 1 .. m : g[n] = NextParts(g[n - 1], path[n])
  <2> SUFFICES ASSUME NEW n \in 1 .. m
               PROVE  g[n] = NextParts(g[n - 1], path[n])
    OBVIOUS
  <2>1. n \in 1 .. m + 1 /\ long[n] = path[n]
    BY <1>1
  <2> QED
    BY <1>3, <2>1
<1>8. f[m] = g[m]
  <2> DEFINE Bad == {n \in 0 .. m : f[n] # g[n]}
  <2> SUFFICES ASSUME Bad # {}
               PROVE  FALSE
    BY <1>1
  <2>1. Bad \in SUBSET Nat
    OBVIOUS
  <2>2. PICK k \in Bad : \A j \in Bad : k <= j
    BY <2>1, LeastElement
  <2>3. k \in 1 .. m /\ k - 1 \in 0 .. m /\ k - 1 \notin Bad
    BY <1>1, <1>2, <1>3, <2>2
  <2>4. f[k - 1] = g[k - 1]
    BY <2>3
  <2> QED
    BY <1>2, <1>7, <2>2, <2>3, <2>4
<1> QED
  BY <1>2, <1>3, <1>6, <1>8 DEF long

(* A path that is not empty is what precedes its last part, and that part. *)
LEMMA LastPart ==
    ASSUME NEW path \in Seq(Comps), path # << >>
    PROVE  /\ Front(path) \in Seq(Comps) /\ Last(path) \in Comps
           /\ path = Append(Front(path), Last(path))
           /\ Len(Front(path)) = Len(path) - 1
<1>1. Front(path) \in Seq(Comps) /\ Last(path) \in Comps /\ Len(Front(path)) = Len(path) - 1
  BY DEF Front, Last
<1>2. \A n \in 1 .. Len(path) - 1 : Front(path)[n] = path[n]
  BY DEF Front
<1>3. Last(path) = path[Len(path)]
  BY DEF Last
<1> QED
  BY <1>1, <1>2, <1>3

(* And the other way round. *)
LEMMA AppendParts ==
    ASSUME NEW path \in Seq(Comps), NEW x \in Comps
    PROVE  /\ Append(path, x) \in Seq(Comps) /\ Append(path, x) # << >>
           /\ Front(Append(path, x)) = path /\ Last(Append(path, x)) = x
           /\ Len(Append(path, x)) = Len(path) + 1
<1>1. Append(path, x) \in Seq(Comps) /\ Append(path, x) # << >>
      /\ Len(Append(path, x)) = Len(path) + 1
  BY AppendProperties
<1>2. Last(Append(path, x)) = x
  BY DEF Last
<1>3. Front(Append(path, x)) = path
  BY DEF Front
<1> QED
  BY <1>1, <1>2, <1>3

(* Without its empty parts a path leads to the same node. *)
LEMMA FollowParts ==
    ASSUME NEW ch, NEW path \in Seq(Comps)
    PROVE  /\ Parts(path) \in Seq(Comps)
           /\ FollowIn(ch, path, {EmptyName}) = FollowIn(ch, Parts(path), {})
<1> DEFINE Good(p) == /\ Parts(p) \in Seq(Comps)
                      /\ FollowIn(ch, p, {EmptyName}) = FollowIn(ch, Parts(p), {})
           Bad == {n \in Nat : \E p \in Seq(Comps) : Len(p) = n /\ ~Good(p)}
<1>0. \A p \in Seq(Comps) : Len(p) \in Nat
  OBVIOUS
<1> SUFFICES ASSUME Bad # {}
             PROVE  FALSE
  BY <1>0
<1>1. PICK n \in Bad : \A k \in Bad : n <= k
  BY LeastElement
<1>2. PICK p \in Seq(Comps) : Len(p) = n /\ ~Good(p)
  BY <1>1
<1>3. Good(<< >>)
  <2>1. << >> \in Seq(Comps)
    OBVIOUS
  <2>2. FollowIn(ch, << >>, {EmptyName}) = RootIno /\ FollowIn(ch, << >>, {}) = RootIno
    BY FollowEmpty
  <2> QED
    BY <2>1, <2>2, PartsEmpty
<1>4. p # << >>
  BY <1>2, <1>3
<1>5. PICK q \in Seq(Comps) : q = Front(p)
  BY <1>2, <1>4, LastPart
<1>6. PICK x \in Comps : x = Last(p)
  BY <1>2, <1>4, LastPart
<1>7. p = Append(q, x) /\ Len(q) = n - 1
  BY <1>2, <1>4, <1>5, <1>6, LastPart
<1>8. Good(q)
  <2>1. n - 1 \in Nat /\ ~(n <= n - 1)
    BY <1>0, <1>1, <1>7
  <2>2. n - 1 \notin Bad
    BY <1>1, <2>1
  <2> QED
    BY <1>7, <2>1, <2>2
<1> HIDE DEF Bad
<1>9. Parts(p) = NextParts(Parts(q), x)
  BY <1>7, PartsAppend
<1>10. Parts(p) \in Seq(Comps)
  BY <1>8, <1>9 DEF NextParts
<1>11. FollowIn(ch, p, {EmptyName}) = NextIno(ch, FollowIn(ch, q, {EmptyName}), x, {EmptyName})
  BY <1>7, FollowAppend
<1>12. CASE x = EmptyName
  BY <1>2, <1>8, <1>9, <1>10, <1>11, <1>12 DEF NextIno, NextParts
<1>13. CASE x # EmptyName
  <2>1. Parts(p) = Append(Parts(q), x)
    BY <1>9, <1>13 DEF NextParts
  <2>2. FollowIn(ch, Parts(p), {}) = NextIno(ch, FollowIn(ch, Parts(q), {}), x, {})
    BY <1>8, <2>1, FollowAppend
  <2>3. \A i : NextIno(ch, i, x, {}) = NextIno(ch, i, x, {EmptyName})
    BY <1>13 DEF NextIno
  <2> QED
    BY <1>2, <1>8, <1>10, <1>11, <2>2, <2>3
<1> QED
  BY <1>12, <1>13

(* In a forest different paths lead to different nodes. *)
LEMMA OnePath ==
    ASSUME TypeOK, Forest, NEW p \in Seq(Comps), NEW q \in Seq(Comps),
           Find(p) = Find(q), Find(p) # NoIno
    PROVE  p = q
<1> DEFINE To(i) == {r \in Seq(Comps) : FollowIn(children, r, {}) = i}
           Bad == {i \in Inos : \E r, s \in To(i) : r # s}
<1>0. \A r : Find(r) = FollowIn(children, r, {})
  BY FollowIs DEF Find
<1>1. children \in Maps
  BY DEF TypeOK, Maps
<1>2. FollowIn(children, p, {}) \in Inos
  BY <1>0, <1>1, FollowType
<1> SUFFICES ASSUME Bad # {}
             PROVE  FALSE
  BY <1>0, <1>2
<1>3. Bad \in SUBSET Nat
  BY InosFacts
<1>4. PICK i \in Bad : \A j \in Bad : i <= j
  BY <1>3, LeastElement
<1>5. PICK r \in To(i) : \E s \in To(i) : r # s
  BY <1>4
<1>6. PICK s \in To(i) : r # s
  BY <1>5
<1>7. i \in Inos /\ i # NoIno
  BY <1>4, InosFacts
<1>8. ASSUME NEW u \in To(i), u # << >>
      PROVE  \E v \in Seq(Comps), x \in Comps, j \in Inos :
                u = Append(v, x) /\ v \in To(j) /\ children[j][x] = i /\ j < i /\ RootIno < i
  <2>1. PICK v \in Seq(Comps) : v = Front(u)
    BY <1>8, LastPart
  <2>2. PICK x \in Comps : x = Last(u)
    BY <1>8, LastPart
  <2>3. u = Append(v, x)
    BY <1>8, <2>1, <2>2, LastPart
  <2>4. FollowIn(children, u, {}) = NextIno(children, FollowIn(children, v, {}), x, {})
    BY <2>3, FollowAppend
  <2>5. PICK j \in Inos \cup {NoIno} : j = FollowIn(children, v, {})
    BY <1>1, FollowType
  <2>6. j # NoIno /\ children[j][x] = i
    BY <1>7, <1>8, <2>4, <2>5 DEF NextIno
  <2>7. j < i
    BY <1>7, <2>5, <2>6 DEF Forest
  <2>8. RootIno <= j
    BY <2>5, <2>6 DEF Inos
  <2>9. RootIno < i /\ j \in Inos
    BY <1>7, <2>5, <2>6, <2>7, <2>8, InosFacts DEF RootIno
  <2>10. v \in To(j)
    BY <2>5
  <2> QED
    BY <2>3, <2>6, <2>7, <2>9, <2>10
<1>9. CASE r = << >> \/ s = << >>
  <2>1. << >> \in To(i)
    BY <1>5, <1>6, <1>9
  <2>2. i = RootIno
    BY <2>1, FollowEmpty
  <2>3. PICK u \in To(i) : u # << >>
    BY <1>5, <1>6, <1>9
  <2>4. RootIno < i
    BY <1>8, <2>3
  <2> QED
    BY <2>2, <2>4, InosFacts
<1>10. CASE r # << >> /\ s # << >>
  <2>1. PICK v \in Seq(Comps), x \in Comps, j \in Inos :
           r = Append(v, x) /\ v \in To(j) /\ children[j][x] = i /\ j < i
    BY <1>5, <1>8, <1>10
  <2>2. PICK w \in Seq(Comps), y \in Comps, k \in Inos :
           s = Append(w, y) /\ w \in To(k) /\ children[k][y] = i /\ k < i
    BY <1>6, <1>8, <1>10
  <2>3. k = j /\ y = x
    BY <1>7, <2>1, <2>2 DEF Forest
  <2>4. v # w
    BY <1>6, <2>1, <2>2, <2>3
  <2>5. j \in Bad
    BY <2>1, <2>2, <2>3, <2>4
  <2>6. i <= j /\ i \in Nat /\ j \in Nat
    BY <1>4, <1>7, <2>5, InosFacts
  <2> QED
    BY <2>1, <2>6
<1> QED
  BY <1>9, <1>10

-----------------------------------------------------------------------------
(* The places of nodes. *)

PlaceInv == BareOK /\ KindOK

(* At first there is only the root, a directory. *)
LEMMA PlaceInit == Init => PlaceInv
<1> SUFFICES ASSUME Init PROVE PlaceInv
    OBVIOUS
<1>1. BareOK
    BY DEF Init, BareOK
<1>2. KindOK
    BY InosFacts DEF Init, KindOK
<1> QED
    BY <1>1, <1>2 DEF PlaceInv

(* What a step does to the nodes: at most it makes a new one, or stores    *)
(* the one that the caller has made.                                       *)
LEMMA NodesStep ==
    ASSUME IndInv, TypeOK', SoloInv, NoTake, NEW t \in Threads, Request(t) \/ Step(t)
    PROVE  /\ lastIno \in Nat /\ lastIno' \in Nat /\ lastIno <= lastIno'
           /\ \A i \in Inos : i <= lastIno => kind'[i] = kind[i]
           /\ Adding(t)' => \/ new'[t] = lastIno + 1 /\ lastIno' = lastIno + 1
                            \/ Adding(t) /\ new'[t] = new[t] /\ lastIno' = lastIno
           /\ \/ UNCHANGED children
              \/ AddChildStore(t)
<1> USE DEF IndInv
<1>1. lastIno \in Nat /\ lastIno' \in Nat /\ lastIno + 1 # lastIno /\ TypeOK
      /\ RequestOK(t) /\ SoloOK(t)
    BY InosFacts DEF TypeOK, SoloInv
<1>2. CASE Request(t)
  <2>1. UNCHANGED <<lastIno, kind, children>>
    BY <1>2 DEF Request, AddNode, RemoveChild, Del, nodeVars
  <2>2. ~Adding(t)'
    BY <1>2 DEF Request, AddNode, RemoveChild, Del, Call, Goto, TypeOK, Adding, Building
  <2> QED
    BY <1>1, <2>1, <2>2
<1>3. CASE Walk(t) \/ Check(t)
  <2>1. UNCHANGED <<lastIno, kind, children>>
    BY <1>3 DEF Walk, Check, nodeVars
  <2>2. ~Adding(t)'
    BY <1>3 DEF Walk, Check, ReturnOK, Return, Goto, TypeOK, Adding, Building
  <2> QED
    BY <1>1, <2>1, <2>2
<1>4. ASSUME NEW k, NEW x, NewNode(t, k, x)
      PROVE  /\ lastIno' = lastIno + 1 /\ new'[t] = lastIno + 1 /\ UNCHANGED children
             /\ \A i \in Inos : i <= lastIno => kind'[i] = kind[i]
  <2>1. lastIno' = lastIno + 1 /\ new'[t] = lastIno + 1 /\ UNCHANGED children
    BY <1>4 DEF NewNode, TypeOK
  <2>2. \A i \in Inos : i # lastIno + 1 => kind'[i] = kind[i]
    BY <1>4 DEF NewNode, TypeOK
  <2>3. \A i \in Inos : i <= lastIno => i # lastIno + 1
    BY <1>1, InosFacts
  <2> QED
    BY <2>1, <2>2, <2>3
<1>5. CASE MkDir(t)
  <2>1. NewNode(t, "dir", Head(todo[t]))
    BY <1>5 DEF MkDir
  <2> QED
    BY <1>1, <1>4, <2>1
<1>6. CASE Create(t)
  <2>1. CASE req[t].adapter
    <3>1. NewNode(t, "file", Last(req[t].path))
        BY <1>6, <2>1 DEF Create
    <3> QED
        BY <1>1, <1>4, <3>1
  <2>2. CASE ~req[t].adapter
    <3>1. UNCHANGED <<kind, children>> /\ lastIno' = lastIno + 1 /\ pc'[t] = "idle"
        BY <1>6, <2>2 DEF Create, Return, Goto, nodeVars, TypeOK
    <3>2. ~Adding(t)'
        BY <3>1 DEF Adding, Building
    <3> QED
        BY <1>1, <3>1, <3>2
  <2> QED
    BY <2>1, <2>2
<1>7. CASE AddChildTake(t)
  <2>1. UNCHANGED <<lastIno, kind, children, new>> /\ pc[t] = "take"
    BY <1>7, SoloTake
  <2> QED
    BY <1>1, <2>1 DEF Adding, Building
<1>8. CASE AddChildStore(t)
  <2>1. UNCHANGED <<lastIno, kind, new>> /\ pc[t] = "store"
    BY <1>8 DEF AddChildStore, localVars
  <2> QED
    BY <1>1, <1>8, <2>1 DEF Adding, Building
<1>9. CASE DelNode(t) \/ RemoveChildUnlink(t) \/ AddChildLink(t)
  <2>1. UNCHANGED <<lastIno, kind, children>>
    BY <1>9 DEF DelNode, RemoveChildUnlink, AddChildLink, LinkTo
  <2>2. pc'[t] \in {"idle", "walk"}
    BY <1>1, <1>9 DEF DelNode, SoloOK, RemoveChildUnlink, AddChildLink, Added, ReturnOK,
                      Return, Goto, TypeOK
  <2>3. ~Adding(t)'
    BY <2>2 DEF Adding, Building
  <2> QED
    BY <1>1, <2>1, <2>3
<1>10. ~RemoveChildTake(t)
    BY DEF NoTake
<1> QED
    BY <1>2, <1>3, <1>5, <1>6, <1>7, <1>8, <1>9, <1>10 DEF Step

(* Nodes that are not in the tree yet stay without children. *)
LEMMA BareNext ==
    ASSUME IndInv, TypeOK', SoloInv, NoTake, OneCaller, BareOK,
           NEW t \in Threads, Request(t) \/ Step(t)
    PROVE  BareOK'
<1> USE DEF IndInv
<1> SUFFICES ASSUME NEW i \in Inos,
                    i > lastIno' \/ (Adding(t)' /\ new'[t] = i),
                    NEW x \in Comps
             PROVE  children'[i][x] = NoIno
    BY DEF BareOK, OneCaller
<1>1. /\ lastIno \in Nat /\ lastIno' \in Nat /\ lastIno <= lastIno'
      /\ Adding(t)' => \/ new'[t] = lastIno + 1 /\ lastIno' = lastIno + 1
                       \/ Adding(t) /\ new'[t] = new[t] /\ lastIno' = lastIno
      /\ UNCHANGED children \/ AddChildStore(t)
    BY NodesStep
<1>2. i > lastIno \/ (Adding(t) /\ new[t] = i)
    BY <1>1, InosFacts
<1>3. children[i][x] = NoIno
    BY <1>2 DEF BareOK
<1>4. CASE AddChildStore(t)
  <2>1. /\ cur[t] \in Inos /\ Adding(t) /\ Walking(t)
        /\ \A p \in Inos, y \in Comps :
                 children'[p][y] = IF p = cur[t] /\ y = name[new[t]] THEN new[t]
                                   ELSE children[p][y]
    BY <1>4, SoloStore DEF Adding, Building, Walking
  <2>2. cur[t] < new[t] /\ cur[t] <= lastIno
    BY <2>1 DEF NewOK, RequestOK
  <2>3. i # cur[t]
    BY <1>1, <1>2, <2>1, <2>2, InosFacts
  <2> QED
    BY <1>3, <2>1, <2>3
<1> QED
    BY <1>1, <1>3, <1>4

(* A file that is stored is where its request's path leads. *)
LEMMA StoredResolves ==
    ASSUME IndInv, TypeOK', SoloInv, Grows, NEW t \in Threads, Found(t),
           AddChildStore(t), kind[new[t]] # "dir"
    PROVE  /\ req[t] \in Reqs /\ req[t].op = "AddFileNode"
           /\ Resolve(req[t])' = new[t]
<1> USE DEF IndInv
<1>1. /\ pc[t] = "store" /\ cur[t] \in Inos /\ cur[t] # NoIno /\ name[new[t]] \in Comps
      /\ children'[cur[t]][name[new[t]]] = new[t]
      /\ UNCHANGED req
    BY SoloStore, InosFacts
<1>2. Walking(t) /\ RequestOK(t) /\ SoloOK(t) /\ TypeOK
    BY <1>1 DEF Walking, Adding, Building, SoloInv
<1>3. /\ req[t] \in Reqs /\ req[t].op = "AddFileNode"
      /\ name[new[t]] = Last(req[t].path) /\ todo[t] = << >>
    BY <1>1, <1>2 DEF SoloOK, RequestOK
<1>4. PICK done \in Seq(Comps) : done \o todo[t] = DirPath(req[t])
                                 /\ Follow(done, {EmptyName}) = cur[t]
    BY <1>2 DEF Found
<1>5. Follow(done, {EmptyName})' = cur[t]
    BY <1>1, <1>2, <1>4, StillFound
<1>6. done = Front(req[t].path)
    BY <1>3, <1>4, NothingLeft DEF DirPath
<1>7. PICK r \in Reqs : r = req[t]
    BY <1>3
<1> DEFINE q == Follow(done, {EmptyName})'
<1>8. Resolve(r)' = IF q = NoIno THEN NoIno ELSE children'[q][Last(r.path)]
    BY <1>3, <1>6, <1>7 DEF Resolve
<1>9. Resolve(r)' = new[t]
    BY <1>1, <1>3, <1>5, <1>7, <1>8
<1> QED
    BY <1>1, <1>3, <1>7, <1>9

(* Only files that were asked for, and directories, come into the tree. *)
LEMMA KindNext ==
    ASSUME IndInv, TypeOK', SoloInv, NoTake, Grows, KindOK,
           NEW t \in Threads, Request(t) \/ Step(t), Found(t)
    PROVE  KindOK'
<1> USE DEF IndInv
<1>0. TypeOK
    OBVIOUS
<1>1. /\ lastIno \in Nat
      /\ \A i \in Inos : i <= lastIno => kind'[i] = kind[i]
      /\ UNCHANGED children \/ AddChildStore(t)
    BY NodesStep
<1>2. kind'[RootIno] = "dir"
  <2>1. RootIno <= lastIno
    BY DEF TypeOK, Inos
  <2> QED
    BY <1>1, <2>1, InosFacts DEF KindOK
<1>3. ASSUME NEW p \in Inos, NEW x \in Comps, children'[p][x] # NoIno
      PROVE  \/ kind'[children'[p][x]] = "dir"
             \/ /\ kind'[children'[p][x]] = "file"
                /\ \E s \in Reqs : s.op = "AddFileNode" /\ Resolve(s)' = children'[p][x]
  <2>1. CASE children[p][x] # NoIno
    <3>1. children'[p][x] = children[p][x]
        BY <2>1 DEF Grows
    <3>2. children[p][x] \in Inos /\ children[p][x] <= lastIno
        BY <2>1 DEF Bounded, TypeOK
    <3>3. kind'[children[p][x]] = kind[children[p][x]]
        BY <1>1, <3>2
    <3>4. CASE kind[children[p][x]] = "dir"
        BY <3>1, <3>3, <3>4
    <3>5. CASE kind[children[p][x]] # "dir"
      <4>1. PICK s \in Reqs : s.op = "AddFileNode" /\ Resolve(s) = children[p][x]
        BY <2>1, <3>5 DEF KindOK
      <4>2. kind[children[p][x]] = "file"
        BY <2>1, <3>5 DEF KindOK
      <4>3. Resolve(s)' = Resolve(s)
        BY <1>0, <2>1, <4>1, StillResolved
      <4> QED
        BY <3>1, <3>3, <4>1, <4>2, <4>3
    <3> QED
        BY <3>4, <3>5
  <2>2. CASE children[p][x] = NoIno
    <3>1. AddChildStore(t)
        BY <1>1, <1>3, <2>2
    <3>2. /\ children'[p][x] = new[t] /\ pc[t] = "store" /\ UNCHANGED kind
        BY <1>3, <2>2, <3>1, SoloStore
    <3>3. kind[new[t]] \in {"dir", "file"}
        BY <3>2 DEF SoloInv, SoloOK
    <3>4. CASE kind[new[t]] = "dir"
        BY <3>2, <3>4
    <3>5. CASE kind[new[t]] # "dir"
      <4>1. /\ req[t] \in Reqs /\ req[t].op = "AddFileNode"
            /\ Resolve(req[t])' = new[t] /\ UNCHANGED req
        BY <3>1, <3>5, StoredResolves DEF AddChildStore, localVars
      <4>2. PICK s \in Reqs : s = req[t] /\ s.op = "AddFileNode"
        BY <4>1
      <4>3. Resolve(s)' = new[t]
        BY <4>1, <4>2
      <4> QED
        BY <3>2, <3>3, <3>5, <4>2, <4>3
    <3> QED
        BY <3>4, <3>5
  <2> QED
    BY <2>1, <2>2
<1> QED
    BY <1>2, <1>3 DEF KindOK

(* Every step keeps the nodes in their places. *)
LEMMA PlaceNext ==
    ASSUME OneCaller
    PROVE  IndInv /\ SoloInv /\ NoTake /\ WalkInv /\ PlaceInv /\ [Next]_vars => PlaceInv'
<1> SUFFICES ASSUME IndInv, SoloInv, NoTake, WalkInv, PlaceInv, [Next]_vars PROVE PlaceInv'
    OBVIOUS
<1>1. TypeOK /\ TypeOK' /\ Grows
    BY TypePreserved, StepGrows DEF IndInv
<1>2. CASE UNCHANGED vars
  <2>1. BareOK'
    BY <1>2 DEF PlaceInv, BareOK, vars, Adding, Building
  <2>2. \A s \in Reqs : Resolve(s)' = Resolve(s)
    BY <1>2 DEF vars, Resolve, Follow
  <2>3. KindOK'
    BY <1>2, <2>2 DEF PlaceInv, KindOK, vars
  <2> QED
    BY <2>1, <2>3 DEF PlaceInv
<1>3. ASSUME NEW t \in Threads, Request(t) \/ Step(t) PROVE PlaceInv'
  <2>1. BareOK /\ KindOK /\ Found(t)
    BY DEF PlaceInv, WalkInv
  <2>2. BareOK'
    BY <1>1, <1>3, <2>1, BareNext
  <2>3. KindOK'
    BY <1>1, <1>3, <2>1, KindNext
  <2> QED
    BY <2>2, <2>3 DEF PlaceInv
<1> QED
    BY <1>2, <1>3 DEF Next

(* What a file's request resolves to is at the parts of its path. *)
LEMMA ResolveParts ==
    ASSUME TypeOK, NEW s \in Reqs, s.op = "AddFileNode", Resolve(s) # NoIno
    PROVE  FileParts(s) \in Seq(Comps) /\ Find(FileParts(s)) = Resolve(s)
<1>1. Front(s.path) \in Seq(Comps) /\ Last(s.path) \in Comps
    BY PathParts
<1>2. /\ Parts(Front(s.path)) \in Seq(Comps)
      /\ FollowIn(children, Front(s.path), {EmptyName})
            = FollowIn(children, Parts(Front(s.path)), {})
    BY <1>1, FollowParts
<1> DEFINE p == FollowIn(children, Front(s.path), {EmptyName})
<1>3. p # NoIno /\ Resolve(s) = children[p][Last(s.path)]
    BY FollowIs DEF Resolve
<1>4. FollowIn(children, FileParts(s), {}) = NextIno(children, p, Last(s.path), {})
    BY <1>1, <1>2, FollowAppend DEF FileParts
<1>5. Find(FileParts(s)) = FollowIn(children, FileParts(s), {})
    BY FollowIs DEF Find
<1>6. FileParts(s) \in Seq(Comps)
    BY <1>1, <1>2, AppendParts DEF FileParts
<1> QED
    BY <1>3, <1>4, <1>5, <1>6 DEF NextIno

(* AddChild is called on directories only, if no path runs through a file. *)
LEMMA CurIsDir ==
    ASSUME IndInv, SoloInv, NoneThroughFiles, KindOK, NEW t \in Threads,
           Found(t), pc[t] = "store"
    PROVE  \E at \in Seq(Comps) : Find(at) = cur[t] /\ kind[cur[t]] = "dir"
<1> USE DEF IndInv
<1>1. /\ TypeOK /\ Forest /\ cur[t] \in Inos /\ cur[t] # NoIno /\ Walking(t)
      /\ req[t] \in Reqs /\ req[t].op \in {"AddDirNode", "AddFileNode"}
    BY InosFacts DEF RequestOK, SoloInv, SoloOK, Walking, Adding, Building
<1>2. PICK done \in Seq(Comps) : done \o todo[t] = DirPath(req[t])
                                 /\ Follow(done, {EmptyName}) = cur[t]
    BY <1>1 DEF Found
<1>3. PICK at \in Seq(Comps) : at = Parts(done)
    BY FollowParts
<1>4. Find(at) = cur[t]
  <2>1. FollowIn(children, done, {EmptyName}) = FollowIn(children, at, {})
    BY <1>3, FollowParts
  <2>2. Follow(done, {EmptyName}) = FollowIn(children, done, {EmptyName})
    BY FollowIs
  <2>3. Follow(at, {}) = FollowIn(children, at, {})
    BY FollowIs
  <2> QED
    BY <1>2, <2>1, <2>2, <2>3 DEF Find
<1>5. ASSUME kind[cur[t]] # "dir" PROVE FALSE
  <2>1. at # << >>
    <3>1. Find(<< >>) = RootIno
        BY FollowEmpty, FollowIs DEF Find
    <3> QED
        BY <1>4, <1>5, <3>1 DEF KindOK
  <2>2. PICK v \in Seq(Comps) : v = Front(at)
    BY <2>1, LastPart
  <2>3. PICK x \in Comps : x = Last(at)
    BY <2>1, LastPart
  <2>4. at = Append(v, x)
    BY <2>1, <2>2, <2>3, LastPart
  <2>5. FollowIn(children, at, {}) = NextIno(children, FollowIn(children, v, {}), x, {})
    BY <2>4, FollowAppend
  <2>6. FollowIn(children, at, {}) = cur[t]
    BY <1>4, FollowIs DEF Find
  <2>7. children \in Maps
    BY DEF TypeOK, Maps
  <2>8. PICK p \in Inos \cup {NoIno} : p = FollowIn(children, v, {})
    BY <2>7, FollowType
  <2>9. p \in Inos /\ children[p][x] = cur[t]
    BY <1>1, <2>5, <2>6, <2>8 DEF NextIno
  <2>10. PICK s \in Reqs : s.op = "AddFileNode" /\ Resolve(s) = cur[t]
    BY <1>1, <1>5, <2>9 DEF KindOK
  <2>11. FileParts(s) \in Seq(Comps) /\ Find(FileParts(s)) = cur[t]
    BY <1>1, <2>10, ResolveParts
  <2>12. FileParts(s) = at
    BY <1>1, <1>4, <2>11, OnePath
  <2>13. todo[t] \in Seq(Comps)
    BY DEF TypeOK
  <2>14. /\ Len(done) \in 0 .. Len(DirPath(req[t]))
         /\ SubSeq(DirPath(req[t]), 1, Len(done)) = done
    <3>1. Len(done \o todo[t]) = Len(done) + Len(todo[t])
        BY <2>13
    <3>2. Len(done) \in Nat /\ Len(todo[t]) \in Nat
        BY <2>13
    <3>3. SubSeq(done \o todo[t], 1, Len(done)) = done
        BY <2>13
    <3> QED
        BY <1>2, <3>1, <3>2, <3>3
  <2>15. /\ req[t].op = "AddDirNode"
         /\ \A m \in Len(done) + 1 .. Len(req[t].path) : req[t].path[m] = EmptyName
    BY <1>1, <1>3, <2>10, <2>12, <2>14 DEF NoneThroughFiles
  <2>16. NewOK(t) /\ SoloOK(t) /\ Adding(t)
    BY DEF SoloInv, Adding, Building
  <2>17. kind[new[t]] = "dir" /\ Head(todo[t]) # EmptyName
    BY <2>15, <2>16 DEF SoloOK
  <2>18. todo[t] # << >>
    BY <2>16, <2>17 DEF NewOK
  <2>19. req[t].path = done \o todo[t]
    BY <1>2, <2>15 DEF DirPath
  <2>20. /\ Len(done) + 1 \in Len(done) + 1 .. Len(done \o todo[t])
         /\ (done \o todo[t])[Len(done) + 1] = Head(todo[t])
    BY <2>13, <2>18
  <2> QED
    BY <2>15, <2>17, <2>19, <2>20
<1> QED
    BY <1>4, <1>5

-----------------------------------------------------------------------------
(* The paths of the tree. *)

(* The paths that Entries looks at are those of 1 to MaxDepth parts. *)
LEMMA PathsAre ==
    \A q : q \in Paths <=> q \in Seq(Comps) /\ Len(q) >= 1 /\ Len(q) <= MaxDepth
<1> SUFFICES ASSUME NEW q
             PROVE  q \in Paths <=> q \in Seq(Comps) /\ Len(q) >= 1 /\ Len(q) <= MaxDepth
    OBVIOUS
<1>0. MaxDepth \in Nat
    BY TreeConstants
<1>1. ASSUME q \in Paths
      PROVE  q \in Seq(Comps) /\ Len(q) >= 1 /\ Len(q) <= MaxDepth
  <2>1. PICK n \in 1 .. MaxDepth : q \in [1 .. n -> Comps]
    BY <1>1 DEF Paths
  <2>2. q \in Seq(Comps) /\ Len(q) = n
    BY <1>0, <2>1
  <2> QED
    BY <1>0, <2>2
<1>2. ASSUME q \in Seq(Comps), Len(q) >= 1, Len(q) <= MaxDepth
      PROVE  q \in Paths
  <2>1. q \in [1 .. Len(q) -> Comps]
    BY <1>2
  <2>2. Len(q) \in 1 .. MaxDepth
    BY <1>0, <1>2
  <2> QED
    BY <2>1, <2>2 DEF Paths
<1> QED
    BY <1>1, <1>2

(* A lookup goes on from what the path before its last part leads to. *)
LEMMA FindStep ==
    ASSUME TypeOK, NEW v \in Seq(Comps), NEW x \in Comps
    PROVE  /\ Find(v) \in Inos \cup {NoIno}
           /\ Find(Append(v, x)) = IF Find(v) = NoIno THEN NoIno ELSE children[Find(v)][x]
<1>1. children \in Maps
    BY DEF TypeOK, Maps
<1>2. FollowIn(children, v, {}) \in Inos \cup {NoIno}
    BY <1>1, FollowType
<1>3. FollowIn(children, Append(v, x), {}) = NextIno(children, FollowIn(children, v, {}), x, {})
    BY FollowAppend
<1>4. \A q : Find(q) = FollowIn(children, q, {})
    BY FollowIs DEF Find
<1> QED
    BY <1>2, <1>3, <1>4 DEF NextIno

(* The same in the next state. *)
LEMMA FindStepPrime ==
    ASSUME TypeOK', NEW v \in Seq(Comps), NEW x \in Comps
    PROVE  /\ Find(v)' \in Inos \cup {NoIno}
           /\ Find(Append(v, x))' = IF Find(v)' = NoIno THEN NoIno ELSE children'[Find(v)'][x]
<1>1. children' \in Maps
    BY DEF TypeOK, Maps
<1>2. FollowIn(children', v, {}) \in Inos \cup {NoIno}
    BY <1>1, FollowType
<1>3. FollowIn(children', Append(v, x), {}) = NextIno(children', FollowIn(children', v, {}), x, {})
    BY FollowAppend
<1>4. Find(v)' = FollowIn(children', v, {})
      /\ Find(Append(v, x))' = FollowIn(children', Append(v, x), {})
    BY FollowIs DEF Find
<1> QED
    BY <1>2, <1>3, <1>4 DEF NextIno

(* The empty path leads to the root, before a step and after it. *)
LEMMA FindRoot == Find(<< >>) = RootIno /\ Find(<< >>)' = RootIno
    BY FollowIs, FollowEmpty DEF Find

(* Any other path leads to a node in some children map. *)
LEMMA FindLinked ==
    ASSUME TypeOK, NEW q \in Seq(Comps), q # << >>, Find(q) # NoIno
    PROVE  \E p \in Inos, x \in Comps : children[p][x] = Find(q)
<1>1. PICK v \in Seq(Comps) : v = Front(q)
    BY LastPart
<1>2. PICK x \in Comps : x = Last(q)
    BY LastPart
<1>3. q = Append(v, x)
    BY <1>1, <1>2, LastPart
<1> QED
    BY <1>3, FindStep

(* The tree of NewFS has no entries. *)
LEMMA EntriesInit == Init => Entries = << >>
<1> SUFFICES ASSUME Init PROVE Entries = << >>
    OBVIOUS
<1>1. TypeOK
    BY InitInv DEF IndInv
<1>2. \A p \in Inos, x \in Comps : children[p][x] = NoIno
    BY DEF Init
<1>3. \A q \in Paths : Find(q) = NoIno
  <2> SUFFICES ASSUME NEW q \in Paths, Find(q) # NoIno PROVE FALSE
    OBVIOUS
  <2>1. q \in Seq(Comps) /\ q # << >>
    BY PathsAre
  <2> QED
    BY <1>1, <1>2, <2>1, FindLinked
<1>4. {q \in Paths : Find(q) # NoIno} = {}
    BY <1>3
<1> QED
    BY <1>4 DEF Entries

(* A step that leaves the maps and the nodes in them alone leaves the      *)
(* entries alone.                                                          *)
LEMMA EntriesSame ==
    ASSUME IndInv, UNCHANGED children,
           \A i \in Inos : i <= lastIno => kind'[i] = kind[i]
    PROVE  Entries' = Entries
<1>1. \A q \in Paths : Find(q)' = Find(q)
    BY FollowIs DEF Find
<1>2. ASSUME NEW q \in Paths, Find(q) # NoIno PROVE kind'[Find(q)'] = kind[Find(q)]
  <2>1. q \in Seq(Comps) /\ q # << >> /\ TypeOK
    BY PathsAre DEF IndInv
  <2>2. PICK p \in Inos, x \in Comps : children[p][x] = Find(q)
    BY <1>2, <2>1, FindLinked
  <2>3. Find(q) \in Inos /\ Find(q) <= lastIno
    BY <1>2, <2>2 DEF IndInv, Bounded, TypeOK
  <2> QED
    BY <1>1, <2>3
<1> DEFINE D == {q \in Paths : Find(q) # NoIno}
           F == {q \in Paths : Find(q)' # NoIno}
<1>3. D = F
    BY <1>1
<1>4. Entries = [q \in D |-> kind[Find(q)]]
    BY DEF Entries
<1>5. Entries' = [q \in F |-> kind'[Find(q)']]
    BY DEF Entries, Paths
<1>6. \A q \in D : kind'[Find(q)'] = kind[Find(q)]
    BY <1>2
<1> HIDE DEF D, F
<1> QED
    BY <1>3, <1>4, <1>5, <1>6

(* The store of AddChild adds one path and changes no other. *)
LEMMA StoreFinds ==
    ASSUME IndInv, TypeOK', SoloInv, Grows, BareOK, NEW t \in Threads, AddChildStore(t),
           NEW at \in Seq(Comps), Find(at) = cur[t],
           NEW q \in Seq(Comps)
    PROVE  Find(q)' = IF q = Append(at, name[new[t]]) THEN new[t] ELSE Find(q)
<1> USE DEF IndInv
<1>1. /\ pc[t] = "store" /\ cur[t] \in Inos /\ new[t] \in Inos /\ name[new[t]] \in Comps
      /\ children[cur[t]][name[new[t]]] = NoIno
      /\ \A p \in Inos, x \in Comps :
            children'[p][x] = IF p = cur[t] /\ x = name[new[t]] THEN new[t] ELSE children[p][x]
    BY SoloStore
<1>2. PICK nm \in Comps : nm = name[new[t]]
    BY <1>1
<1>3. PICK pp \in Seq(Comps) : pp = Append(at, nm)
    BY <1>2, AppendParts
<1>4. PICK i \in Inos : i = cur[t] /\ i # NoIno
    BY <1>1, InosFacts
<1>5. PICK n \in Inos : n = new[t] /\ n # NoIno
    BY <1>1, InosFacts
<1>6. i # n
  <2>1. Adding(t)
    BY <1>1 DEF Adding, Building
  <2>2. i < n
    BY <1>4, <1>5, <2>1 DEF NewOK
  <2> QED
    BY <2>2, InosFacts
<1>7. \A x \in Comps : children'[n][x] = NoIno
  <2>1. Adding(t)
    BY <1>1 DEF Adding, Building
  <2>2. \A x \in Comps : children[n][x] = NoIno
    BY <1>5, <2>1 DEF BareOK
  <2> QED
    BY <1>1, <1>4, <1>5, <1>6, <2>2
<1>8. Find(pp) = NoIno
    BY <1>1, <1>2, <1>3, <1>4, FindStep
<1>9. Find(at)' = i
  <2>1. Find(at)' = Find(at)
    BY <1>4, StillFound DEF Find
  <2> QED
    BY <1>4, <2>1
<1>10. Find(pp)' = n
  <2>1. children'[i][nm] = n
    BY <1>1, <1>2, <1>4, <1>5
  <2>2. Find(Append(at, nm))' = IF Find(at)' = NoIno THEN NoIno ELSE children'[Find(at)'][nm]
    BY FindStepPrime
  <2> QED
    BY <1>3, <1>4, <1>9, <2>1, <2>2
<1> DEFINE Good(r) == r # pp => Find(r)' = Find(r)
           Bad == {k \in Nat : \E r \in Seq(Comps) : Len(r) = k /\ ~Good(r)}
<1>11. \A r \in Seq(Comps) : Len(r) \in Nat
    OBVIOUS
<1>12. ASSUME Bad # {} PROVE FALSE
  <2>1. PICK k \in Bad : \A j \in Bad : k <= j
    BY <1>12, LeastElement
  <2>2. PICK r \in Seq(Comps) : Len(r) = k /\ ~Good(r)
    BY <2>1
  <2>3. r # << >>
    BY <2>2, FindRoot
  <2>4. PICK v \in Seq(Comps) : v = Front(r)
    BY <2>3, LastPart
  <2>5. PICK x \in Comps : x = Last(r)
    BY <2>3, LastPart
  <2>6. r = Append(v, x) /\ Len(v) = k - 1
    BY <2>2, <2>3, <2>4, <2>5, LastPart
  <2>7. Good(v)
    <3>1. k - 1 \in Nat /\ ~(k <= k - 1)
        BY <1>11, <2>1, <2>6
    <3>2. k - 1 \notin Bad
        BY <2>1, <3>1
    <3> QED
        BY <2>6, <3>1, <3>2
  <2> HIDE DEF Bad
  <2>8. r # pp /\ Find(r)' # Find(r)
    BY <2>2
  <2>9. /\ Find(v) \in Inos \cup {NoIno}
        /\ Find(r) = IF Find(v) = NoIno THEN NoIno ELSE children[Find(v)][x]
    BY <2>6, FindStep
  <2>10. /\ Find(r)' = IF Find(v)' = NoIno THEN NoIno ELSE children'[Find(v)'][x]
    BY <2>6, FindStepPrime
  <2>11. CASE v = pp
    BY <1>5, <1>7, <1>8, <1>10, <2>8, <2>9, <2>10, <2>11
  <2>12. CASE v # pp
    <3>1. Find(v)' = Find(v)
        BY <2>7, <2>12
    <3>2. Find(v) \in Inos /\ children'[Find(v)][x] # children[Find(v)][x]
        BY <2>8, <2>9, <2>10, <3>1
    <3>3. Find(v) = i /\ x = nm
        BY <1>1, <1>2, <1>4, <3>2
    <3>4. v = at
        BY <1>4, <3>3, OnePath
    <3> QED
        BY <1>3, <2>6, <2>8, <3>3, <3>4
  <2> QED
    BY <2>11, <2>12
<1>13. Good(q)
    BY <1>11, <1>12
<1> HIDE DEF Bad
<1> QED
    BY <1>2, <1>3, <1>5, <1>10, <1>13

-----------------------------------------------------------------------------
(* The tree implements PathTree. *)

(* Every step adds one entry below a directory, or none. *)
LEMMA EntriesStep ==
    ASSUME OneCaller, NoRemoval, NoneThroughFiles,
           IndInv, SoloInv, WalkInv, PlaceInv, [Next]_vars
    PROVE  [Promise!Next]_Entries
<1>1. TypeOK /\ TypeOK' /\ NoTake /\ Grows /\ BareOK /\ KindOK
    BY TypePreserved, NoneRemoves, StepGrows DEF IndInv, PlaceInv
<1>2. CASE UNCHANGED vars
  <2>1. UNCHANGED <<children, kind>>
    BY <1>2 DEF vars
  <2> QED
    BY <2>1, EntriesSame
<1>3. ASSUME NEW t \in Threads, Request(t) \/ Step(t), ~AddChildStore(t)
      PROVE  Entries' = Entries
  <2>1. UNCHANGED children /\ \A i \in Inos : i <= lastIno => kind'[i] = kind[i]
    BY <1>1, <1>3, NodesStep
  <2> QED
    BY <2>1, EntriesSame
<1>4. ASSUME NEW t \in Threads, AddChildStore(t)
      PROVE  [Promise!Next]_Entries
  <2>1. /\ pc[t] = "store" /\ new[t] \in Inos /\ name[new[t]] \in Comps /\ UNCHANGED kind
    BY <1>4, SoloStore
  <2>2. Walking(t) /\ Found(t) /\ kind[new[t]] \in {"dir", "file"}
    BY <2>1 DEF Walking, Adding, Building, WalkInv, SoloInv, SoloOK
  <2>3. PICK at \in Seq(Comps) : Find(at) = cur[t] /\ kind[cur[t]] = "dir"
    BY <1>1, <2>1, <2>2, CurIsDir
  <2>4. PICK nm \in Comps : nm = name[new[t]]
    BY <2>1
  <2>5. PICK p \in Seq(Comps) : p = Append(at, nm)
    BY <2>4, AppendParts
  <2>6. PICK n \in Inos : n = new[t] /\ n # NoIno
    BY <2>1, InosFacts
  <2>7. PICK k \in {"dir", "file"} : k = kind[n]
    BY <2>2, <2>6
  <2>8. \A q \in Seq(Comps) : Find(q)' = IF q = p THEN n ELSE Find(q)
    BY <1>1, <1>4, <2>3, <2>4, <2>5, <2>6, StoreFinds
  <2>9. Find(p) = NoIno
    <3>1. children[cur[t]][nm] = NoIno /\ cur[t] \in Inos
        BY <1>4, <2>4, SoloStore
    <3> QED
        BY <1>1, <2>3, <2>5, <3>1, FindStep
  <2> DEFINE D == {q \in Paths : Find(q) # NoIno}
             F == {q \in Paths : Find(q)' # NoIno}
  <2>10. Entries = [q \in D |-> kind[Find(q)]] /\ DOMAIN Entries = D
    BY DEF Entries
  <2>11. Entries' = [q \in F |-> kind[Find(q)']] /\ DOMAIN Entries' = F
    BY <2>1 DEF Entries, Paths
  <2>12. \A q \in Paths : Find(q)' = IF q = p THEN n ELSE Find(q)
    BY <2>8, PathsAre
  <2>13. CASE p \notin Paths
    <3>1. \A q \in Paths : Find(q)' = Find(q)
        BY <2>12, <2>13
    <3>2. D = F
        BY <3>1
    <3>3. \A q \in D : kind[Find(q)'] = kind[Find(q)]
        BY <3>1
    <3> HIDE DEF D, F
    <3>4. Entries' = Entries
        BY <2>10, <2>11, <3>2, <3>3
    <3> QED
        BY <3>4
  <2>14. CASE p \in Paths
    <3>1. F = D \cup {p} /\ p \notin D
        BY <2>6, <2>9, <2>12, <2>14
    <3>2. \A q \in F : kind[Find(q)'] = IF q = p THEN k ELSE Entries[q]
      <4> SUFFICES ASSUME NEW q \in F PROVE kind[Find(q)'] = IF q = p THEN k ELSE Entries[q]
        OBVIOUS
      <4>1. CASE q = p
        BY <2>7, <2>12, <2>14, <4>1
      <4>2. CASE q # p
        <5>1. q \in D /\ Find(q)' = Find(q)
            BY <2>12, <4>2
        <5>2. Entries[q] = kind[Find(q)]
            BY <2>10, <5>1
        <5> QED
            BY <4>2, <5>1, <5>2
      <4> QED
        BY <4>1, <4>2
    <3>3. Front(p) = at /\ Last(p) = nm /\ Len(p) = Len(at) + 1
        BY <2>5, AppendParts
    <3>4. at = << >> \/ (at \in D /\ Entries[at] = "dir")
      <4> SUFFICES ASSUME at # << >> PROVE at \in D /\ Entries[at] = "dir"
        OBVIOUS
      <4>1. Len(at) \in Nat /\ Len(at) # 0 /\ Len(p) <= MaxDepth /\ MaxDepth \in Nat
        BY <2>14, PathsAre, TreeConstants
      <4>2. at \in Paths
        <5>1. Len(at) >= 1 /\ Len(at) <= MaxDepth
            BY <3>3, <4>1
        <5> QED
            BY <5>1, PathsAre
      <4>3. cur[t] # NoIno
        BY <1>4, SoloStore, InosFacts
      <4>4. at \in D
        BY <2>3, <4>2, <4>3
      <4> QED
        BY <2>3, <2>10, <4>4
    <3> HIDE DEF D, F
    <3>5. Promise!IsDir(Entries, Front(p))
        BY <2>10, <3>3, <3>4 DEF Promise!IsDir
    <3>6. Entries' = Promise!Add(Entries, p, k)
        BY <2>10, <2>11, <3>1, <3>2 DEF Promise!Add
    <3>7. p \in DOMAIN Entries' \ DOMAIN Entries
        BY <2>10, <2>11, <3>1
    <3>8. Last(p) \in Comps
        BY <3>3
    <3>9. Promise!Front(p) = Front(p) /\ Promise!Last(p) = Last(p)
        BY DEF Promise!Front, Promise!Last, Front, Last
    <3> QED
        BY <3>5, <3>6, <3>7, <3>8, <3>9 DEF Promise!Next
  <2> QED
    BY <2>13, <2>14
<1> QED
    BY <1>2, <1>3, <1>4 DEF Next

(* When calls come one at a time, none removes a node and no path runs     *)
(* through a file, the node tree implements PathTree: AddDirNode and       *)
(* AddFileNode add one entry after the other below a directory, and none   *)
(* is lost, replaced or changed (KeepsPromise).                            *)
THEOREM KeepsThePromise ==
    ASSUME OneCaller, NoRemoval, NoneThroughFiles
    PROVE  Spec => KeepsPromise
<1>1. Init => Promise!Init
    BY EntriesInit DEF Promise!Init
<1>2. IndInv /\ SoloInv /\ WalkInv /\ PlaceInv /\ [Next]_vars => [Promise!Next]_Entries
    BY EntriesStep
<1>3. IndInv /\ SoloInv /\ WalkInv /\ [Next]_vars => WalkInv'
    BY WalkNext, NoneRemoves
<1>4. IndInv /\ SoloInv /\ WalkInv /\ PlaceInv /\ [Next]_vars => PlaceInv'
    BY PlaceNext, NoneRemoves
<1>5. Spec => []IndInv
    BY Invariance
<1>6. Spec => []SoloInv
    BY SoloInvariance
<1> QED
    BY <1>1, <1>2, <1>3, <1>4, <1>5, <1>6, WalkInit, PlaceInit, PTL
    DEF Spec, KeepsPromise, Promise!Spec

-----------------------------------------------------------------------------
(* The loader. *)

DirOK  == {r \in [path : Seq(Comps)] : DirRequest(r) \in Reqs}
FileOK == {r \in [path : Seq(Comps), sources : Seq(Source)] : FileRequest(r) \in Reqs}

(* The request that main is in is the first of its list. *)
Current ==
    /\ phase \in {"start", "parse"} => pc[Main] = "idle"
    /\ phase = "load" /\ pc[Main] # "idle" =>
         \/ /\ dirRequests # << >>
            /\ req[Main] = DirRequest(Head(dirRequests))
         \/ /\ dirRequests = << >> /\ fileRequests # << >>
            /\ req[Main] = FileRequest(Head(fileRequests))

RequestsOK ==
    /\ Current
    /\ nodesFile \in NodesFiles
    /\ rawNodes \in Seq(Entry)
    /\ dirRequests \in Seq(DirOK)
    /\ fileRequests \in Seq(FileOK)

(* A directory request asks for what its entry asks for. *)
LEMMA DirUnmarshalled ==
    ASSUME NEW e \in Entry, e.type = "dir", NEW r \in UnmarshalDirRequest(e)
    PROVE  r \in DirOK
<1>1. e.decodes /\ r = [path |-> e.path] /\ e.path \in Seq(Comps)
    BY DEF UnmarshalDirRequest, Entry, RawNode
<1>2. DirRequest(r) = DirRequest(e)
    BY <1>1 DEF DirRequest
<1>3. DirRequest(e) \in Reqs
    BY <1>1 DEF Entry
<1> QED
    BY <1>1, <1>2, <1>3 DEF DirOK

(* Reading the sources sets priorities and changes nothing else. *)
LEMMA SourcesUnmarshalled ==
    ASSUME NEW raw \in Seq(Source), NEW s \in UnmarshalSources(raw)
    PROVE  /\ s \in Seq(Source) /\ DOMAIN s = DOMAIN raw
           /\ \A i \in DOMAIN raw : s[i].valid = raw[i].valid /\ s[i].id = raw[i].id
<1>1. s = [i \in DOMAIN raw |-> [raw[i] EXCEPT !.priority = IF @ = NoPriority THEN i - 1 ELSE @]]
    BY DEF UnmarshalSources
<1>2. DOMAIN raw = 1 .. Len(raw) /\ Len(raw) \in Nat /\ \A i \in DOMAIN raw : raw[i] \in Source
    OBVIOUS
<1>3. \A i \in DOMAIN raw : /\ s[i] \in Source
                            /\ s[i].valid = raw[i].valid /\ s[i].id = raw[i].id
  <2> SUFFICES ASSUME NEW i \in DOMAIN raw
               PROVE  s[i] \in Source /\ s[i].valid = raw[i].valid /\ s[i].id = raw[i].id
    OBVIOUS
  <2>1. i - 1 \in Int /\ raw[i] \in Source
    BY <1>2
  <2>2. s[i] = [raw[i] EXCEPT !.priority = IF @ = NoPriority THEN i - 1 ELSE @]
    BY <1>1
  <2> QED
    BY <2>1, <2>2 DEF Source
<1>4. s \in [1 .. Len(raw) -> Source]
    BY <1>1, <1>2, <1>3
<1>5. s \in Seq(Source)
    BY <1>2, <1>4
<1> QED
    BY <1>1, <1>3, <1>5

(* A file request asks for what its entry asks for. *)
LEMMA FileUnmarshalled ==
    ASSUME NEW e \in Entry, e.type = "file", NEW r \in UnmarshalFileRequest(e)
    PROVE  r \in FileOK
<1>1. e.decodes /\ e.path \in Seq(Comps) /\ e.sources \in Seq(Source)
    BY DEF UnmarshalFileRequest, Entry, RawNode
<1>2. PICK s \in UnmarshalSources(e.sources) : r = [path |-> e.path, sources |-> s]
    BY <1>1 DEF UnmarshalFileRequest
<1>3. /\ s \in Seq(Source) /\ DOMAIN s = DOMAIN e.sources
      /\ \A i \in DOMAIN e.sources : s[i].valid = e.sources[i].valid
    BY <1>1, SourcesUnmarshalled
<1>4. (\E i \in DOMAIN s : s[i].valid) = (\E i \in DOMAIN e.sources : e.sources[i].valid)
    BY <1>3, Zenon
<1>5. r.path = e.path /\ r.sources = s
    BY <1>2
<1>6. FileRequest(r) = FileRequest(e)
    BY <1>4, <1>5 DEF FileRequest
<1>7. FileRequest(e) \in Reqs
    BY <1>1 DEF Entry
<1> QED
    BY <1>1, <1>2, <1>3, <1>6, <1>7 DEF FileOK

(* At first there are no requests. *)
LEMMA RequestsInit == LoaderInit => RequestsOK
<1> SUFFICES ASSUME LoaderInit PROVE RequestsOK
    OBVIOUS
<1>1. Main \in Threads
    BY LoaderConstants
<1> QED
    BY <1>1 DEF LoaderInit, Init, RequestsOK, Current

(* A call keeps its request until it returns. *)
LEMMA StepKeepsRequest ==
    ASSUME TypeOK, NEW t \in Threads, Step(t)
    PROVE  pc[t] # "idle" /\ (pc'[t] # "idle" => req'[t] = req[t])
  BY DEF Step, Walk, MkDir, Check, Create, AddChildTake, AddChildStore, DelNode,
         AddChildLink, LinkTo, Added, RemoveChildTake, RemoveChildUnlink, ReturnOK, Return,
         NewNode, Goto, localVars, TypeOK

(* Every step of the loader keeps its lists in order. *)
LEMMA RequestsNext ==
    ASSUME TypeOK, RequestsOK, [LoaderNext]_loaderVars
    PROVE  RequestsOK'
<1>0. Main \in Threads /\ Current
    BY LoaderConstants DEF RequestsOK
<1>1. CASE UNCHANGED <<phase, nodesFile, rawNodes, dirRequests, fileRequests, pc, req>>
    BY <1>1 DEF RequestsOK, Current
<1>2. CASE Configure
  <2>1. rawNodes' \in Seq(Entry)
    <3>1. CASE nodesFile \in {Broken, Unreadable}
      <4>1. rawNodes' = << >>
        BY <1>2, <3>1 DEF Configure, Given
      <4> QED
        BY <4>1
    <3>2. CASE nodesFile \notin {Broken, Unreadable}
      <4>1. rawNodes' = nodesFile
        BY <1>2, <3>2 DEF Configure, Given
      <4> QED
        BY <3>2, <4>1, LoaderConstants DEF RequestsOK
    <3> QED
      BY <3>1, <3>2
  <2>2. Current'
    BY <1>0, <1>2 DEF Configure, Current, vars
  <2> QED
    BY <1>2, <2>1, <2>2 DEF Configure, RequestsOK
<1>3. CASE Parse
  <2>0. Current' /\ UNCHANGED nodesFile
    BY <1>0, <1>3 DEF Parse, startVars, Current, vars
  <2>1. CASE rawNodes = << >>
    BY <1>3, <2>0, <2>1 DEF Parse, RequestsOK
  <2>2. CASE rawNodes # << >>
    <3>1. PICK e \in Entry : e = Head(rawNodes)
        BY <2>2 DEF RequestsOK
    <3>2. /\ fileRequests' = IF e.type = "file"
                               THEN AppendAll(fileRequests, UnmarshalFileRequest(e))
                               ELSE fileRequests
          /\ dirRequests' = IF e.type = "dir"
                              THEN AppendAll(dirRequests, UnmarshalDirRequest(e))
                              ELSE dirRequests
          /\ rawNodes' = Tail(rawNodes) /\ UNCHANGED nodesFile
        BY <1>3, <2>2, <3>1 DEF Parse, startVars
    <3>3. fileRequests' \in Seq(FileOK)
      <4>1. CASE e.type = "file" /\ UnmarshalFileRequest(e) # {}
        <5>1. PICK r \in UnmarshalFileRequest(e) :
                 r = CHOOSE x \in UnmarshalFileRequest(e) : TRUE
            BY <4>1
        <5>2. r \in FileOK
            BY <4>1, FileUnmarshalled
        <5>3. fileRequests' = Append(fileRequests, r)
            BY <3>2, <4>1, <5>1 DEF AppendAll
        <5> QED
            BY <5>2, <5>3 DEF RequestsOK
      <4>2. CASE ~(e.type = "file" /\ UnmarshalFileRequest(e) # {})
        BY <3>2, <4>2 DEF AppendAll, RequestsOK
      <4> QED
        BY <4>1, <4>2
    <3>4. dirRequests' \in Seq(DirOK)
      <4>1. CASE e.type = "dir" /\ UnmarshalDirRequest(e) # {}
        <5>1. PICK r \in UnmarshalDirRequest(e) :
                 r = CHOOSE x \in UnmarshalDirRequest(e) : TRUE
            BY <4>1
        <5>2. r \in DirOK
            BY <4>1, DirUnmarshalled
        <5>3. dirRequests' = Append(dirRequests, r)
            BY <3>2, <4>1, <5>1 DEF AppendAll
        <5> QED
            BY <5>2, <5>3 DEF RequestsOK
      <4>2. CASE ~(e.type = "dir" /\ UnmarshalDirRequest(e) # {})
        BY <3>2, <4>2 DEF AppendAll, RequestsOK
      <4> QED
        BY <4>1, <4>2
    <3> QED
        BY <2>0, <2>2, <3>2, <3>3, <3>4 DEF RequestsOK
  <2> QED
    BY <2>1, <2>2
<1>4. CASE LoadStep
  <2>1. /\ phase = "load" /\ Step(Main) /\ UNCHANGED <<phase, nodesFile, rawNodes>>
        /\ IF pc'[Main] # "idle" THEN UNCHANGED <<dirRequests, fileRequests>>
           ELSE IF req[Main].op = "AddDirNode"
             THEN dirRequests' = Tail(dirRequests) /\ UNCHANGED fileRequests
             ELSE fileRequests' = Tail(fileRequests) /\ UNCHANGED dirRequests
    BY <1>4 DEF LoadStep, startVars
  <2>2. pc[Main] # "idle" /\ (pc'[Main] # "idle" => req'[Main] = req[Main])
    BY <1>0, <2>1, StepKeepsRequest
  <2>3. Current'
    BY <1>0, <2>1, <2>2 DEF Current
  <2>4. /\ req[Main].op = "AddDirNode" => dirRequests # << >>
        /\ req[Main].op # "AddDirNode" => fileRequests # << >>
    BY <1>0, <2>1, <2>2 DEF Current, DirRequest, FileRequest
  <2>5. (dirRequests # << >> => Tail(dirRequests) \in Seq(DirOK))
        /\ (fileRequests # << >> => Tail(fileRequests) \in Seq(FileOK))
    BY DEF RequestsOK
  <2> QED
    BY <2>1, <2>3, <2>4, <2>5 DEF RequestsOK
<1>5. CASE LoadNext
  <2>1. /\ phase = "load"
        /\ UNCHANGED <<phase, nodesFile, rawNodes, dirRequests, fileRequests>>
        /\ IF dirRequests # << >> THEN AddNode(Main, DirRequest(Head(dirRequests)))
           ELSE fileRequests # << >> /\ AddNode(Main, FileRequest(Head(fileRequests)))
    BY <1>5 DEF LoadNext, startVars, loadVars
  <2>2. Current'
    BY <1>0, <2>1 DEF AddNode, Call, Current, TypeOK
  <2> QED
    BY <2>1, <2>2 DEF RequestsOK
<1>6. CASE NoMountPoint \/ ConfigureFromFile \/ Loaded \/ EmbeddedStep
  <2>1. UNCHANGED <<nodesFile, rawNodes, dirRequests, fileRequests>>
        /\ phase' \in {"failed", "embedded", "serve"}
    BY <1>6 DEF NoMountPoint, ConfigureFromFile, Loaded, EmbeddedStep, startVars, loadVars
  <2> QED
    BY <2>1 DEF RequestsOK, Current
<1> QED
    BY <1>1, <1>2, <1>3, <1>4, <1>5, <1>6 DEF LoaderNext, loaderVars, vars, startVars, loadVars

(* A step of the loader is a step of the tree or leaves it alone. *)
LEMMA LoaderStep ==
    ASSUME RequestsOK, [LoaderNext]_loaderVars
    PROVE  [Next]_vars
<1>0. Main \in Threads
    BY LoaderConstants
<1>1. CASE UNCHANGED vars
    BY <1>1
<1>2. CASE LoadNext
  <2>1. ASSUME NEW r \in Reqs, r.op \in {"AddDirNode", "AddFileNode"}, AddNode(Main, r)
        PROVE  Next
    BY <1>0, <2>1 DEF Next, Request
  <2>2. CASE dirRequests # << >>
    <3>1. PICK r \in Reqs : r = DirRequest(Head(dirRequests))
        BY <2>2 DEF RequestsOK, DirOK
    <3> QED
        BY <1>2, <2>1, <2>2, <3>1 DEF LoadNext, DirRequest
  <2>3. CASE dirRequests = << >>
    <3>1. fileRequests # << >> /\ AddNode(Main, FileRequest(Head(fileRequests)))
        BY <1>2, <2>3 DEF LoadNext
    <3>2. PICK r \in Reqs : r = FileRequest(Head(fileRequests))
        BY <3>1 DEF RequestsOK, FileOK
    <3> QED
        BY <2>1, <3>1, <3>2 DEF FileRequest
  <2> QED
    BY <2>2, <2>3
<1>3. CASE LoadStep
    BY <1>0, <1>3 DEF LoadStep, Next
<1>4. CASE EmbeddedStep
    BY <1>4 DEF EmbeddedStep
<1>5. CASE NoMountPoint \/ Configure \/ ConfigureFromFile \/ Parse \/ Loaded
    BY <1>1, <1>5 DEF NoMountPoint, Configure, ConfigureFromFile, Parse, Loaded
<1> QED
    BY <1>1, <1>2, <1>3, <1>4, <1>5 DEF LoaderNext, loaderVars

(* The invariants of the tree and of the lists hold while the loader runs. *)
LEMMA LoaderInvariance == LoaderSpec => [](IndInv /\ RequestsOK)
<1>1. LoaderInit => IndInv /\ RequestsOK
    BY RequestsInit, InitInv DEF LoaderInit
<1>2. IndInv /\ RequestsOK /\ [LoaderNext]_loaderVars => (IndInv /\ RequestsOK)'
    BY RequestsNext, LoaderStep, NextInv DEF IndInv
<1> QED
    BY <1>1, <1>2, PTL DEF LoaderSpec

(* What the command and embedding programs do to the tree is what          *)
(* NodeTree's callers may do: every behaviour of Loader is one of          *)
(* NodeTree, so that NodeTree's theorems hold of it.                       *)
THEOREM LoaderUsesTree == LoaderSpec => Spec
<1>1. LoaderInit => Init
    BY DEF LoaderInit
<1>2. RequestsOK /\ [LoaderNext]_loaderVars => [Next]_vars
    BY LoaderStep
<1>3. LoaderSpec => [](IndInv /\ RequestsOK)
    BY LoaderInvariance
<1> QED
    BY <1>1, <1>2, <1>3, PTL DEF LoaderSpec, Spec

(* The loader is the only caller. *)
LEMMA LoaderIsOne == OneCaller
    BY LoaderConstants DEF OneCaller

(* While the loader or an embedding program that takes no node out of a    *)
(* directory runs, what a call returned stays at its path, unless Del was  *)
(* called on it or above it (ReturnedIsThere).                             *)
THEOREM LoadedIsThere ==
    ASSUME NoRemoval
    PROVE  LoaderSpec => []ReturnedIsThere
    BY LoaderUsesTree, LoaderIsOne, ReturnedStays

(* While the loader or an embedding program runs, paths lead back to their *)
(* nodes (PathLeadsBack).                                                  *)
THEOREM LoadedLeadsBack == LoaderSpec => []PathLeadsBack
    BY LoaderUsesTree, LoaderIsOne, PathsLeadBack

(* If no path of a nodes file or of an embedding program runs through a    *)
(* file, and nothing is removed, the tree only grows as PathTree says      *)
(* (KeepsPromise).                                                         *)
THEOREM LoaderKeepsPromise ==
    ASSUME NoRemoval, NoneThroughFiles
    PROVE  LoaderSpec => KeepsPromise
    BY LoaderUsesTree, LoaderIsOne, KeepsThePromise

-----------------------------------------------------------------------------
(* What main has loaded of the nodes file. *)

(* Every file is in the tree, or is just being added to it. *)
Published ==
    \A i \in Inos : kind[i] = "file" => Linked(i) \/ \E t \in Threads : Adding(t) /\ new[t] = i

(* A lone caller that removes nothing keeps it so. *)
LEMMA PublishedNext ==
    ASSUME IndInv, SoloInv, OneCaller, NoTake, [Next]_vars, Published
    PROVE  Published'
<1>0. /\ TypeOK /\ Grows
      /\ \A t \in Threads : SoloOK(t) /\ RequestOK(t) /\ NewOK(t)
  BY StepGrows DEF IndInv, SoloInv
<1>1. \A i \in Inos : Linked(i) => Linked(i)'
  BY <1>0, InosFacts DEF Linked, Grows
<1>2. CASE UNCHANGED vars
  BY <1>1, <1>2 DEF vars, Published, Adding, Building
<1>3. ASSUME NEW t \in Threads, UNCHANGED kind,
             Adding(t) => (Adding(t)' /\ new'[t] = new[t]) \/ Linked(new[t])
      PROVE  Published'
  BY <1>1, <1>3 DEF Published, OneCaller
<1>4. ASSUME NEW t \in Threads, Request(t) PROVE Published'
  <2>1. UNCHANGED kind /\ ~Adding(t)
    BY <1>4 DEF Request, AddNode, RemoveChild, Del, Call, nodeVars, Adding, Building
  <2> QED
    BY <1>3, <2>1
<1>5. ASSUME NEW t \in Threads, Walk(t) \/ Check(t) \/ RemoveChildUnlink(t) PROVE Published'
  <2>1. UNCHANGED kind /\ ~Adding(t)
    BY <1>5 DEF Walk, Check, RemoveChildUnlink, nodeVars, Adding, Building
  <2> QED
    BY <1>3, <2>1
<1>6. ASSUME NEW t \in Threads, DelNode(t) PROVE Published'
  <2>1. UNCHANGED kind /\ ~Adding(t)
    BY <1>0, <1>6 DEF DelNode, SoloOK, Adding, Building
  <2> QED
    BY <1>3, <2>1
<1>7. ASSUME NEW t \in Threads, MkDir(t) \/ Create(t) PROVE Published'
  <2>1. lastIno \in Nat /\ ~Adding(t)
    BY <1>0, <1>7, InosFacts DEF MkDir, Create, TypeOK, Adding, Building
  <2>2. CASE UNCHANGED kind
    BY <1>3, <2>1, <2>2
  <2>3. CASE kind' # kind
    <3>1. /\ \A i \in Inos : i # lastIno' => kind'[i] = kind[i]
          /\ pc'[t] = "take" /\ new'[t] = lastIno'
      BY <1>0, <1>7, <2>3 DEF MkDir, Create, NewNode, Goto, TypeOK, nodeVars
    <3>2. Adding(t)'
      BY <3>1 DEF Adding, Building
    <3>3. \A i \in Inos : kind[i] = "file" => Linked(i)
      BY <2>1 DEF Published, OneCaller
    <3> QED
      BY <1>1, <3>1, <3>2, <3>3 DEF Published
  <2> QED
    BY <2>2, <2>3
<1>8. ASSUME NEW t \in Threads, AddChildTake(t) \/ AddChildStore(t) PROVE Published'
  <2>1. UNCHANGED <<kind, new>> /\ pc'[t] \in {"store", "link"}
    BY <1>0, <1>8 DEF AddChildTake, AddChildStore, SoloOK, Goto, TypeOK, localVars
  <2>2. Adding(t)'
    BY <2>1 DEF Adding, Building
  <2> QED
    BY <1>3, <2>1, <2>2
<1>9. ASSUME NEW t \in Threads, AddChildLink(t) PROVE Published'
  <2>1. UNCHANGED kind /\ pc[t] = "link"
    BY <1>9 DEF AddChildLink, LinkTo
  <2>2. cur[t] \in Inos /\ new[t] \in Inos /\ name[new[t]] \in Comps
        /\ children[cur[t]][name[new[t]]] = new[t]
    BY <1>0, <2>1 DEF SoloOK, RequestOK, NewOK, Walking, Adding, TypeOK
  <2> QED
    BY <1>3, <2>1, <2>2 DEF Linked
<1> QED
  BY <1>2, <1>4, <1>5, <1>6, <1>7, <1>8, <1>9 DEF Next, Step, NoTake

(* The command never removes a node, so that while it loads the tree it is *)
(* a caller of the kind treated above.                                     *)
AloneInv == phase # "embedded" => WalkInv /\ PlaceInv /\ Published

(* The command removes nothing, whatever embedding programs may ask for. *)
LEMMA LoaderTakesNone ==
    ASSUME IndInv, SoloInv, RequestsOK, [LoaderNext]_loaderVars, phase' # "embedded"
    PROVE  NoTake
<1> SUFFICES ASSUME NEW t \in Threads, RemoveChildTake(t) PROVE FALSE
    BY DEF NoTake
<1>1. t = Main /\ TypeOK /\ SoloOK(t) /\ Current
    BY LoaderConstants DEF IndInv, SoloInv, RequestsOK
<1>2. pc[t] = "rmtake" /\ pc'[t] # pc[t]
    BY <1>1 DEF RemoveChildTake, Return, Goto, TypeOK
<1>3. req[t].op = "RemoveChild"
    BY <1>1, <1>2 DEF SoloOK
<1>4. ~UNCHANGED vars
    BY <1>2 DEF vars
<1>5. phase = "load"
    BY <1>4 DEF LoaderNext, NoMountPoint, Configure, ConfigureFromFile, Parse, LoadNext, LoadStep, Loaded,
                EmbeddedStep, loadVars, loaderVars
<1>6. req[t].op \in {"AddDirNode", "AddFileNode"}
    BY <1>1, <1>2, <1>5 DEF Current, DirRequest, FileRequest
<1> QED
    BY <1>3, <1>6

(* So while it loads, the tree is as it is for a lone caller that removes  *)
(* nothing.                                                                *)
LEMMA AloneInvariance == LoaderSpec => [](IndInv /\ SoloInv /\ RequestsOK /\ AloneInv)
<1>1. LoaderInit => AloneInv
  <2>1. Init => Published
    BY DEF Init, Published
  <2> QED
    BY <2>1, WalkInit, PlaceInit DEF LoaderInit, AloneInv
<1>2. IndInv /\ SoloInv /\ RequestsOK /\ AloneInv /\ [LoaderNext]_loaderVars => AloneInv'
  <2> SUFFICES ASSUME IndInv, SoloInv, RequestsOK, AloneInv, [LoaderNext]_loaderVars,
                      phase' # "embedded"
               PROVE  WalkInv' /\ PlaceInv' /\ Published'
    BY DEF AloneInv
  <2>1. NoTake /\ [Next]_vars /\ OneCaller
    BY LoaderTakesNone, LoaderStep, LoaderIsOne
  <2>2. phase # "embedded"
    BY DEF LoaderNext, NoMountPoint, Configure, ConfigureFromFile, Parse, LoadNext, LoadStep, Loaded,
           EmbeddedStep, loadVars, loaderVars
  <2>3. WalkInv /\ PlaceInv /\ Published
    BY <2>2 DEF AloneInv
  <2> QED
    BY <2>1, <2>3, WalkNext, PlaceNext, PublishedNext
<1>3. LoaderSpec => []SoloInv
    BY LoaderUsesTree, LoaderIsOne, SoloInvariance
<1> QED
    BY <1>1, <1>2, <1>3, LoaderInvariance, PTL DEF LoaderSpec

(* How far the nodes file is loaded.  Its entries up to Consumed are read. *)
(* What they ask for is still in main's lists, or it is done.  The list of *)
(* files is in the order of the entries: ix[m] is the entry that its m-th  *)
(* request is from.                                                        *)
Loading  == phase \in {"parse", "load", "serve"}
Consumed == Len(Given) - Len(rawNodes)
Readable ==
    {i \in DOMAIN Given :
        /\ Given[i].type = "file" /\ Given[i].decodes
        /\ \A j \in DOMAIN Given[i].sources : Given[i].sources[j].type = "http"}

StartOK ==
    /\ dirRequests = << >> /\ fileRequests = << >> /\ providers = << >>
    /\ \A i \in Inos : kind[i] # "file"

ReadOK ==
    /\ Len(rawNodes) <= Len(Given)
    /\ \A m \in DOMAIN rawNodes : rawNodes[m] = Given[Consumed + m]
    /\ phase # "parse" => rawNodes = << >>
    /\ DOMAIN providers = {"http"}
    /\ phase = "serve" => dirRequests = << >> /\ fileRequests = << >> /\ pc[Main] = "idle"

DirsOK ==
    \A i \in DirEntries : i <= Consumed =>
        \/ \E m \in DOMAIN dirRequests : dirRequests[m].path = Given[i].path
        \/ At(i) # NoIno /\ kind[At(i)] = "dir"

(* Files are made after all directories. *)
NoFiles ==
    phase = "parse" \/ (phase = "load" /\ dirRequests # << >>) =>
        \A i \in Inos : kind[i] # "file"

PoolOf(f, sources) == Ids(pool[f]) = Ids(SourceAdapters(sources))

NewPool ==
    phase = "load" /\ Adding(Main) /\ kind[new[Main]] = "file" =>
        req[Main].adapter /\ PoolOf(new[Main], Head(fileRequests).sources)

From(i, r) ==
    /\ FileRequest(r) = FileRequest(Given[i])
    /\ Ids(SourceAdapters(r.sources)) = Ids(SourceAdapters(Given[i].sources))

Pending(ix) ==
    /\ ix \in [1 .. Len(fileRequests) -> Readable]
    /\ \A m \in 1 .. Len(fileRequests) : ix[m] <= Consumed /\ From(ix[m], fileRequests[m])
    /\ \A m, n \in 1 .. Len(fileRequests) : m < n => ix[m] < ix[n]

Handled(ix) == {i \in Readable : i <= Consumed /\ \A m \in DOMAIN ix : i < ix[m]}

Complete(ix) ==
    \A i \in Readable : i <= Consumed => i \in Handled(ix) \/ \E m \in DOMAIN ix : ix[m] = i

HandledOK(S) ==
    \A i \in S \cap FileEntries :
        /\ At(i) # NoIno
        /\ pc[Main] = "link" /\ kind[new[Main]] = "file" => At(i) # new[Main]

(* A file has the adapters of the first entry that asks for it. *)
FirstOf(f, j) ==
    /\ At(j) = f /\ PoolOf(f, Given[j].sources)
    /\ \A k \in FileEntries : At(k) = f => j <= k

PoolsOK(S) ==
    \A p \in Inos, x \in Comps :
        children[p][x] # NoIno /\ kind[children[p][x]] = "file" =>
            \/ pc[Main] = "link" /\ new[Main] = children[p][x]
            \/ \E j \in S \cap FileEntries : FirstOf(children[p][x], j)

FilesOK ==
    \E ix : /\ Pending(ix) /\ Complete(ix)
            /\ phase = "parse" => Handled(ix) = {}
            /\ HandledOK(Handled(ix)) /\ PoolsOK(Handled(ix))

LoadInv ==
    /\ DOMAIN pool = Inos
    /\ phase = "start" => StartOK
    /\ Loading => ReadOK /\ DirsOK /\ NoFiles /\ NewPool /\ FilesOK

(* The entries of the nodes file. *)
LEMMA GivenType ==
    ASSUME RequestsOK
    PROVE  /\ Given \in Seq(Entry) /\ Len(Given) \in Nat
           /\ DOMAIN Given = 1 .. Len(Given)
           /\ \A i \in DOMAIN Given : Given[i] \in Entry
<1>1. Given \in Seq(Entry)
  <2>1. CASE nodesFile \in {Broken, Unreadable}
    <3>1. Given = << >>
        BY <2>1 DEF Given
    <3> QED
        BY <3>1
  <2>2. CASE nodesFile \notin {Broken, Unreadable}
    <3>1. nodesFile \in Seq(Entry) /\ Given = nodesFile
        BY <2>2, LoaderConstants DEF RequestsOK, Given
    <3> QED
        BY <3>1
  <2> QED
    BY <2>1, <2>2
<1>2. PICK g \in Seq(Entry) : g = Given
    BY <1>1
<1>3. Len(g) \in Nat /\ DOMAIN g = 1 .. Len(g) /\ \A i \in DOMAIN g : g[i] \in Entry
    OBVIOUS
<1> QED
    BY <1>2, <1>3

(* An entry stands for a request. *)
LEMMA AtRequest ==
    ASSUME RequestsOK, NEW i \in DirEntries \cup FileEntries
    PROVE  \E r \in Reqs :
              /\ r.op = "AddDirNode" \/ r.op = "AddFileNode"
              /\ Given[i].type = "dir" => r = DirRequest(Given[i])
              /\ Given[i].type = "file" => r = FileRequest(Given[i])
              /\ At(i) = Resolve(r)
              /\ UNCHANGED nodesFile => At(i)' = Resolve(r)'
<1>1. i \in DOMAIN Given /\ Given[i].decodes /\ Given[i].type \in {"dir", "file"}
    BY DEF DirEntries, FileEntries
<1>2. PICK e \in Entry : e = Given[i]
    BY <1>1, GivenType
<1>3. PICK r \in Reqs : r = IF e.type = "dir" THEN DirRequest(e) ELSE FileRequest(e)
    BY <1>1, <1>2 DEF Entry
<1>4. r.op = (IF e.type = "dir" THEN "AddDirNode" ELSE "AddFileNode") /\ r.path = e.path
    BY <1>3 DEF DirRequest, FileRequest
<1>5. At(i) = Resolve(r)
    BY <1>2, <1>4 DEF At, Resolve
<1>6. ASSUME UNCHANGED nodesFile PROVE At(i)' = Resolve(r)'
  <2>1. Given' = Given
    BY <1>6 DEF Given
  <2> QED
    BY <1>2, <1>4, <2>1 DEF At, Resolve
<1> QED
    BY <1>1, <1>2, <1>3, <1>4, <1>5, <1>6

(* What an entry's path leads to, it goes on leading to. *)
LEMMA AtStays ==
    ASSUME RequestsOK, UNCHANGED nodesFile, TypeOK, TypeOK', Grows,
           NEW i \in DirEntries \cup FileEntries, At(i) # NoIno
    PROVE  At(i)' = At(i)
  BY AtRequest, StillResolved

(* A step that changes no map changes no lookup. *)
LEMMA AtSame ==
    ASSUME UNCHANGED <<nodesFile, children>>, NEW i
    PROVE  At(i)' = At(i)
<1>1. Given' = Given
    BY DEF Given
<1> QED
    BY <1>1 DEF At, Resolve, Follow

(* What a request resolves to is in the tree. *)
LEMMA ResolvedThere ==
    ASSUME IndInv, PlaceInv, NEW r \in Reqs, r.op \in {"AddDirNode", "AddFileNode"},
           Resolve(r) # NoIno
    PROVE  /\ Resolve(r) \in Inos /\ Resolve(r) <= lastIno
           /\ kind[Resolve(r)] \in {"dir", "file"}
           /\ r.op = "AddFileNode" => Linked(Resolve(r))
<1>0. TypeOK /\ Bounded /\ children \in Maps
    BY DEF IndInv, TypeOK, Maps
<1>1. ASSUME NEW p \in Inos, NEW x \in Comps, children[p][x] = Resolve(r)
      PROVE  /\ Resolve(r) \in Inos /\ Resolve(r) <= lastIno
             /\ kind[Resolve(r)] \in {"dir", "file"} /\ Linked(Resolve(r))
  <2>1. children[p][x] \in Inos /\ children[p][x] <= lastIno /\ Linked(children[p][x])
    BY <1>0, <1>1 DEF TypeOK, Bounded, Linked
  <2>2. kind[children[p][x]] \in {"dir", "file"}
    BY <1>1 DEF PlaceInv, KindOK
  <2> QED
    BY <1>1, <2>1, <2>2
<1>2. CASE r.op = "AddDirNode"
  <2>1. r.path \in Seq(Comps) /\ Resolve(r) = Follow(r.path, {EmptyName})
    BY <1>2, PathParts DEF Resolve
  <2>2. Resolve(r) = FollowIn(children, r.path, {EmptyName})
    BY <2>1, FollowIs
  <2>3. PICK q \in Seq(Comps) : q = Parts(r.path)
    BY <2>1, FollowParts
  <2>4. Resolve(r) = FollowIn(children, q, {})
    BY <2>1, <2>2, <2>3, FollowParts
  <2>5. Resolve(r) = Find(q)
    BY <2>4, FollowIs DEF Find
  <2>6. CASE q = << >>
    <3>1. Resolve(r) = RootIno
        BY <2>4, <2>6, FollowEmpty
    <3>2. RootIno <= lastIno
        BY <1>0, InosFacts DEF TypeOK, Inos, RootIno
    <3> QED
        BY <1>2, <3>1, <3>2, InosFacts DEF PlaceInv, KindOK
  <2>7. CASE q # << >>
    BY <1>0, <1>1, <1>2, <2>5, <2>7, FindLinked
  <2> QED
    BY <2>6, <2>7
<1>3. CASE r.op = "AddFileNode"
  <2>1. Front(r.path) \in Seq(Comps) /\ Last(r.path) \in Comps
    BY <1>3, PathParts
  <2>2. PICK p : p = Follow(Front(r.path), {EmptyName})
    OBVIOUS
  <2>3. p # NoIno /\ Resolve(r) = children[p][Last(r.path)]
    BY <1>3, <2>2 DEF Resolve
  <2>4. FollowIn(children, Front(r.path), {EmptyName}) \in Inos \cup {NoIno}
    BY <1>0, <2>1, FollowType
  <2>5. p \in Inos
    BY <2>2, <2>3, <2>4, FollowIs
  <2> QED
    BY <1>1, <2>1, <2>3, <2>5
<1> QED
    BY <1>2, <1>3

(* So is what an entry's path leads to. *)
LEMMA AtThere ==
    ASSUME RequestsOK, IndInv, PlaceInv, NEW i \in DirEntries \cup FileEntries, At(i) # NoIno
    PROVE  /\ At(i) \in Inos /\ At(i) <= lastIno
           /\ kind[At(i)] \in {"dir", "file"}
           /\ i \in FileEntries => Linked(At(i))
<1>1. PICK r \in Reqs :
              /\ r.op = "AddDirNode" \/ r.op = "AddFileNode"
              /\ Given[i].type = "dir" => r = DirRequest(Given[i])
              /\ Given[i].type = "file" => r = FileRequest(Given[i])
              /\ At(i) = Resolve(r)
    BY AtRequest
<1>2. i \in FileEntries => r.op = "AddFileNode"
    BY <1>1 DEF FileEntries, FileRequest
<1> QED
    BY <1>1, <1>2, ResolvedThere

-----------------------------------------------------------------------------
(* Reading the nodes file. *)

(* Reading an entry changes none of its adapters. *)
LEMMA SameAdapters ==
    ASSUME NEW e \in Entry, e.type = "file", NEW r \in UnmarshalFileRequest(e)
    PROVE  /\ FileRequest(r) = FileRequest(e)
           /\ Ids(SourceAdapters(r.sources)) = Ids(SourceAdapters(e.sources))
<1>1. e.decodes /\ e.path \in Seq(Comps) /\ e.sources \in Seq(Source)
    BY DEF UnmarshalFileRequest, Entry, RawNode
<1>2. PICK s \in UnmarshalSources(e.sources) : r = [path |-> e.path, sources |-> s]
    BY <1>1 DEF UnmarshalFileRequest
<1>3. /\ s \in Seq(Source) /\ DOMAIN s = DOMAIN e.sources
      /\ \A i \in DOMAIN e.sources : s[i].valid = e.sources[i].valid
      /\ \A i \in DOMAIN e.sources : s[i].id = e.sources[i].id
    BY <1>1, SourcesUnmarshalled
<1>4. (\E i \in DOMAIN s : s[i].valid) = (\E i \in DOMAIN e.sources : e.sources[i].valid)
    BY <1>3, Zenon
<1>5. r.path = e.path /\ r.sources = s
    BY <1>2
<1>6. FileRequest(r) = FileRequest(e)
    BY <1>4, <1>5 DEF FileRequest
<1> DEFINE V(q) == {i \in DOMAIN q : q[i].valid}
<1>7. V(s) = V(e.sources)
    BY <1>3
<1>8. \A q : Ids(SourceAdapters(q)) = {q[i].id : i \in V(q)}
    BY DEF Ids, SourceAdapters, Restrict
<1>9. {s[i].id : i \in V(s)} = {e.sources[i].id : i \in V(e.sources)}
  <2> HIDE DEF V
  <2>1. \A i \in V(e.sources) : i \in DOMAIN e.sources
    BY DEF V
  <2> QED
    BY <1>3, <1>7, <2>1
<1> HIDE DEF V
<1>10. /\ Ids(SourceAdapters(s)) = {s[i].id : i \in V(s)}
       /\ Ids(SourceAdapters(e.sources)) = {e.sources[i].id : i \in V(e.sources)}
    BY <1>8
<1>11. Ids(SourceAdapters(s)) = Ids(SourceAdapters(e.sources))
    BY <1>9, <1>10, Zenon
<1> QED
    BY <1>5, <1>6, <1>11

(* A file's entry becomes a request if all its sources have providers. *)
LEMMA Unmarshalled ==
    ASSUME NEW e \in Entry, DOMAIN providers = {"http"}
    PROVE  UnmarshalFileRequest(e) # {} <=>
              e.decodes /\ \A j \in DOMAIN e.sources : e.sources[j].type = "http"
<1>1. \A t : GetProvider(t) = {} <=> t # "http"
    BY DEF GetProvider
<1>2. UnmarshalSources(e.sources) = {}
        <=> \E j \in DOMAIN e.sources : GetProvider(e.sources[j].type) = {}
    BY DEF UnmarshalSources
<1> QED
    BY <1>1, <1>2 DEF UnmarshalFileRequest

(* A readable entry comes last on the list of files. *)
LEMMA PendingAdd ==
    ASSUME RequestsOK, RequestsOK', Len(rawNodes) <= Len(Given), rawNodes # << >>,
           UNCHANGED nodesFile, rawNodes' = Tail(rawNodes),
           Consumed + 1 \in Readable,
           NEW r, r \in FileOK, fileRequests' = Append(fileRequests, r), From(Consumed + 1, r),
           NEW ix, Pending(ix), Complete(ix), Handled(ix) = {}
    PROVE  \E iy : Pending(iy)' /\ Complete(iy)' /\ Handled(iy)' = {}
<1> DEFINE n == Len(fileRequests)
           c == Consumed
           next == [m \in 1 .. n + 1 |-> IF m <= n THEN ix[m] ELSE c + 1]
<1>1. n \in Nat /\ Len(fileRequests') = n + 1
      /\ (\A m \in 1 .. n : fileRequests'[m] = fileRequests[m]) /\ fileRequests'[n + 1] = r
  <2>1. fileRequests \in Seq(FileOK)
    BY DEF RequestsOK
  <2> QED
    BY <2>1, AppendProperties
<1>2. c \in Nat /\ Consumed' = c + 1 /\ Given' = Given /\ Readable' = Readable
  <2>1. Given' = Given
    BY DEF Given
  <2>2. Len(rawNodes) \in Nat /\ Len(Given) \in Nat /\ Len(rawNodes') = Len(rawNodes) - 1
    <3>1. rawNodes \in Seq(Entry)
        BY DEF RequestsOK
    <3>2. Len(rawNodes) \in Nat /\ Len(Tail(rawNodes)) = Len(rawNodes) - 1
        BY <3>1
    <3> QED
        BY <3>2, GivenType
  <2> QED
    BY <2>1, <2>2 DEF Consumed, Readable
<1> HIDE DEF n, c
<1>3. \A i \in Readable : i \in Nat
    BY GivenType DEF Readable
<1>4. /\ ix \in [1 .. n -> Readable] /\ DOMAIN ix = 1 .. n
      /\ \A m \in 1 .. n : ix[m] <= c /\ From(ix[m], fileRequests[m])
      /\ \A m, k \in 1 .. n : m < k => ix[m] < ix[k]
    BY DEF Pending, n, c
<1>5. \A i, q : From(i, q)' = From(i, q)
    BY <1>2 DEF From
<1>6. c + 1 \in Readable
    BY DEF c
<1>7. next \in [1 .. n + 1 -> Readable] /\ DOMAIN next = 1 .. n + 1
      /\ (\A m \in 1 .. n : next[m] = ix[m]) /\ next[n + 1] = c + 1
    BY <1>1, <1>4, <1>6
<1> HIDE DEF next
<1>8. PICK iy : /\ iy \in [1 .. n + 1 -> Readable] /\ DOMAIN iy = 1 .. n + 1
                /\ (\A m \in 1 .. n : iy[m] = ix[m]) /\ iy[n + 1] = c + 1
    BY <1>7
<1>9. \A m \in 1 .. n + 1 : iy[m] <= c + 1 /\ From(iy[m], fileRequests'[m])
  <2> SUFFICES ASSUME NEW m \in 1 .. n + 1
               PROVE  iy[m] <= c + 1 /\ From(iy[m], fileRequests'[m])
    OBVIOUS
  <2>1. CASE m = n + 1
    BY <1>1, <1>2, <1>8, <2>1 DEF c
  <2>2. CASE m # n + 1
    <3>1. m \in 1 .. n
        BY <1>1, <2>2
    <3>2. ix[m] \in Nat /\ ix[m] <= c
        BY <1>3, <1>4, <3>1
    <3> QED
        BY <1>1, <1>2, <1>4, <1>8, <3>1, <3>2
  <2> QED
    BY <2>1, <2>2
<1>10. \A m, k \in 1 .. n + 1 : m < k => iy[m] < iy[k]
  <2> SUFFICES ASSUME NEW m \in 1 .. n + 1, NEW k \in 1 .. n + 1, m < k PROVE iy[m] < iy[k]
    OBVIOUS
  <2>1. m \in 1 .. n /\ iy[m] = ix[m] /\ ix[m] \in Nat /\ ix[m] <= c
    BY <1>1, <1>3, <1>4, <1>8
  <2>2. CASE k = n + 1
    BY <1>2, <1>8, <2>1, <2>2
  <2>3. CASE k # n + 1
    <3>1. k \in 1 .. n
        BY <1>1, <2>3
    <3> QED
        BY <1>4, <1>8, <2>1, <3>1
  <2> QED
    BY <2>2, <2>3
<1>11. Pending(iy)'
    BY <1>1, <1>2, <1>5, <1>8, <1>9, <1>10 DEF Pending
<1>12. \A i \in Readable : i <= c + 1 => \E m \in 1 .. n + 1 : iy[m] = i
  <2> SUFFICES ASSUME NEW i \in Readable, i <= c + 1 PROVE \E m \in 1 .. n + 1 : iy[m] = i
    OBVIOUS
  <2>1. CASE i = c + 1
    BY <1>1, <1>8, <2>1
  <2>2. CASE i # c + 1
    <3>1. i <= c
        BY <1>2, <1>3, <2>2
    <3>2. PICK m \in DOMAIN ix : ix[m] = i
        BY <3>1 DEF Complete, c
    <3>3. m \in 1 .. n /\ m \in 1 .. n + 1
        BY <1>1, <1>4
    <3> QED
        BY <1>8, <3>2, <3>3
  <2> QED
    BY <2>1, <2>2
<1>13. Complete(iy)'
    BY <1>2, <1>8, <1>12 DEF Complete
<1>14. Handled(iy)' = {}
  <2> SUFFICES ASSUME NEW i \in Readable, i <= c + 1, \A m \in DOMAIN iy : i < iy[m]
               PROVE  FALSE
    BY <1>2 DEF Handled
  <2>1. PICK m \in 1 .. n + 1 : iy[m] = i
    BY <1>12
  <2>2. i < i /\ i \in Nat
    BY <1>3, <1>8, <2>1
  <2> QED
    BY <2>2
<1> QED
    BY <1>11, <1>13, <1>14

(* An entry that is no readable file adds nothing to it. *)
LEMMA PendingSkip ==
    ASSUME RequestsOK, RequestsOK', Len(rawNodes) <= Len(Given), rawNodes # << >>,
           UNCHANGED <<nodesFile, fileRequests>>, rawNodes' = Tail(rawNodes),
           Consumed + 1 \notin Readable,
           NEW ix, Pending(ix), Complete(ix), Handled(ix) = {}
    PROVE  Pending(ix)' /\ Complete(ix)' /\ Handled(ix)' = {}
<1> DEFINE c == Consumed
<1>1. c \in Nat /\ Consumed' = c + 1 /\ Given' = Given /\ Readable' = Readable
  <2>1. Given' = Given
    BY DEF Given
  <2>2. Len(rawNodes) \in Nat /\ Len(Given) \in Nat /\ Len(rawNodes') = Len(rawNodes) - 1
    <3>1. rawNodes \in Seq(Entry)
        BY DEF RequestsOK
    <3>2. Len(rawNodes) \in Nat /\ Len(Tail(rawNodes)) = Len(rawNodes) - 1
        BY <3>1
    <3> QED
        BY <3>2, GivenType
  <2> QED
    BY <2>1, <2>2 DEF Consumed, Readable
<1>2. c + 1 \notin Readable
    OBVIOUS
<1>3. \A i \in Readable : i \in Nat
    BY GivenType DEF Readable
<1>4. Pending(ix) /\ Complete(ix) /\ Handled(ix) = {} /\ c = Consumed
    OBVIOUS
<1> HIDE DEF c
<1>5. \A i \in Readable : i <= c + 1 <=> i <= c
    BY <1>2, <1>1, <1>3
<1>6. \A i, q : From(i, q)' = From(i, q)
    BY <1>1 DEF From
<1>7. Pending(ix)'
  <2>1. /\ ix \in [1 .. Len(fileRequests) -> Readable]
        /\ \A m \in 1 .. Len(fileRequests) : ix[m] <= c /\ From(ix[m], fileRequests[m])
        /\ \A m, n \in 1 .. Len(fileRequests) : m < n => ix[m] < ix[n]
    BY <1>4 DEF Pending
  <2>2. \A m \in 1 .. Len(fileRequests) : ix[m] <= c + 1
    BY <1>5, <2>1
  <2> QED
    BY <1>1, <1>6, <2>1, <2>2 DEF Pending
<1>8. Handled(ix)' = {}
    BY <1>1, <1>4, <1>5 DEF Handled
<1>9. Complete(ix)'
    BY <1>1, <1>4, <1>5, <1>8 DEF Complete
<1> QED
    BY <1>7, <1>8, <1>9

(* When the nodes file is opened nothing is read yet. *)
LEMMA LoadConfigure ==
    ASSUME RequestsOK, TypeOK, TypeOK', LoadInv, Configure
    PROVE  LoadInv'
<1>0. CASE phase' = "failed"
    BY <1>0 DEF Configure, LoadInv, Loading
<1> SUFFICES ASSUME phase' # "failed" PROVE LoadInv'
    BY <1>0
<1>1. /\ phase = "start" /\ phase' = "parse" /\ UNCHANGED <<kind, nodesFile, pool>>
      /\ dirRequests' = << >> /\ fileRequests' = << >> /\ DOMAIN pool = Inos
      /\ \A i \in Inos : kind[i] # "file"
    BY DEF Configure, LoadInv, StartOK, vars, nodeVars
<1>2. DOMAIN providers' = {"http"}
    BY DEF Configure, LoadInv, StartOK, RegisterBuiltins, Register
<1>3. Given' = Given /\ rawNodes' = Given
    BY DEF Configure, Given
<1>4. Len(Given) \in Nat /\ DOMAIN Given = 1 .. Len(Given)
    BY GivenType
<1>5. Consumed' = 0
    BY <1>3, <1>4 DEF Consumed
<1>6. \A i \in DOMAIN Given : i \in Nat /\ ~(i <= 0) /\ 0 + i = i
    BY <1>4
<1>7. ReadOK'
    BY <1>1, <1>2, <1>3, <1>4, <1>5, <1>6 DEF ReadOK
<1>8. DirsOK'
    BY <1>3, <1>5, <1>6 DEF DirsOK, DirEntries
<1>9. NoFiles' /\ NewPool'
    BY <1>1 DEF NoFiles, NewPool
<1>10. FilesOK'
  <2>1. Readable' \subseteq DOMAIN Given
    BY <1>3 DEF Readable
  <2>2. PICK ix : ix \in [1 .. 0 -> Readable'] /\ DOMAIN ix = {}
    <3>1. [m \in 1 .. 0 |-> 0] \in [1 .. 0 -> Readable'] /\ DOMAIN [m \in 1 .. 0 |-> 0] = {}
        OBVIOUS
    <3> QED
        BY <3>1
  <2>3. Len(fileRequests') = 0
    BY <1>1
  <2>4. Pending(ix)'
    BY <2>2, <2>3 DEF Pending
  <2>5. Complete(ix)' /\ Handled(ix)' = {}
    BY <1>5, <1>6, <2>1 DEF Complete, Handled
  <2>6. HandledOK({})' /\ PoolsOK({})'
    BY <1>1 DEF TypeOK, HandledOK, PoolsOK
  <2> QED
    BY <2>4, <2>5, <2>6 DEF FilesOK
<1> QED
    BY <1>1, <1>7, <1>8, <1>9, <1>10 DEF LoadInv

(* The entry that is read next. *)
LEMMA NextEntry ==
    ASSUME RequestsOK, ReadOK, rawNodes # << >>
    PROVE  /\ Consumed \in Nat /\ Consumed + 1 \in DOMAIN Given
           /\ Head(rawNodes) = Given[Consumed + 1]
           /\ Len(Tail(rawNodes)) \in Nat
           /\ Len(Tail(rawNodes)) + 1 = Len(rawNodes) /\ Len(rawNodes) <= Len(Given)
           /\ Len(Given) \in Nat
           /\ \A m \in DOMAIN Tail(rawNodes) :
                m \in Nat /\ Tail(rawNodes)[m] = Given[(Consumed + 1) + m]
<1>1. /\ Len(rawNodes) \in Nat /\ DOMAIN rawNodes = 1 .. Len(rawNodes)
      /\ Len(rawNodes) # 0 /\ Head(rawNodes) = rawNodes[1]
      /\ Len(Tail(rawNodes)) \in Nat
      /\ Len(Tail(rawNodes)) = Len(rawNodes) - 1
      /\ DOMAIN Tail(rawNodes) = 1 .. Len(rawNodes) - 1
      /\ \A m \in 1 .. Len(rawNodes) - 1 : Tail(rawNodes)[m] = rawNodes[m + 1]
    BY DEF RequestsOK
<1>2. Len(Given) \in Nat /\ DOMAIN Given = 1 .. Len(Given)
    BY GivenType
<1>3. /\ Len(rawNodes) <= Len(Given)
      /\ \A m \in DOMAIN rawNodes : rawNodes[m] = Given[Consumed + m]
    BY DEF ReadOK
<1>4. Consumed \in Nat /\ Consumed + 1 \in 1 .. Len(Given)
    BY <1>1, <1>2, <1>3 DEF Consumed
<1>5. Head(rawNodes) = Given[Consumed + 1]
    BY <1>1, <1>3
<1>6. ASSUME NEW m \in 1 .. Len(rawNodes) - 1
      PROVE  m \in Nat /\ Tail(rawNodes)[m] = Given[(Consumed + 1) + m]
  <2>1. m \in Nat /\ m + 1 \in 1 .. Len(rawNodes) /\ Consumed + (m + 1) = (Consumed + 1) + m
    BY <1>1, <1>4
  <2> QED
    BY <1>1, <1>3, <2>1
<1> QED
    BY <1>1, <1>2, <1>3, <1>4, <1>5, <1>6

(* Reading an entry puts its request on a list, or passes it over. *)
LEMMA LoadParse ==
    ASSUME RequestsOK, RequestsOK', TypeOK, TypeOK', LoadInv, Parse
    PROVE  LoadInv'
<1>1. /\ phase = "parse" /\ phase' \in {"parse", "load"}
      /\ UNCHANGED <<kind, children, pc, new, nodesFile, providers, pool>>
      /\ ReadOK /\ DirsOK /\ NoFiles /\ FilesOK /\ DOMAIN pool = Inos
    BY DEF Parse, LoadInv, Loading, vars, nodeVars, startVars
<1>2. Given' = Given /\ (\A i : At(i)' = At(i)) /\ DirEntries' = DirEntries
      /\ Readable' = Readable
  <2>1. Given' = Given
    BY <1>1 DEF Given
  <2> QED
    BY <1>1, <2>1, AtSame DEF DirEntries, Readable
<1>3. \A i \in Inos : kind[i] # "file" /\ kind'[i] # "file"
    BY <1>1 DEF NoFiles
<1>4. NoFiles' /\ NewPool'
  <2>1. pc'[Main] = "idle" \/ phase' # "load"
    BY <1>1 DEF RequestsOK, Current
  <2> QED
    BY <1>3, <2>1 DEF NoFiles, NewPool, Adding, Building
<1>5. PICK ix : Pending(ix) /\ Complete(ix) /\ Handled(ix) = {}
    BY <1>1 DEF FilesOK
<1>6. ASSUME NEW iy, Pending(iy)', Complete(iy)', Handled(iy)' = {}
      PROVE  FilesOK'
  <2>1. HandledOK({})' /\ PoolsOK({})'
    BY <1>3 DEF TypeOK, HandledOK, PoolsOK
  <2> QED
    BY <1>6, <2>1 DEF FilesOK
<1>7. CASE rawNodes = << >>
  <2>1. UNCHANGED <<rawNodes, dirRequests, fileRequests>> /\ phase' = "load"
    BY <1>7 DEF Parse
  <2>2. Consumed' = Consumed
    BY <1>2, <2>1 DEF Consumed
  <2>3. ReadOK'
    BY <1>1, <1>2, <1>7, <2>1, <2>2 DEF ReadOK
  <2>4. DirsOK'
    BY <1>1, <1>2, <2>1, <2>2 DEF DirsOK
  <2>5. Pending(ix)' /\ Complete(ix)' /\ Handled(ix)' = {}
    <3>1. \A i, q : From(i, q)' = From(i, q)
        BY <1>2 DEF From
    <3>2. Pending(ix)'
        BY <1>2, <1>5, <2>1, <2>2, <3>1 DEF Pending
    <3>3. Handled(ix)' = {}
        BY <1>2, <1>5, <2>2 DEF Handled
    <3>4. Complete(ix)'
        BY <1>2, <1>5, <2>2, <3>3 DEF Complete
    <3> QED
        BY <3>2, <3>3, <3>4
  <2> QED
    BY <1>1, <1>4, <1>6, <2>1, <2>3, <2>4, <2>5 DEF LoadInv
<1>8. CASE rawNodes # << >>
  <2>1. PICK e \in Entry : e = Head(rawNodes)
    BY <1>8 DEF RequestsOK
  <2>2. /\ fileRequests' = IF e.type = "file"
                             THEN AppendAll(fileRequests, UnmarshalFileRequest(e))
                             ELSE fileRequests
        /\ dirRequests' = IF e.type = "dir"
                            THEN AppendAll(dirRequests, UnmarshalDirRequest(e))
                            ELSE dirRequests
        /\ rawNodes' = Tail(rawNodes) /\ phase' = "parse"
    BY <1>1, <1>8, <2>1 DEF Parse
  <2> DEFINE c == Consumed
  <2>3. /\ c \in Nat /\ c + 1 \in DOMAIN Given /\ e = Given[c + 1]
        /\ Len(rawNodes') \in Nat /\ Len(rawNodes') + 1 = Len(rawNodes)
        /\ Len(rawNodes) <= Len(Given) /\ Len(Given) \in Nat
        /\ \A m \in DOMAIN rawNodes' : rawNodes'[m] = Given[(c + 1) + m]
    BY <1>1, <1>8, <2>1, <2>2, NextEntry
  <2>4. Consumed' = c + 1
    BY <1>2, <2>3 DEF Consumed
  <2>5. ReadOK'
    <3>1. Len(rawNodes') <= Len(Given)
        BY <2>3
    <3> HIDE DEF c
    <3> QED
        BY <1>1, <1>2, <2>2, <2>3, <2>4, <3>1 DEF ReadOK
  <2>6. DirsOK'
    <3> SUFFICES ASSUME NEW i \in DirEntries, i <= c + 1
                 PROVE  \/ \E m \in DOMAIN dirRequests' : dirRequests'[m].path = Given[i].path
                        \/ At(i) # NoIno /\ kind'[At(i)] = "dir"
        BY <1>2, <2>4 DEF DirsOK
    <3>1. i \in Nat /\ i \in DOMAIN Given /\ Given[i].type = "dir" /\ Given[i].decodes
        BY GivenType DEF DirEntries
    <3>2. dirRequests \in Seq(DirOK) /\ dirRequests' \in Seq(DirOK)
        BY DEF RequestsOK
    <3>3. ASSUME UnmarshalDirRequest(e) # {}, e.type = "dir"
          PROVE  /\ dirRequests' = Append(dirRequests, [path |-> e.path])
                 /\ [path |-> e.path] \in DirOK
      <4>1. UnmarshalDirRequest(e) = {[path |-> e.path]}
        BY <3>3 DEF UnmarshalDirRequest
      <4>2. [path |-> e.path] \in DirOK
        BY <3>3, <4>1, DirUnmarshalled
      <4> QED
        BY <2>2, <3>3, <4>1, <4>2 DEF AppendAll
    <3>4. CASE i = c + 1
      <4>1. UnmarshalDirRequest(e) # {} /\ e.type = "dir"
        BY <2>3, <3>1, <3>4 DEF UnmarshalDirRequest
      <4>2. PICK q \in DirOK : q = [path |-> e.path] /\ dirRequests' = Append(dirRequests, q)
        BY <3>3, <4>1
      <4>3. Len(dirRequests) + 1 \in DOMAIN dirRequests' /\ dirRequests'[Len(dirRequests) + 1] = q
        BY <3>2, <4>2, AppendProperties
      <4> QED
        BY <2>3, <3>4, <4>2, <4>3
    <3>5. CASE i # c + 1
      <4>1. i <= c
        BY <2>3, <3>1, <3>5
      <4>2. CASE At(i) # NoIno /\ kind[At(i)] = "dir"
        BY <1>1, <4>2
      <4>3. ASSUME NEW m \in DOMAIN dirRequests, dirRequests[m].path = Given[i].path
            PROVE  \E k \in DOMAIN dirRequests' : dirRequests'[k].path = Given[i].path
        <5>1. m \in DOMAIN dirRequests' /\ dirRequests'[m] = dirRequests[m]
          <6>1. CASE UnmarshalDirRequest(e) # {} /\ e.type = "dir"
            <7>1. PICK q \in DirOK : dirRequests' = Append(dirRequests, q)
                BY <3>3, <6>1
            <7> QED
                BY <3>2, <4>3, <7>1, AppendProperties
          <6>2. CASE ~(UnmarshalDirRequest(e) # {} /\ e.type = "dir")
            BY <2>2, <4>3, <6>2 DEF AppendAll
          <6> QED
            BY <6>1, <6>2
        <5> QED
            BY <4>3, <5>1
      <4> QED
        BY <1>1, <4>1, <4>2, <4>3 DEF DirsOK
    <3> QED
        BY <3>4, <3>5
  <2>7. FilesOK'
    <3>1. CASE c + 1 \in Readable
      <4>1. /\ e.type = "file" /\ e.decodes
            /\ \A j \in DOMAIN e.sources : e.sources[j].type = "http"
        BY <2>3, <3>1 DEF Readable
      <4>2. UnmarshalFileRequest(e) # {}
        BY <1>1, <4>1, Unmarshalled DEF ReadOK
      <4>3. PICK r \in UnmarshalFileRequest(e) : fileRequests' = Append(fileRequests, r)
        BY <2>2, <4>1, <4>2 DEF AppendAll
      <4>4. r \in FileOK /\ From(c + 1, r)
        BY <2>3, <4>1, FileUnmarshalled, SameAdapters DEF From
      <4>5. \E iy : Pending(iy)' /\ Complete(iy)' /\ Handled(iy)' = {}
        BY <1>1, <1>5, <1>8, <2>2, <2>3, <3>1, <4>3, <4>4, PendingAdd
      <4> QED
        BY <1>6, <4>5
    <3>2. CASE c + 1 \notin Readable
      <4>1. ~(e.type = "file" /\ UnmarshalFileRequest(e) # {})
        BY <1>1, <2>3, <3>2, Unmarshalled DEF ReadOK, Readable
      <4>2. fileRequests' = fileRequests
        BY <2>2, <4>1 DEF AppendAll
      <4>3. Pending(ix)' /\ Complete(ix)' /\ Handled(ix)' = {}
        BY <1>1, <1>5, <1>8, <2>2, <2>3, <3>2, <4>2, PendingSkip
      <4> QED
        BY <1>6, <4>3
    <3> QED
        BY <3>1, <3>2
  <2> QED
    BY <1>1, <1>4, <2>2, <2>5, <2>6, <2>7 DEF LoadInv
<1> QED
    BY <1>7, <1>8

-----------------------------------------------------------------------------
(* Making its nodes. *)

(* At the end of its walk a call stands at its directory. *)
LEMMA WalkedTo ==
    ASSUME NEW t \in Threads, Found(t), Walking(t), todo[t] = << >>, req[t] \in Reqs,
           cur[t] \in Inos
    PROVE  Follow(DirPath(req[t]), {EmptyName}) = cur[t]
<1>1. PICK done \in Seq(Comps) : done \o todo[t] = DirPath(req[t])
                                 /\ Follow(done, {EmptyName}) = cur[t]
    BY DEF Found
<1>2. done = DirPath(req[t])
    BY <1>1, NothingLeft
<1> QED
    BY <1>1, <1>2

(* When AddDirNode returns, its path leads to a node. *)
LEMMA ReturnsDir ==
    ASSUME IndInv, SoloInv, NoTake, NEW t \in Threads, Found(t), Step(t),
           pc'[t] = "idle", req[t].op = "AddDirNode"
    PROVE  UNCHANGED <<children, kind>> /\ req[t] \in Reqs /\ Resolve(req[t]) = cur[t]
           /\ cur[t] \in Inos
<1>0. TypeOK /\ RequestOK(t) /\ SoloOK(t) /\ ~RemoveChildTake(t)
    BY DEF IndInv, SoloInv, NoTake
<1>1. ~MkDir(t) /\ ~AddChildTake(t) /\ ~AddChildStore(t)
    BY <1>0 DEF MkDir, NewNode, AddChildTake, AddChildStore, Goto, TypeOK
<1>2. ~Check(t) /\ ~Create(t)
    BY <1>0 DEF Check, Create, RequestOK
<1>3. ~DelNode(t) /\ ~RemoveChildUnlink(t)
    BY <1>0 DEF DelNode, RemoveChildUnlink, Goto, SoloOK, TypeOK
<1>4. ~AddChildLink(t)
    BY <1>0 DEF AddChildLink, LinkTo, Added, Goto, SoloOK, TypeOK
<1>5. Walk(t)
    BY <1>0, <1>1, <1>2, <1>3, <1>4 DEF Step
<1>6. pc[t] = "walk" /\ todo[t] = << >> /\ UNCHANGED <<children, kind>>
    BY <1>0, <1>5 DEF Walk, Goto, TypeOK, nodeVars
<1>7. Walking(t) /\ req[t] \in Reqs /\ cur[t] \in Inos
    BY <1>0, <1>6 DEF Walking, RequestOK
<1>8. Follow(DirPath(req[t]), {EmptyName}) = cur[t]
    BY <1>6, <1>7, WalkedTo
<1> QED
    BY <1>6, <1>7, <1>8 DEF DirPath, Resolve

(* When AddFileNode returns and had an adapter, its path leads to a node:  *)
(* to one that was there, or to the one it has made.                       *)
LEMMA ReturnsFile ==
    ASSUME IndInv, SoloInv, NoTake, WalkInv, WalkInv', NEW t \in Threads, Step(t),
           pc'[t] = "idle", NEW r \in Reqs, r = req[t], r.op = "AddFileNode"
    PROVE  /\ UNCHANGED <<children, kind>>
           /\ r.adapter => Resolve(r)' # NoIno
           /\ pc[t] = "link" => Resolve(r)' = new[t]
<1>0. TypeOK /\ RequestOK(t) /\ NewOK(t) /\ SoloOK(t) /\ ~RemoveChildTake(t) /\ Found(t)
      /\ NoIno \notin Inos
    BY InosFacts DEF IndInv, SoloInv, NoTake, WalkInv
<1>1. ~MkDir(t) /\ ~AddChildTake(t) /\ ~AddChildStore(t)
    BY <1>0 DEF MkDir, NewNode, AddChildTake, AddChildStore, Goto, TypeOK
<1>2. ~Walk(t)
    BY <1>0 DEF Walk, Goto, TypeOK
<1>3. ~DelNode(t) /\ ~RemoveChildUnlink(t)
    BY <1>0 DEF DelNode, RemoveChildUnlink, Goto, SoloOK, TypeOK
<1>4. CASE Check(t)
  <2>1. /\ pc[t] = "check" /\ children[cur[t]][Last(req[t].path)] # NoIno
        /\ UNCHANGED <<children, kind>>
    BY <1>0, <1>4 DEF Check, Goto, TypeOK, nodeVars
  <2>2. Walking(t) /\ req[t] \in Reqs /\ cur[t] \in Inos /\ todo[t] = << >>
    BY <1>0, <2>1 DEF Walking, RequestOK, SoloOK
  <2>3. Follow(DirPath(req[t]), {EmptyName}) = cur[t]
    BY <1>0, <2>2, WalkedTo
  <2>4. Resolve(req[t]) # NoIno
    BY <1>0, <2>1, <2>2, <2>3 DEF DirPath, Resolve
  <2>5. Resolve(r)' = Resolve(r)
    BY <2>1 DEF Resolve, Follow
  <2> QED
    BY <2>1, <2>4, <2>5
<1>5. CASE Create(t)
    BY <1>0, <1>5 DEF Create, NewNode, Goto, TypeOK, RequestOK, nodeVars
<1>6. CASE AddChildLink(t)
  <2>1. /\ pc[t] = "link" /\ kind[new[t]] # "dir" /\ UNCHANGED <<children, kind>>
        /\ <<req[t], new[t]>> \in results'
    BY <1>0, <1>6 DEF AddChildLink, LinkTo, Added, ReturnOK, Goto, TypeOK
  <2>2. req[t] \in Reqs /\ new[t] \in Inos
    BY <1>0, <2>1 DEF RequestOK, NewOK, Adding
  <2>3. PICK n \in Inos : n = new[t]
    BY <2>2
  <2>4. Resolve(r)' = n
    <3>1. PICK res \in results' : res = <<r, n>>
        BY <2>1, <2>3
    <3>2. res[1].op # "Del" /\ res[1] = r /\ res[2] = n
        BY <3>1
    <3>3. Resolve(res[1])' = res[2]
        BY <3>1, <3>2 DEF WalkInv, ResultsOK
    <3> QED
        BY <3>2, <3>3
  <2> QED
    BY <1>0, <2>1, <2>3, <2>4
<1> QED
    BY <1>0, <1>1, <1>2, <1>3, <1>4, <1>5, <1>6 DEF Step

(* What a step of loading leaves alone. *)
LEMMA LoadStepNodes ==
    ASSUME IndInv, SoloInv, NoTake, TypeOK', RequestsOK, DOMAIN pool = Inos, LoadStep
    PROVE  /\ Main \in Threads /\ Step(Main) /\ phase = "load" /\ phase' = "load"
           /\ UNCHANGED <<nodesFile, rawNodes, providers>> /\ DOMAIN pool' = Inos
           /\ \A i \in Inos : i <= lastIno => kind'[i] = kind[i] /\ pool'[i] = pool[i]
           /\ UNCHANGED children \/ AddChildStore(Main)
           /\ pc[Main] # "idle" /\ (pc'[Main] # "idle" => req'[Main] = req[Main])
<1>0. Main \in Threads /\ Step(Main) /\ TypeOK
    BY LoaderConstants DEF LoadStep, IndInv
<1>1. /\ lastIno \in Nat
      /\ \A i \in Inos : i <= lastIno => kind'[i] = kind[i]
      /\ UNCHANGED children \/ AddChildStore(Main)
    BY <1>0, NodesStep
<1>2. pc[Main] = "create" /\ pc'[Main] = "take" => lastIno' = lastIno + 1
    BY <1>0 DEF Step, Walk, MkDir, Check, Create, AddChildTake, AddChildStore, DelNode,
         AddChildLink, LinkTo, RemoveChildTake, RemoveChildUnlink, NewNode
<1>3. /\ DOMAIN pool' = Inos
      /\ \A i \in Inos : i <= lastIno => pool'[i] = pool[i]
  <2>1. CASE pc[Main] = "create" /\ pc'[Main] = "take"
    <3>1. pool' = [pool EXCEPT ![lastIno + 1] = SourceAdapters(Head(fileRequests).sources)]
        BY <1>2, <2>1 DEF LoadStep
    <3>2. \A i \in Inos : i <= lastIno => i # lastIno + 1
        BY <1>1, InosFacts
    <3> QED
        BY <3>1, <3>2
  <2>2. CASE ~(pc[Main] = "create" /\ pc'[Main] = "take")
    BY <2>2 DEF LoadStep
  <2> QED
    BY <2>1, <2>2
<1>4. pc[Main] # "idle" /\ (pc'[Main] # "idle" => req'[Main] = req[Main])
    BY <1>0, StepKeepsRequest
<1> QED
    BY <1>0, <1>1, <1>3, <1>4 DEF LoadStep, startVars

(* While there are directories to make, main is making one. *)
LEMMA DirsFirst ==
    ASSUME RequestsOK, phase = "load", pc[Main] # "idle"
    PROVE  /\ dirRequests # << >> =>
                /\ req[Main].op = "AddDirNode" /\ req[Main] = DirRequest(Head(dirRequests))
           /\ dirRequests = << >> =>
                /\ req[Main].op = "AddFileNode" /\ fileRequests # << >>
                /\ req[Main] = FileRequest(Head(fileRequests))
  BY DEF RequestsOK, Current, DirRequest, FileRequest

(* No file is made before the last directory. *)
LEMMA LoadStepNoFiles ==
    ASSUME IndInv, SoloInv, NoTake, TypeOK', RequestsOK, LoadInv, LoadStep
    PROVE  NoFiles'
<1> SUFFICES ASSUME dirRequests' # << >>, NEW i \in Inos PROVE kind'[i] # "file"
  <2>1. phase' = "load"
    BY LoadStepNodes DEF LoadInv
  <2> QED
    BY <2>1 DEF NoFiles
<1>1. /\ Main \in Threads /\ Step(Main) /\ phase = "load" /\ pc[Main] # "idle"
      /\ TypeOK /\ RequestOK(Main)
    BY LoadStepNodes DEF LoadInv, IndInv
<1>2. dirRequests # << >>
    BY <1>1, DirsFirst DEF LoadStep
<1>3. kind[i] # "file" /\ req[Main].op = "AddDirNode"
    BY <1>1, <1>2, DirsFirst DEF LoadInv, Loading, NoFiles
<1>4. ~Create(Main)
    BY <1>1, <1>3 DEF Create, RequestOK
<1>5. CASE MkDir(Main)
    BY <1>1, <1>3, <1>5 DEF MkDir, NewNode, TypeOK
<1>6. CASE ~MkDir(Main)
  <2>1. UNCHANGED kind
    BY <1>1, <1>4, <1>6 DEF Step, Walk, Check, AddChildTake, AddChildStore, DelNode,
         AddChildLink, LinkTo, RemoveChildTake, RemoveChildUnlink, nodeVars
  <2> QED
    BY <1>3, <2>1
<1> QED
    BY <1>5, <1>6

(* A new file has the adapters of the request at hand. *)
LEMMA LoadStepNewPool ==
    ASSUME IndInv, SoloInv, NoTake, TypeOK', RequestsOK, LoadInv, LoadStep
    PROVE  NewPool'
<1> SUFFICES ASSUME Adding(Main)', kind'[new'[Main]] = "file"
             PROVE  req'[Main].adapter /\ PoolOf(new[Main], Head(fileRequests).sources)'
    BY DEF NewPool
<1>1. /\ Main \in Threads /\ Step(Main) /\ phase = "load" /\ pc[Main] # "idle"
      /\ TypeOK /\ RequestOK(Main) /\ NewOK(Main) /\ SoloOK(Main)
      /\ (pc'[Main] # "idle" => req'[Main] = req[Main])
      /\ \A i \in Inos : i <= lastIno => kind'[i] = kind[i] /\ pool'[i] = pool[i]
    BY LoadStepNodes DEF LoadInv, IndInv, SoloInv
<1>2. pc'[Main] # "idle" /\ UNCHANGED fileRequests /\ req'[Main] = req[Main]
    BY <1>1 DEF LoadStep, Adding, Building
<1>3. \/ new'[Main] = lastIno + 1 /\ lastIno' = lastIno + 1
      \/ Adding(Main) /\ new'[Main] = new[Main] /\ lastIno' = lastIno
    BY <1>1, NodesStep
<1>4. CASE Adding(Main) /\ new'[Main] = new[Main]
  <2>1. new[Main] \in Inos /\ new[Main] <= lastIno
    BY <1>1, <1>4 DEF NewOK
  <2>2. kind[new[Main]] = "file" /\ pool'[new[Main]] = pool[new[Main]]
    BY <1>1, <1>4, <2>1
  <2>3. req[Main].adapter /\ PoolOf(new[Main], Head(fileRequests).sources)
    BY <1>1, <1>4, <2>2 DEF LoadInv, Loading, NewPool
  <2> QED
    BY <1>2, <1>4, <2>2, <2>3 DEF PoolOf
<1>5. CASE new'[Main] = lastIno + 1 /\ lastIno' = lastIno + 1
  <2>1. lastIno \in Nat /\ lastIno' \in Inos
    BY <1>1, InosFacts DEF TypeOK
  <2>2. CASE Create(Main)
    <3>1. pc[Main] = "create" /\ pc'[Main] = "take" /\ req[Main].adapter
        BY <1>1, <1>2, <2>2 DEF Create, NewNode, Return, Goto, TypeOK
    <3>2. pool' = [pool EXCEPT ![lastIno'] = SourceAdapters(Head(fileRequests).sources)]
        BY <3>1 DEF LoadStep
    <3>3. pool'[lastIno'] = SourceAdapters(Head(fileRequests).sources)
        BY <2>1, <3>2 DEF LoadInv
    <3> QED
        BY <1>2, <1>5, <3>1, <3>3 DEF PoolOf
  <2>3. CASE MkDir(Main)
    <3>1. kind'[new'[Main]] = "dir"
        BY <1>1, <1>5, <2>1, <2>3 DEF MkDir, NewNode, TypeOK
    <3> QED
        BY <3>1
  <2>4. CASE ~Create(Main) /\ ~MkDir(Main)
    <3>1. lastIno' = lastIno
        BY <1>1, <2>4 DEF Step, Walk, Check, AddChildTake, AddChildStore, DelNode,
         AddChildLink, LinkTo, RemoveChildTake, RemoveChildUnlink
    <3> QED
        BY <1>5, <2>1, <3>1
  <2> QED
    BY <2>2, <2>3, <2>4
<1> QED
    BY <1>3, <1>4, <1>5

(* A directory is there when its request is done, and stays. *)
LEMMA LoadStepDirs ==
    ASSUME IndInv, SoloInv, NoTake, TypeOK', Grows, RequestsOK, WalkInv, PlaceInv, LoadInv, LoadStep
    PROVE  DirsOK'
<1>1. /\ Main \in Threads /\ Step(Main) /\ phase = "load" /\ pc[Main] # "idle"
      /\ UNCHANGED <<nodesFile, rawNodes>> /\ TypeOK /\ Found(Main)
      /\ \A i \in Inos : i <= lastIno => kind'[i] = kind[i]
    BY LoadStepNodes DEF LoadInv, IndInv, WalkInv
<1>2. Given' = Given /\ Consumed' = Consumed /\ DirEntries' = DirEntries
  <2>1. Given' = Given
    BY <1>1 DEF Given
  <2> QED
    BY <1>1, <2>1 DEF Consumed, DirEntries
<1> SUFFICES ASSUME NEW i \in DirEntries, i <= Consumed
             PROVE  \/ \E m \in DOMAIN dirRequests' : dirRequests'[m].path = Given[i].path
                    \/ At(i)' # NoIno /\ kind'[At(i)'] = "dir"
    BY <1>2 DEF DirsOK
<1>3. \/ \E m \in DOMAIN dirRequests : dirRequests[m].path = Given[i].path
      \/ At(i) # NoIno /\ kind[At(i)] = "dir"
    BY <1>1 DEF LoadInv, Loading, DirsOK
<1>4. CASE At(i) # NoIno /\ kind[At(i)] = "dir"
  <2>1. At(i)' = At(i)
    BY <1>1, <1>4, AtStays
  <2>2. At(i) \in Inos /\ At(i) <= lastIno
    BY <1>4, AtThere
  <2> QED
    BY <1>1, <1>4, <2>1, <2>2
<1>5. ASSUME NEW m \in DOMAIN dirRequests, dirRequests[m].path = Given[i].path
      PROVE  \/ \E k \in DOMAIN dirRequests' : dirRequests'[k].path = Given[i].path
             \/ At(i)' # NoIno /\ kind'[At(i)'] = "dir"
  <2>1. CASE UNCHANGED dirRequests
    BY <1>5, <2>1
  <2>2. CASE ~UNCHANGED dirRequests
    <3>1. pc'[Main] = "idle" /\ req[Main].op = "AddDirNode" /\ dirRequests' = Tail(dirRequests)
        BY <2>2 DEF LoadStep
    <3>2. dirRequests \in Seq(DirOK)
        BY DEF RequestsOK
    <3>3. /\ dirRequests # << >> /\ Head(dirRequests) = dirRequests[1] /\ Len(dirRequests) \in Nat
          /\ DOMAIN dirRequests = 1 .. Len(dirRequests)
          /\ DOMAIN Tail(dirRequests) = 1 .. Len(dirRequests) - 1
          /\ \A k \in 1 .. Len(dirRequests) - 1 : Tail(dirRequests)[k] = dirRequests[k + 1]
        BY <1>5, <3>2
    <3>4. CASE m # 1
      <4>1. m - 1 \in 1 .. Len(dirRequests) - 1 /\ (m - 1) + 1 = m
        BY <1>5, <3>3, <3>4
      <4>2. dirRequests'[m - 1] = dirRequests[m]
        BY <3>1, <3>3, <4>1
      <4> QED
        BY <1>5, <3>1, <3>3, <4>1, <4>2
    <3>5. CASE m = 1
      <4>1. UNCHANGED <<children, kind>> /\ req[Main] \in Reqs /\ Resolve(req[Main]) = cur[Main]
            /\ cur[Main] \in Inos
        BY <1>1, <3>1, ReturnsDir
      <4>2. req[Main] = DirRequest(dirRequests[1])
        BY <1>1, <3>3, DirsFirst
      <4>3. Given[i].type = "dir" /\ Given[i].path = req[Main].path
        BY <1>5, <3>5, <4>2 DEF DirEntries, DirRequest
      <4>4. At(i) = Resolve(req[Main])
        BY <3>1, <4>3 DEF At, Resolve
      <4>5. At(i)' = At(i) /\ At(i) # NoIno
        BY <1>1, <4>1, <4>4, AtSame, InosFacts
      <4>6. kind[At(i)] \in {"dir", "file"} /\ At(i) \in Inos
        BY <4>5, AtThere
      <4>7. kind[At(i)] # "file"
        BY <1>1, <3>3, <4>6 DEF LoadInv, Loading, NoFiles
      <4> QED
        BY <4>1, <4>5, <4>6, <4>7
    <3> QED
        BY <3>4, <3>5
  <2> QED
    BY <2>1, <2>2
<1> QED
    BY <1>3, <1>4, <1>5

(* While main makes nodes, the entries stay and all are read. *)
LEMMA EntriesStay ==
    ASSUME RequestsOK, UNCHANGED <<nodesFile, rawNodes>>, rawNodes = << >>
    PROVE  /\ Given' = Given /\ Consumed' = Consumed /\ Readable' = Readable
           /\ FileEntries' = FileEntries /\ (\A i, q : From(i, q)' = From(i, q))
           /\ FileEntries \subseteq Readable
           /\ \A i \in Readable : i \in Nat /\ i <= Consumed
<1>1. Given' = Given
    BY DEF Given
<1>2. Len(Given) \in Nat /\ DOMAIN Given = 1 .. Len(Given)
    BY GivenType
<1>3. Consumed = Len(Given)
    BY <1>2 DEF Consumed
<1>4. \A i \in Readable : i \in 1 .. Len(Given)
    BY <1>2 DEF Readable
<1>5. \A i \in Readable : i \in Nat /\ i <= Consumed
    BY <1>2, <1>3, <1>4
<1>6. FileEntries \subseteq Readable
    BY DEF FileEntries, Readable
<1> QED
    BY <1>1, <1>5, <1>6 DEF Consumed, Readable, FileEntries, From

(* A file keeps the entry that it got its adapters from: entries that are  *)
(* still to come are behind it.                                            *)
LEMMA FirstStays ==
    ASSUME RequestsOK, TypeOK, TypeOK', Grows, UNCHANGED <<nodesFile, rawNodes>>,
           rawNodes = << >>,
           NEW ix, Pending(ix), Complete(ix), HandledOK(Handled(ix)),
           NEW f \in Inos, f # NoIno, pool'[f] = pool[f],
           NEW j \in Handled(ix) \cap FileEntries, FirstOf(f, j)
    PROVE  FirstOf(f, j)'
<1>1. /\ Given' = Given /\ FileEntries' = FileEntries /\ FileEntries \subseteq Readable
      /\ \A i \in Readable : i \in Nat /\ i <= Consumed
    BY EntriesStay
<1>2. At(j)' = f /\ PoolOf(f, Given[j].sources)'
  <2>1. At(j) = f /\ PoolOf(f, Given[j].sources)
    BY DEF FirstOf
  <2>2. At(j)' = At(j)
    BY <2>1, AtStays
  <2> QED
    BY <1>1, <2>1, <2>2 DEF PoolOf
<1>3. ASSUME NEW k \in FileEntries, At(k)' = f PROVE j <= k
  <2>1. CASE At(k) # NoIno
    <3>1. At(k) = f
        BY <1>3, <2>1, AtStays
    <3> QED
        BY <3>1 DEF FirstOf
  <2>2. CASE At(k) = NoIno
    <3>1. k \in Readable /\ k <= Consumed /\ k \in Nat /\ j \in Nat
        BY <1>1
    <3>2. k \notin Handled(ix)
        BY <2>2 DEF HandledOK
    <3>3. PICK m \in DOMAIN ix : ix[m] = k
        BY <3>1, <3>2 DEF Complete
    <3>4. j < k
        BY <3>3 DEF Handled
    <3> QED
        BY <3>1, <3>4
  <2> QED
    BY <2>1, <2>2
<1> QED
    BY <1>1, <1>2, <1>3 DEF FirstOf

(* A step that ends no file request keeps the files right. *)
LEMMA FilesStay ==
    ASSUME IndInv, SoloInv, NoTake, TypeOK', Grows, RequestsOK, PlaceInv, LoadInv, LoadStep,
           UNCHANGED fileRequests, pc'[Main] # "idle" \/ req[Main].op = "AddDirNode"
    PROVE  FilesOK'
<1>1. /\ Main \in Threads /\ Step(Main) /\ phase = "load" /\ phase' = "load" /\ pc[Main] # "idle"
      /\ UNCHANGED <<nodesFile, rawNodes>> /\ TypeOK
      /\ (\A i \in Inos : i <= lastIno => kind'[i] = kind[i] /\ pool'[i] = pool[i])
      /\ UNCHANGED children \/ AddChildStore(Main)
      /\ SoloOK(Main) /\ NewOK(Main) /\ RequestOK(Main) /\ Bounded
    BY LoadStepNodes DEF LoadInv, IndInv, SoloInv
<1>2. rawNodes = << >> /\ FilesOK
    BY <1>1 DEF LoadInv, Loading, ReadOK
<1>3. PICK ix : /\ Pending(ix) /\ Complete(ix)
                /\ HandledOK(Handled(ix)) /\ PoolsOK(Handled(ix))
    BY <1>2 DEF FilesOK
<1>4. /\ Given' = Given /\ Consumed' = Consumed /\ Readable' = Readable
      /\ FileEntries' = FileEntries /\ (\A i, q : From(i, q)' = From(i, q))
    BY <1>1, <1>2, EntriesStay
<1>5. Pending(ix)'
    BY <1>3, <1>4 DEF Pending
<1>6. Handled(ix)' = Handled(ix)
    BY <1>4 DEF Handled
<1>7. Complete(ix)'
    BY <1>3, <1>4, <1>6 DEF Complete
<1>8. PICK S : S = Handled(ix)
    OBVIOUS
<1>9. ~(pc[Main] = "link" /\ kind[new[Main]] = "file")
  <2> SUFFICES ASSUME pc[Main] = "link", kind[new[Main]] = "file" PROVE FALSE
    OBVIOUS
  <2>1. req[Main].op = "AddFileNode"
    BY <1>1 DEF SoloOK
  <2>2. AddChildLink(Main)
    BY <1>1 DEF Step, Walk, MkDir, Check, Create, AddChildTake, AddChildStore, DelNode,
         RemoveChildTake, RemoveChildUnlink
  <2>3. pc'[Main] = "idle"
    BY <1>1, <2>2 DEF AddChildLink, LinkTo, Added, ReturnOK, Return, Goto, TypeOK
  <2> QED
    BY <2>1, <2>3
<1>10. pc'[Main] = "link" => pc[Main] = "store" /\ new'[Main] = new[Main]
    BY <1>1 DEF Step, Walk, MkDir, Check, Create, AddChildTake, AddChildStore, DelNode,
         AddChildLink, LinkTo, Added, ReturnOK, RemoveChildTake, RemoveChildUnlink, NewNode,
         Return, Goto, TypeOK, localVars
<1>11. HandledOK(S)'
  <2> SUFFICES ASSUME NEW i \in S \cap FileEntries
               PROVE  /\ At(i)' # NoIno
                      /\ pc'[Main] = "link" => At(i)' # new'[Main]
    BY <1>4 DEF HandledOK
  <2>1. At(i) # NoIno
    BY <1>3, <1>8 DEF HandledOK
  <2>2. At(i)' = At(i)
    BY <1>1, <2>1, AtStays
  <2>3. Linked(At(i))
    BY <2>1, AtThere
  <2>4. ASSUME pc'[Main] = "link" PROVE At(i) # new'[Main]
    <3>1. Building(Main) /\ new'[Main] = new[Main]
        BY <1>10, <2>4 DEF Building
    <3> QED
        BY <1>1, <2>3, <3>1 DEF NewOK
  <2> QED
    BY <2>1, <2>2, <2>4
<1>12. PoolsOK(S)'
  <2> SUFFICES ASSUME NEW p \in Inos, NEW x \in Comps,
                      children'[p][x] # NoIno, kind'[children'[p][x]] = "file"
               PROVE  \/ pc'[Main] = "link" /\ new'[Main] = children'[p][x]
                      \/ \E j \in S \cap FileEntries : FirstOf(children[p][x], j)'
    BY <1>4 DEF PoolsOK
  <2>1. CASE children[p][x] # NoIno
    <3>1. PICK f \in Inos : f = children[p][x] /\ f <= lastIno
        BY <1>1, <2>1 DEF TypeOK, Bounded
    <3>2. children'[p][x] = f /\ f # NoIno
        BY <2>1, <3>1 DEF Grows
    <3>3. kind[f] = "file" /\ pool'[f] = pool[f]
        BY <1>1, <3>1, <3>2
    <3>4. PICK j \in S \cap FileEntries : FirstOf(f, j)
        BY <1>3, <1>8, <1>9, <2>1, <3>1, <3>3 DEF PoolsOK
    <3>5. FirstOf(f, j)'
        BY <1>1, <1>2, <1>3, <1>8, <3>2, <3>3, <3>4, FirstStays
    <3>6. FirstOf(children[p][x], j)'
        BY <3>2, <3>5
    <3> QED
        BY <3>6
  <2>2. CASE children[p][x] = NoIno
    <3>1. AddChildStore(Main)
        BY <1>1, <2>2
    <3>2. pc'[Main] = "link" /\ new'[Main] = new[Main] /\ children'[p][x] = new[Main]
        BY <1>1, <2>2, <3>1 DEF AddChildStore, Goto, TypeOK, localVars
    <3> QED
        BY <3>2
  <2> QED
    BY <2>1, <2>2
<1> QED
    BY <1>1, <1>5, <1>6, <1>7, <1>8, <1>11, <1>12 DEF FilesOK

(* The first pending request is done; the others are from later entries. *)
LEMMA PendingTail ==
    ASSUME RequestsOK, UNCHANGED <<nodesFile, rawNodes>>, rawNodes = << >>,
           fileRequests # << >>, fileRequests' = Tail(fileRequests),
           NEW ix, Pending(ix), Complete(ix)
    PROVE  /\ ix[1] \in Readable /\ From(ix[1], Head(fileRequests))
           /\ \A k \in Readable : k \notin Handled(ix) => ix[1] <= k
           /\ \E iy : /\ Pending(iy)' /\ Complete(iy)'
                      /\ Handled(iy)' = Handled(ix) \cup {ix[1]}
<1> DEFINE n == Len(fileRequests)
<1>1. /\ n \in Nat /\ n # 0 /\ Head(fileRequests) = fileRequests[1]
      /\ Len(fileRequests') = n - 1
      /\ \A m \in 1 .. n - 1 : fileRequests'[m] = fileRequests[m + 1]
  <2>1. fileRequests \in Seq(FileOK)
    BY DEF RequestsOK
  <2> QED
    BY <2>1
<1>2. /\ Given' = Given /\ Consumed' = Consumed /\ Readable' = Readable
      /\ (\A i, q : From(i, q)' = From(i, q))
      /\ \A i \in Readable : i \in Nat /\ i <= Consumed
    BY EntriesStay
<1>3. /\ ix \in [1 .. n -> Readable] /\ DOMAIN ix = 1 .. n
      /\ \A m \in 1 .. n : ix[m] <= Consumed /\ From(ix[m], fileRequests[m])
      /\ \A m, k \in 1 .. n : m < k => ix[m] < ix[k]
    BY DEF Pending
<1> HIDE DEF n
<1>4. 1 \in 1 .. n /\ ix[1] \in Readable /\ ix[1] \in Nat /\ From(ix[1], Head(fileRequests))
  <2>1. 1 \in 1 .. n
    BY <1>1
  <2> QED
    BY <1>1, <1>2, <1>3, <2>1
<1>5. \A m \in 1 .. n : ix[m] \in Nat /\ (m # 1 => ix[1] < ix[m])
  <2> SUFFICES ASSUME NEW m \in 1 .. n PROVE ix[m] \in Nat /\ (m # 1 => ix[1] < ix[m])
    OBVIOUS
  <2>1. ix[m] \in Nat
    BY <1>2, <1>3
  <2>2. m # 1 => 1 < m
    BY <1>1
  <2> QED
    BY <1>3, <1>4, <2>1, <2>2
<1>6. \A i \in Readable : i \in Handled(ix) \/ \E m \in 1 .. n : ix[m] = i
    BY <1>2, <1>3 DEF Complete
<1>7. ASSUME NEW k \in Readable, k \notin Handled(ix) PROVE ix[1] <= k
  <2>1. PICK m \in 1 .. n : ix[m] = k
    BY <1>6, <1>7
  <2> QED
    BY <1>4, <1>5, <2>1
<1>8. PICK iy : /\ iy \in [1 .. n - 1 -> Readable] /\ DOMAIN iy = 1 .. n - 1
                /\ \A m \in 1 .. n - 1 : iy[m] = ix[m + 1]
  <2> DEFINE rest == [m \in 1 .. n - 1 |-> ix[m + 1]]
  <2>1. \A m \in 1 .. n - 1 : m + 1 \in 1 .. n
    BY <1>1
  <2>2. rest \in [1 .. n - 1 -> Readable] /\ DOMAIN rest = 1 .. n - 1
        /\ \A m \in 1 .. n - 1 : rest[m] = ix[m + 1]
    BY <1>3, <2>1
  <2> QED
    BY <2>2
<1>9. \A m \in 1 .. n - 1 : m + 1 \in 1 .. n /\ m + 1 # 1 /\ m \in Nat
    BY <1>1
<1>10. \A m \in 2 .. n : m - 1 \in 1 .. n - 1 /\ (m - 1) + 1 = m /\ m \in 1 .. n
    BY <1>1
<1>11. Pending(iy)'
  <2>1. \A m \in 1 .. n - 1 : iy[m] <= Consumed /\ From(iy[m], fileRequests'[m])
    BY <1>1, <1>3, <1>8, <1>9
  <2>2. \A m, k \in 1 .. n - 1 : m < k => m + 1 < k + 1
    BY <1>1
  <2>3. \A m, k \in 1 .. n - 1 : m < k => iy[m] < iy[k]
    BY <1>3, <1>8, <1>9, <2>2
  <2> QED
    BY <1>1, <1>2, <1>8, <2>1, <2>3 DEF Pending
<1>12. \A i : i \in Handled(iy)' <=> i \in Readable /\ \A m \in 2 .. n : i < ix[m]
  <2>1. \A i : (\A m \in 1 .. n - 1 : i < iy[m]) <=> (\A m \in 2 .. n : i < ix[m])
    <3>1. \A m \in 1 .. n - 1 : m + 1 \in 2 .. n
        BY <1>1
    <3> QED
        BY <1>8, <1>10, <3>1
  <2> QED
    BY <1>2, <1>8, <2>1 DEF Handled
<1>13. \A i : i \in Handled(ix) <=> i \in Readable /\ \A m \in 1 .. n : i < ix[m]
    BY <1>2, <1>3 DEF Handled
<1>14. Handled(iy)' = Handled(ix) \cup {ix[1]}
  <2>1. ASSUME NEW i, i \in Handled(iy)' PROVE i \in Handled(ix) \cup {ix[1]}
    <3>1. i \in Readable /\ i \in Nat /\ \A m \in 2 .. n : i < ix[m]
        BY <1>2, <1>12, <2>1
    <3>2. CASE i \notin Handled(ix)
      <4>1. PICK m \in 1 .. n : ix[m] = i
        BY <1>6, <3>1, <3>2
      <4>2. ~(i < i)
        BY <3>1
      <4>3. m \notin 2 .. n
        BY <3>1, <4>1, <4>2
      <4>4. m = 1
        BY <1>1, <4>3
      <4> QED
        BY <4>1, <4>4
    <3> QED
        BY <3>2
  <2>2. ASSUME NEW i, i \in Handled(ix) PROVE i \in Handled(iy)'
    BY <1>10, <1>12, <1>13, <2>2
  <2>3. ix[1] \in Handled(iy)'
    <3>1. \A m \in 2 .. n : m # 1
        BY <1>1
    <3> QED
        BY <1>4, <1>5, <1>10, <1>12, <3>1
  <2> QED
    BY <2>1, <2>2, <2>3
<1>15. Complete(iy)'
  <2> SUFFICES ASSUME NEW i \in Readable
               PROVE  i \in Handled(iy)' \/ \E m \in 1 .. n - 1 : iy[m] = i
    BY <1>2, <1>8 DEF Complete
  <2>1. CASE i \in Handled(ix) \/ i = ix[1]
    BY <1>14, <2>1
  <2>2. CASE ~(i \in Handled(ix) \/ i = ix[1])
    <3>1. PICK m \in 1 .. n : ix[m] = i
        BY <1>6, <2>2
    <3>2. m \in 2 .. n
        BY <1>1, <2>2, <3>1
    <3> QED
        BY <1>8, <1>10, <3>1, <3>2
  <2> QED
    BY <2>1, <2>2
<1> QED
    BY <1>4, <1>7, <1>11, <1>14, <1>15

(* A step that ends a file request keeps the files right. *)
LEMMA FileDone ==
    ASSUME IndInv, SoloInv, NoTake, TypeOK', Grows, RequestsOK, WalkInv, WalkInv', PlaceInv,
           LoadInv, LoadStep, pc'[Main] = "idle", req[Main].op # "AddDirNode"
    PROVE  FilesOK'
<1>1. /\ Main \in Threads /\ Step(Main) /\ phase = "load" /\ phase' = "load" /\ pc[Main] # "idle"
      /\ UNCHANGED <<nodesFile, rawNodes>> /\ TypeOK
      /\ (\A i \in Inos : i <= lastIno => kind'[i] = kind[i] /\ pool'[i] = pool[i])
      /\ SoloOK(Main) /\ NewOK(Main) /\ RequestOK(Main) /\ Bounded
    BY LoadStepNodes DEF LoadInv, IndInv, SoloInv
<1>2. rawNodes = << >> /\ FilesOK /\ NewPool
    BY <1>1 DEF LoadInv, Loading, ReadOK
<1>3. PICK ix : /\ Pending(ix) /\ Complete(ix)
                /\ HandledOK(Handled(ix)) /\ PoolsOK(Handled(ix))
    BY <1>2 DEF FilesOK
<1>4. /\ req[Main].op = "AddFileNode" /\ fileRequests # << >> /\ req[Main] \in Reqs
      /\ req[Main] = FileRequest(Head(fileRequests))
      /\ fileRequests' = Tail(fileRequests)
    BY <1>1, DirsFirst DEF LoadStep, RequestOK
<1>5. PICK r \in Reqs : r = req[Main]
    BY <1>4
<1>6. /\ UNCHANGED <<children, kind>>
      /\ r.adapter => Resolve(r)' # NoIno
      /\ pc[Main] = "link" => Resolve(r)' = new[Main]
    BY <1>1, <1>4, <1>5, ReturnsFile
<1>7. /\ ix[1] \in Readable /\ From(ix[1], Head(fileRequests))
      /\ \A k \in Readable : k \notin Handled(ix) => ix[1] <= k
      /\ \E iy : /\ Pending(iy)' /\ Complete(iy)'
                 /\ Handled(iy)' = Handled(ix) \cup {ix[1]}
    BY <1>1, <1>2, <1>3, <1>4, PendingTail
<1>8. PICK S : S = Handled(ix)
    OBVIOUS
<1>9. PICK a : a = ix[1]
    OBVIOUS
<1>10. PICK iy : Pending(iy)' /\ Complete(iy)' /\ Handled(iy)' = S \cup {a}
    BY <1>7, <1>8, <1>9
<1>11. /\ Given' = Given /\ FileEntries' = FileEntries /\ FileEntries \subseteq Readable
       /\ \A i : At(i)' = At(i)
    BY <1>1, <1>2, <1>6, EntriesStay, AtSame
<1>12. /\ r.adapter = (\E j \in DOMAIN Given[a].sources : Given[a].sources[j].valid)
       /\ a \in FileEntries => r = FileRequest(Given[a]) /\ At(a)' = Resolve(r)'
  <2>1. r = FileRequest(Given[a])
    BY <1>4, <1>5, <1>7, <1>9 DEF From
  <2>2. ASSUME a \in FileEntries PROVE At(a)' = Resolve(r)'
    <3>1. Given[a].type = "file"
        BY <2>2 DEF FileEntries
    <3> QED
        BY <1>1, <2>1, <2>2, <3>1, AtRequest
  <2> QED
    BY <2>1, <2>2 DEF FileRequest
<1>13. HandledOK(S \cup {a})'
  <2> SUFFICES ASSUME NEW i \in (S \cup {a}) \cap FileEntries PROVE At(i)' # NoIno
    BY <1>11 DEF HandledOK
  <2>1. CASE i \in S
    BY <1>3, <1>8, <1>11, <2>1 DEF HandledOK
  <2>2. CASE i = a
    <3>1. r.adapter
        BY <1>12, <2>2 DEF FileEntries
    <3> QED
        BY <1>6, <1>12, <2>2, <3>1
  <2> QED
    BY <2>1, <2>2
<1>14. PoolsOK(S \cup {a})'
  <2> SUFFICES ASSUME NEW p \in Inos, NEW x \in Comps,
                      children[p][x] # NoIno, kind[children[p][x]] = "file"
               PROVE  \E j \in (S \cup {a}) \cap FileEntries : FirstOf(children[p][x], j)'
    BY <1>6, <1>11 DEF PoolsOK
  <2>1. PICK f \in Inos : f = children[p][x] /\ f <= lastIno /\ f # NoIno
    BY <1>1 DEF TypeOK, Bounded
  <2>2. kind[f] = "file" /\ pool'[f] = pool[f] /\ children'[p][x] = f
    BY <1>1, <1>6, <2>1
  <2>3. ASSUME NEW j \in (S \cup {a}) \cap FileEntries, FirstOf(f, j)'
        PROVE  \E k \in (S \cup {a}) \cap FileEntries : FirstOf(children[p][x], k)'
    <3>1. FirstOf(children[p][x], j)'
        BY <2>2, <2>3
    <3> QED
        BY <3>1
  <2>4. CASE pc[Main] = "link" /\ new[Main] = f
    <3>1. r.adapter /\ PoolOf(f, Head(fileRequests).sources)
        BY <1>1, <1>2, <1>5, <2>2, <2>4 DEF NewPool, Adding
    <3>2. PoolOf(f, Given[a].sources)
        BY <1>7, <1>9, <3>1 DEF From, PoolOf
    <3>3. a \in FileEntries
        BY <1>7, <1>9, <1>12, <3>1 DEF Readable, FileEntries
    <3>4. At(a)' = f
        BY <1>6, <1>12, <2>4, <3>3
    <3>5. ASSUME NEW k \in FileEntries, At(k)' = f PROVE a <= k
      <4>1. k \notin S
        BY <1>3, <1>8, <1>11, <2>2, <2>4, <3>5 DEF HandledOK
      <4> QED
        BY <1>7, <1>8, <1>9, <1>11, <4>1
    <3>6. PoolOf(f, Given[a].sources)'
        BY <1>11, <2>2, <3>2 DEF PoolOf
    <3>7. FirstOf(f, a)'
        BY <1>11, <3>4, <3>5, <3>6 DEF FirstOf
    <3> QED
        BY <2>3, <3>3, <3>7
  <2>5. CASE ~(pc[Main] = "link" /\ new[Main] = f)
    <3>1. PICK j \in S \cap FileEntries : FirstOf(f, j)
        BY <1>3, <1>8, <2>1, <2>2, <2>5 DEF PoolsOK
    <3>2. FirstOf(f, j)'
        BY <1>1, <1>2, <1>3, <1>8, <2>1, <2>2, <3>1, FirstStays
    <3> QED
        BY <2>3, <3>1, <3>2
  <2> QED
    BY <2>4, <2>5
<1> QED
    BY <1>1, <1>10, <1>13, <1>14 DEF FilesOK

-----------------------------------------------------------------------------
(* The nodes file is loaded. *)

(* So every step of a request keeps LoadInv, *)
LEMMA LoadLoadStep ==
    ASSUME IndInv, SoloInv, NoTake, TypeOK', Grows, RequestsOK, WalkInv, WalkInv', PlaceInv,
           LoadInv, LoadStep
    PROVE  LoadInv'
<1>1. /\ phase = "load" /\ phase' = "load" /\ pc[Main] # "idle" /\ DOMAIN pool' = Inos
      /\ UNCHANGED <<nodesFile, rawNodes, providers>>
    BY LoadStepNodes DEF LoadInv
<1>2. ReadOK'
  <2>1. Given' = Given
    BY <1>1 DEF Given
  <2>2. ReadOK /\ Consumed' = Consumed
    BY <1>1, <2>1 DEF LoadInv, Loading, Consumed
  <2> QED
    BY <1>1, <2>1, <2>2 DEF ReadOK
<1>3. DirsOK' /\ NoFiles' /\ NewPool'
    BY LoadStepDirs, LoadStepNoFiles, LoadStepNewPool
<1>4. CASE pc'[Main] = "idle" /\ req[Main].op # "AddDirNode"
    BY <1>1, <1>2, <1>3, <1>4, FileDone DEF LoadInv
<1>5. CASE ~(pc'[Main] = "idle" /\ req[Main].op # "AddDirNode")
  <2>1. UNCHANGED fileRequests
    BY <1>5 DEF LoadStep
  <2> QED
    BY <1>1, <1>2, <1>3, <1>5, <2>1, FilesStay DEF LoadInv
<1> QED
    BY <1>4, <1>5

(* and so do the steps that begin a request, and the end of loading, *)
LEMMA LoadOther ==
    ASSUME RequestsOK, LoadInv, phase' = phase \/ Loaded,
           UNCHANGED <<kind, children, startVars, rawNodes, dirRequests, fileRequests, pool>>,
           \/ UNCHANGED <<pc, new, req>>
           \/ pc[Main] = "idle" /\ ~Adding(Main)' /\ phase' = "load"
    PROVE  LoadInv'
<1>1. Given' = Given /\ (\A i : At(i)' = At(i)) /\ Consumed' = Consumed
      /\ UNCHANGED <<nodesFile, providers>>
  <2>1. Given' = Given
    BY DEF Given, startVars
  <2> QED
    BY <2>1, AtSame DEF Consumed, startVars
<1>2. DirEntries' = DirEntries /\ FileEntries' = FileEntries /\ Readable' = Readable
    BY <1>1 DEF DirEntries, FileEntries, Readable
<1>3. DOMAIN pool' = Inos /\ (phase' = "start" => StartOK')
    BY <1>1 DEF LoadInv, StartOK, Loaded
<1> SUFFICES ASSUME Loading' PROVE ReadOK' /\ DirsOK' /\ NoFiles' /\ NewPool' /\ FilesOK'
    BY <1>3 DEF LoadInv
<1>4. Loading /\ (phase' = "load" => phase = "load") /\ (phase' = "parse" => phase = "parse")
      /\ (phase' = "serve" => phase = "serve" \/ Loaded)
    BY DEF Loading, Loaded
<1>5. ReadOK /\ DirsOK /\ NoFiles /\ NewPool /\ FilesOK
    BY <1>4 DEF LoadInv
<1>6. ReadOK' /\ DirsOK' /\ NoFiles'
  <2>1. ReadOK'
    BY <1>1, <1>4, <1>5 DEF ReadOK, Loaded
  <2>2. DirsOK'
    BY <1>1, <1>2, <1>5 DEF DirsOK
  <2>3. NoFiles'
    BY <1>4, <1>5 DEF NoFiles
  <2> QED
    BY <2>1, <2>2, <2>3
<1>7. NewPool'
  <2>1. CASE UNCHANGED <<pc, new, req>>
    BY <1>4, <1>5, <2>1 DEF NewPool, PoolOf, Adding, Building
  <2>2. CASE ~Adding(Main)'
    BY <2>2 DEF NewPool
  <2> QED
    BY <2>1, <2>2
<1>8. FilesOK'
  <2>1. PICK ix : /\ Pending(ix) /\ Complete(ix) /\ (phase = "parse" => Handled(ix) = {})
                  /\ HandledOK(Handled(ix)) /\ PoolsOK(Handled(ix))
    BY <1>5 DEF FilesOK
  <2>2. \A i, q : From(i, q)' = From(i, q)
    BY <1>1 DEF From
  <2>3. Pending(ix)' /\ Handled(ix)' = Handled(ix)
    BY <1>1, <1>2, <2>1, <2>2 DEF Pending, Handled
  <2>4. Complete(ix)'
    BY <1>1, <1>2, <2>1, <2>3 DEF Complete
  <2>5. PICK S : S = Handled(ix)
    OBVIOUS
  <2>6. (pc'[Main] = "link" => pc[Main] = "link" /\ new'[Main] = new[Main])
        /\ (pc[Main] = "link" => pc'[Main] = "link" /\ new'[Main] = new[Main])
    BY DEF Adding
  <2>7. HandledOK(S)'
    BY <1>1, <1>2, <2>1, <2>5, <2>6 DEF HandledOK
  <2>8. \A f, j : FirstOf(f, j) => FirstOf(f, j)'
    BY <1>1, <1>2 DEF FirstOf, PoolOf
  <2>9. PoolsOK(S)'
    <3> SUFFICES ASSUME NEW p \in Inos, NEW x \in Comps,
                        children[p][x] # NoIno, kind[children[p][x]] = "file"
                 PROVE  \/ pc'[Main] = "link" /\ new'[Main] = children[p][x]
                        \/ \E j \in S \cap FileEntries : FirstOf(children[p][x], j)'
        BY <1>2 DEF PoolsOK
    <3>1. CASE pc[Main] = "link" /\ new[Main] = children[p][x]
        BY <2>6, <3>1
    <3>2. CASE ~(pc[Main] = "link" /\ new[Main] = children[p][x])
      <4>1. PICK j \in S \cap FileEntries : FirstOf(children[p][x], j)
        BY <2>1, <2>5, <3>2 DEF PoolsOK
      <4>2. PICK f : f = children[p][x] /\ f = children'[p][x]
        OBVIOUS
      <4>3. FirstOf(f, j)'
        BY <2>8, <4>1, <4>2
      <4>4. FirstOf(children[p][x], j)'
        BY <4>2, <4>3
      <4> QED
        BY <4>4
    <3> QED
        BY <3>1, <3>2
  <2> QED
    BY <1>4, <2>1, <2>3, <2>4, <2>5, <2>7, <2>9 DEF FilesOK
<1> QED
    BY <1>6, <1>7, <1>8

(* and all other steps. *)
LEMMA LoadNextStep ==
    ASSUME IndInv, SoloInv, RequestsOK, RequestsOK', AloneInv, AloneInv', LoadInv,
           [LoaderNext]_loaderVars
    PROVE  LoadInv'
<1>1. [Next]_vars /\ TypeOK /\ TypeOK' /\ Main \in Threads
    BY LoaderStep, TypePreserved, LoaderConstants DEF IndInv
<1>2. CASE UNCHANGED loaderVars
    BY <1>2, LoadOther DEF loaderVars, vars, nodeVars, localVars, loadVars
<1>3. CASE Configure
    BY <1>1, <1>3, LoadConfigure
<1>4. CASE Parse
    BY <1>1, <1>4, LoadParse
<1>5. CASE LoadNext
  <2>1. /\ phase = "load" /\ pc[Main] = "idle" /\ pc'[Main] = "walk"
        /\ UNCHANGED <<kind, children, startVars, loadVars>>
    BY <1>1, <1>5 DEF LoadNext, AddNode, Call, Goto, nodeVars, TypeOK
  <2>2. ~Adding(Main)'
    BY <2>1 DEF Adding, Building
  <2> QED
    BY <2>1, <2>2, LoadOther DEF loadVars
<1>6. CASE Loaded
    BY <1>6, LoadOther DEF Loaded, vars, nodeVars, localVars
<1>7. CASE NoMountPoint \/ ConfigureFromFile \/ EmbeddedStep
  <2>1. phase' \in {"failed", "embedded"} /\ UNCHANGED pool
    BY <1>7 DEF NoMountPoint, ConfigureFromFile, EmbeddedStep, loadVars
  <2> QED
    BY <2>1 DEF LoadInv, Loading
<1>8. CASE LoadStep
  <2>1. phase = "load" /\ phase' = "load"
    BY <1>8 DEF LoadStep
  <2>2. WalkInv /\ WalkInv' /\ PlaceInv /\ NoTake
    BY <2>1, LoaderTakesNone DEF AloneInv
  <2>3. Grows
    BY <1>1, <2>2, StepGrows
  <2> QED
    BY <1>1, <1>8, <2>2, <2>3, LoadLoadStep
<1> QED
    BY <1>2, <1>3, <1>4, <1>5, <1>6, <1>7, <1>8 DEF LoaderNext

(* At first nothing is loaded. *)
LEMMA LoadInit == LoaderInit => LoadInv
<1> SUFFICES ASSUME LoaderInit PROVE LoadInv
    OBVIOUS
<1>1. phase = "start" /\ DOMAIN pool = Inos /\ StartOK
    BY DEF LoaderInit, Init, StartOK
<1> QED
    BY <1>1 DEF LoadInv, Loading

(* With both lists empty, all entries are done. *)
LEMMA AllLoaded ==
    ASSUME IndInv, RequestsOK, AloneInv, LoadInv
    PROVE  EntriesLoaded
<1> SUFFICES ASSUME phase = "serve" PROVE EntriesLoaded
    BY DEF EntriesLoaded
<1>1. /\ PlaceInv /\ TypeOK /\ dirRequests = << >> /\ fileRequests = << >> /\ rawNodes = << >>
      /\ DirsOK /\ FilesOK
    BY DEF AloneInv, LoadInv, Loading, ReadOK, IndInv
<1>2. \A i \in DOMAIN Given : i \in Nat /\ i <= Consumed
  <2>1. Len(Given) \in Nat /\ DOMAIN Given = 1 .. Len(Given)
    BY GivenType
  <2> QED
    BY <1>1, <2>1 DEF Consumed
<1>3. \A i \in DirEntries : kind[At(i)] = "dir"
    BY <1>1, <1>2 DEF DirsOK, DirEntries
<1>4. PICK ix : /\ Pending(ix) /\ Complete(ix)
                /\ HandledOK(Handled(ix)) /\ PoolsOK(Handled(ix))
    BY <1>1 DEF FilesOK
<1>5. DOMAIN ix = {}
  <2>1. Len(fileRequests) = 0
    BY <1>1
  <2> QED
    BY <1>4, <2>1 DEF Pending
<1>6. FileEntries \subseteq Handled(ix) /\ \A i \in FileEntries : i \in Nat
    BY <1>2, <1>5 DEF Handled, FileEntries, Readable
<1>7. ASSUME NEW i \in FileEntries
      PROVE  /\ At(i) # NoIno
             /\ kind[At(i)] = "file" =>
                    LET same  == {j \in FileEntries : At(j) = At(i)}
                        first == Given[CHOOSE j \in same : \A k \in same : j <= k]
                    IN  Ids(pool[At(i)]) = Ids(SourceAdapters(first.sources))
  <2>1. At(i) # NoIno
    BY <1>4, <1>6 DEF HandledOK
  <2>2. ASSUME kind[At(i)] = "file"
        PROVE  \E j \in FileEntries : FirstOf(At(i), j)
    <3>1. PICK p \in Inos, x \in Comps : children[p][x] = At(i)
        BY <1>1, <2>1, AtThere DEF Linked
    <3>2. pc[Main] # "link"
        BY DEF LoadInv, Loading, ReadOK
    <3> QED
        BY <1>4, <2>1, <2>2, <3>1, <3>2 DEF PoolsOK
  <2> DEFINE same == {j \in FileEntries : At(j) = At(i)}
             Least(j) == j \in same /\ \A k \in same : j <= k
  <2>3. ASSUME kind[At(i)] = "file"
        PROVE  Ids(pool[At(i)]) =
                 Ids(SourceAdapters(Given[CHOOSE j \in same : \A k \in same : j <= k].sources))
    <3>1. PICK j \in FileEntries : FirstOf(At(i), j)
        BY <2>2, <2>3
    <3>2. Least(j)
        BY <3>1 DEF FirstOf
    <3>3. \A k \in same : k \in Nat
        BY <1>6
    <3>4. PICK l : l = CHOOSE k \in same : \A m \in same : k <= m
        OBVIOUS
    <3>5. Least(l)
      <4> HIDE DEF same
      <4> QED
        BY <3>2, <3>4
    <3>6. l = j
      <4>1. l \in Nat /\ j \in Nat /\ l <= j /\ j <= l
        BY <3>2, <3>3, <3>5
      <4> QED
        BY <4>1
    <3>7. Ids(pool[At(i)]) = Ids(SourceAdapters(Given[j].sources))
        BY <3>1 DEF FirstOf, PoolOf
    <3> HIDE DEF same
    <3> QED
        BY <3>4, <3>6, <3>7
  <2> QED
    BY <2>1, <2>3
<1>8. ASSUME NEW f \in Inos, kind[f] = "file" PROVE \E i \in FileEntries : At(i) = f
  <2>1. pc[Main] = "idle" /\ Threads = {Main}
    BY LoaderConstants DEF LoadInv, Loading, ReadOK
  <2>2. \A t \in Threads : ~Adding(t)
    BY <2>1 DEF Adding, Building
  <2>3. Published
    BY DEF AloneInv
  <2>4. PICK p \in Inos, x \in Comps : children[p][x] = f
    BY <1>8, <2>2, <2>3 DEF Published, Linked
  <2>5. PICK j \in FileEntries : FirstOf(f, j)
    BY <1>4, <1>8, <2>1, <2>4, InosFacts DEF PoolsOK
  <2> QED
    BY <2>5 DEF FirstOf
<1> QED
    BY <1>3, <1>7, <1>8 DEF EntriesLoaded

(* When the command goes on to serve, every directory of the nodes file is *)
(* there and is one; every usable file has a node at its path, a directory *)
(* if one was asked for, or else a file with exactly the usable sources of *)
(* the first usable entry for that path; and there is no other file        *)
(* (EntriesLoaded; main, unmarshalSources, AddFileNode).                   *)
THEOREM NodesFileLoaded == LoaderSpec => []EntriesLoaded
<1>1. IndInv /\ SoloInv /\ RequestsOK /\ RequestsOK' /\ AloneInv /\ AloneInv' /\ LoadInv
        /\ [LoaderNext]_loaderVars => LoadInv'
    BY LoadNextStep
<1>2. IndInv /\ RequestsOK /\ AloneInv /\ LoadInv => EntriesLoaded
    BY AllLoaded
<1> QED
    BY <1>1, <1>2, LoadInit, AloneInvariance, PTL DEF LoaderSpec
=============================================================================
