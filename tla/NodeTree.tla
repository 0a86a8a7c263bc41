------------------------------ MODULE NodeTree ------------------------------
(***************************************************************************)
(* The node tree: FileSystem.AddDirNode and AddFileNode (filesystem/fs.go) *)
(* and Node.AddChild, RemoveChild, Del and Path (filesystem/node.go).      *)
(*                                                                         *)
(* A children map is a concurrent map; no lock covers two operations on    *)
(* it.  The walk down a path, the lookup that decides to create, and the   *)
(* three steps of AddChild therefore interleave with those of other        *)
(* callers, one atomic operation at a time.  A node is named by its inode  *)
(* number, 0 is nil; a path is the sequence of its "/"-separated parts.    *)
(***************************************************************************)
EXTENDS Naturals, Sequences, SequencesExt

CONSTANTS
    Names,      \* the names that requests use
    EmptyName,  \* "", what strings.Split leaves around a leading or double /
    Threads,    \* the callers
    Reqs,       \* the requests they may make
    MaxIno,     \* bound on inode numbers; large enough never to be reached
    MaxCalls,   \* bound on the number of requests
    MaxDepth    \* bound on the length of the paths that Entries looks at

RootIno == 1
NoIno   == 0
Comps   == Names \cup {EmptyName}
Inos    == RootIno .. MaxIno
Requests ==
    [op : {"AddDirNode", "AddFileNode", "RemoveChild", "Del"},
     path : Seq(Comps),         \* for RemoveChild and Del: where the node is
     adapter : BOOLEAN]         \* some source of the file yields an adapter

ASSUME TreeConstants ==
    /\ EmptyName \notin Names
    /\ MaxIno \in Nat \ {0}
    /\ MaxCalls \in Nat /\ MaxDepth \in Nat
    /\ Reqs \subseteq Requests
    /\ \A r \in Reqs : r.op # "AddDirNode" => r.path # << >>

VARIABLES
    lastIno,   \* FileSystem.lastIno
    kind,      \* the type bits of attr.Mode
    name,      \* Node.name
    parent,    \* Node.parent
    isDel,     \* Node.isDel
    children,  \* Node.children; NoIno where the map has no entry
    calls,     \* number of requests made
    pc,        \* pc[t]: the next step of caller t
    req,       \* req[t]: its request
    todo,      \* todo[t]: the parts of the path still to walk
    cur,       \* cur[t]: AddDirNode's cur, AddFileNode's parent
    new,       \* new[t]: the node being added
    old,       \* old[t]: the node LoadAndDelete returned
    results    \* history: the requests that returned a node or that delete one, with it

nodeVars  == <<kind, name, parent, isDel, children>>
localVars == <<req, todo, cur, new, old>>
vars == <<lastIno, kind, name, parent, isDel, children, calls, pc, req, todo,
          cur, new, old, results>>

NoReq == [op |-> "none", path |-> << >>, adapter |-> FALSE]
Labels == {"idle", "walk", "mkdir", "check", "create", "take", "del", "store",
           "link", "rmtake", "unlink"}

TypeOK ==
    /\ lastIno \in Inos
    /\ kind \in [Inos -> {"none", "dir", "file"}]
    /\ name \in [Inos -> Comps]
    /\ parent \in [Inos -> Inos \cup {NoIno}]
    /\ isDel \in [Inos -> BOOLEAN]
    /\ children \in [Inos -> [Comps -> Inos \cup {NoIno}]]
    /\ calls \in 0 .. MaxCalls
    /\ pc \in [Threads -> Labels]
    /\ req \in [Threads -> Reqs \cup {NoReq}]
    /\ todo \in [Threads -> Seq(Comps)]
    /\ cur \in [Threads -> Inos \cup {NoIno}]
    /\ new \in [Threads -> Inos \cup {NoIno}]
    /\ old \in [Threads -> Inos \cup {NoIno}]
    /\ results \subseteq (Reqs \X Inos)

-----------------------------------------------------------------------------
(* NewFS: a root directory without children. *)
Init ==
    /\ lastIno = RootIno
    /\ kind = [i \in Inos |-> IF i = RootIno THEN "dir" ELSE "none"]
    /\ name = [i \in Inos |-> EmptyName]
    /\ parent = [i \in Inos |-> NoIno]
    /\ isDel = [i \in Inos |-> FALSE]
    /\ children = [i \in Inos |-> [x \in Comps |-> NoIno]]
    /\ calls = 0
    /\ pc = [t \in Threads |-> "idle"]
    /\ req = [t \in Threads |-> NoReq]
    /\ todo = [t \in Threads |-> << >>]
    /\ cur = [t \in Threads |-> NoIno]
    /\ new = [t \in Threads |-> NoIno]
    /\ old = [t \in Threads |-> NoIno]
    /\ results = {}

Goto(t, label) == pc' = [pc EXCEPT ![t] = label]

Return(t) ==
    /\ Goto(t, "idle")
    /\ req' = [req EXCEPT ![t] = NoReq]
    /\ todo' = [todo EXCEPT ![t] = << >>]
    /\ cur' = [cur EXCEPT ![t] = NoIno]
    /\ new' = [new EXCEPT ![t] = NoIno]
    /\ old' = [old EXCEPT ![t] = NoIno]

ReturnOK(t, n) ==
    /\ Return(t)
    /\ results' = results \cup {<<req[t], n>>}

Call(t, r) ==
    /\ pc[t] = "idle"
    /\ calls < MaxCalls
    /\ calls' = calls + 1
    /\ req' = [req EXCEPT ![t] = r]

(* The directories of a request: path.Split takes the last part off a      *)
(* file's path.                                                            *)
DirPath(r) == IF r.op = "AddDirNode" THEN r.path ELSE Front(r.path)

(* AddDirNode, and AddFileNode up to its AddDirNode call: strings.Split    *)
(* gives the parts to walk from the root.                                  *)
AddNode(t, r) ==
    /\ Call(t, r)
    /\ todo' = [todo EXCEPT ![t] = DirPath(r)]
    /\ cur' = [cur EXCEPT ![t] = RootIno]
    /\ Goto(t, "walk")
    /\ UNCHANGED <<lastIno, nodeVars, new, old, results>>

(* The node that the names of a path lead to from the root, through one    *)
(* children map after the other (GetChild); NoIno when a part is missing.  *)
Follow(path, ignored) ==
    LET find[n \in 0 .. Len(path)] ==
            IF n = 0 THEN RootIno
            ELSE IF find[n - 1] = NoIno \/ path[n] \in ignored THEN find[n - 1]
            ELSE children[find[n - 1]][path[n]]
    IN  find[Len(path)]

(* The caller of Node.RemoveChild or Node.Del has got its node this way.   *)
Find(path) == Follow(path, {})

(* Node.RemoveChild on the node above the request's path. *)
RemoveChild(t, r) ==
    \E p \in Inos :
        /\ Find(Front(r.path)) = p
        /\ Call(t, r)
        /\ cur' = [cur EXCEPT ![t] = p]
        /\ Goto(t, "rmtake")
        /\ UNCHANGED <<lastIno, nodeVars, todo, new, old, results>>

(* Node.Del from outside AddChild, on the node at the request's path. *)
Del(t, r) ==
    \E n \in Inos :
        /\ Find(r.path) = n
        /\ Call(t, r)
        /\ old' = [old EXCEPT ![t] = n]
        /\ Goto(t, "del")
        /\ results' = results \cup {<<r, n>>}
        /\ UNCHANGED <<lastIno, nodeVars, todo, cur, new>>

Request(t) ==
    \E r \in Reqs :
        \/ r.op \in {"AddDirNode", "AddFileNode"} /\ AddNode(t, r)
        \/ r.op = "RemoveChild" /\ RemoveChild(t, r)
        \/ r.op = "Del" /\ Del(t, r)

-----------------------------------------------------------------------------
(* AddDirNode's loop: skip ""; load the next part; found, go down; else    *)
(* make it.                                                                *)
(* At the end AddDirNode returns cur, and AddFileNode goes on with it.     *)
Walk(t) ==
    /\ pc[t] = "walk"
    /\ UNCHANGED <<lastIno, nodeVars, calls>>
    /\ \/ /\ todo[t] # << >> /\ Head(todo[t]) = EmptyName
          /\ todo' = [todo EXCEPT ![t] = Tail(@)]
          /\ UNCHANGED <<pc, req, cur, new, old, results>>
       \/ /\ todo[t] # << >> /\ Head(todo[t]) # EmptyName
          /\ children[cur[t]][Head(todo[t])] # NoIno
          /\ cur' = [cur EXCEPT ![t] = children[cur[t]][Head(todo[t])]]
          /\ todo' = [todo EXCEPT ![t] = Tail(@)]
          /\ UNCHANGED <<pc, req, new, old, results>>
       \/ /\ todo[t] # << >> /\ Head(todo[t]) # EmptyName
          /\ children[cur[t]][Head(todo[t])] = NoIno
          /\ Goto(t, "mkdir")
          /\ UNCHANGED <<localVars, results>>
       \/ /\ todo[t] = << >> /\ req[t].op = "AddDirNode"
          /\ ReturnOK(t, cur[t])
       \/ /\ todo[t] = << >> /\ req[t].op = "AddFileNode"
          /\ Goto(t, "check")
          /\ UNCHANGED <<localVars, results>>

(* Mutant: the counter is read and written back in two steps. *)
NewNodeLost(t, k, x) ==
    /\ lastIno < MaxIno
    /\ lastIno' \in {lastIno, lastIno + 1}
    /\ kind' = [kind EXCEPT ![lastIno + 1] = k]
    /\ name' = [name EXCEPT ![lastIno + 1] = x]
    /\ new' = [new EXCEPT ![t] = lastIno + 1]
    /\ Goto(t, "take")
    /\ UNCHANGED <<parent, isDel, children>>

(* lastIno.Add(1), NewInode, NewNode: a node nobody else can see yet. *)
NewNode(t, k, x) ==
    /\ lastIno < MaxIno
    /\ lastIno' = lastIno + 1
    /\ kind' = [kind EXCEPT ![lastIno'] = k]
    /\ name' = [name EXCEPT ![lastIno'] = x]
    /\ new' = [new EXCEPT ![t] = lastIno']
    /\ Goto(t, "take")
    /\ UNCHANGED <<parent, isDel, children>>

(* AddDirNode: attr.Mode is DirAttr, the name the part of the path. *)
MkDir(t) ==
    /\ pc[t] = "mkdir"
    /\ NewNode(t, "dir", Head(todo[t]))
    /\ UNCHANGED <<calls, req, todo, cur, old, results>>

(* Mutant: AddFileNode does not look for an existing node. *)
CheckNone(t) ==
    /\ pc[t] = "check"
    /\ Goto(t, "create")
    /\ UNCHANGED <<lastIno, nodeVars, calls, localVars, results>>

(* AddFileNode: "file already exists at path". *)
Check(t) ==
    /\ pc[t] = "check"
    /\ IF children[cur[t]][Last(req[t].path)] # NoIno
         THEN Return(t)
         ELSE Goto(t, "create") /\ UNCHANGED localVars
    /\ UNCHANGED <<lastIno, nodeVars, calls, results>>

(* AddFileNode takes an inode number, then builds the adapters; without    *)
(* any it returns an error, and the number and the directories stay.       *)
Create(t) ==
    /\ pc[t] = "create"
    /\ IF req[t].adapter
         THEN /\ NewNode(t, "file", Last(req[t].path))
              /\ UNCHANGED <<req, todo, cur, old>>
         ELSE /\ lastIno < MaxIno
              /\ lastIno' = lastIno + 1
              /\ Return(t)
              /\ UNCHANGED nodeVars
    /\ UNCHANGED <<calls, results>>

-----------------------------------------------------------------------------
(* Mutant: AddChild loads the existing child but leaves it in the map      *)
(* until the store.                                                        *)
AddChildTakeLoad(t) ==
    /\ pc[t] = "take"
    /\ old' = [old EXCEPT ![t] = children[cur[t]][name[new[t]]]]
    /\ Goto(t, IF old'[t] # NoIno THEN "del" ELSE "store")
    /\ UNCHANGED <<lastIno, nodeVars, calls, req, todo, cur, new, results>>

(* AddChild: n.children.LoadAndDelete(child.name) *)
AddChildTake(t) ==
    /\ pc[t] = "take"
    /\ old' = [old EXCEPT ![t] = children[cur[t]][name[new[t]]]]
    /\ children' = [children EXCEPT ![cur[t]][name[new[t]]] = NoIno]
    /\ Goto(t, IF old'[t] # NoIno THEN "del" ELSE "store")
    /\ UNCHANGED <<lastIno, kind, name, parent, isDel, calls, req, todo, cur, new, results>>

(* Del, under the node's lock: mark, detach, clear the cache (see          *)
(* InodeRead).  AddChild goes on, another caller returns.                  *)
DelNode(t) ==
    /\ pc[t] = "del"
    /\ isDel' = [isDel EXCEPT ![old[t]] = TRUE]
    /\ parent' = [parent EXCEPT ![old[t]] = NoIno]
    /\ IF req[t].op = "Del"
         THEN Return(t)
         ELSE Goto(t, "store") /\ UNCHANGED localVars
    /\ UNCHANGED <<lastIno, kind, name, children, calls, results>>

(* n.children.Store(child.name, child) *)
AddChildStore(t) ==
    /\ pc[t] = "store"
    /\ children' = [children EXCEPT ![cur[t]][name[new[t]]] = new[t]]
    /\ Goto(t, "link")
    /\ UNCHANGED <<lastIno, kind, name, parent, isDel, calls, localVars, results>>

(* What follows AddChild: AddDirNode goes down into the directory, which   *)
(* is cur from now on; AddFileNode returns the file.                       *)
Added(t, down, file) ==
    IF kind[new[t]] = "dir"
      THEN /\ cur' = [cur EXCEPT ![t] = down]
           /\ todo' = [todo EXCEPT ![t] = Tail(@)]
           /\ new' = [new EXCEPT ![t] = NoIno]
           /\ old' = [old EXCEPT ![t] = NoIno]
           /\ Goto(t, "walk")
           /\ UNCHANGED <<req, results>>
      ELSE ReturnOK(t, file)

LinkTo(t, p) ==
    /\ pc[t] = "link"
    /\ parent' = [parent EXCEPT ![new[t]] = p]
    /\ UNCHANGED <<lastIno, kind, name, isDel, children, calls>>

(* Mutants: the parent is never set; it is always the root; AddFileNode    *)
(* returns what was there before.                                          *)
AddChildLinkNone(t) == LinkTo(t, NoIno) /\ Added(t, new[t], new[t])
AddChildLinkRoot(t) == LinkTo(t, RootIno) /\ Added(t, new[t], new[t])
AddChildLinkOld(t)  == LinkTo(t, cur[t]) /\ Added(t, new[t], old[t])

(* child.parent = n, under the child's lock. *)
AddChildLink(t) == LinkTo(t, cur[t]) /\ Added(t, new[t], new[t])

(* RemoveChild: n.children.LoadAndDelete(name); false when there is none. *)
RemoveChildTake(t) ==
    /\ pc[t] = "rmtake"
    /\ IF children[cur[t]][Last(req[t].path)] = NoIno
         THEN Return(t) /\ UNCHANGED children
         ELSE /\ old' = [old EXCEPT ![t] = children[cur[t]][Last(req[t].path)]]
              /\ children' = [children EXCEPT ![cur[t]][Last(req[t].path)] = NoIno]
              /\ Goto(t, "unlink")
              /\ UNCHANGED <<req, todo, cur, new>>
    /\ UNCHANGED <<lastIno, kind, name, parent, isDel, calls, results>>

(* child.parent = nil, under the child's lock. *)
RemoveChildUnlink(t) ==
    /\ pc[t] = "unlink"
    /\ parent' = [parent EXCEPT ![old[t]] = NoIno]
    /\ Return(t)
    /\ UNCHANGED <<lastIno, kind, name, isDel, children, calls, results>>

-----------------------------------------------------------------------------
Step(t) ==
    \/ Walk(t) \/ MkDir(t) \/ Check(t) \/ Create(t)
    \/ AddChildTake(t) \/ DelNode(t) \/ AddChildStore(t) \/ AddChildLink(t)
    \/ RemoveChildTake(t) \/ RemoveChildUnlink(t)

Next == \E t \in Threads : Request(t) \/ Step(t)

Spec == Init /\ [][Next]_vars

-----------------------------------------------------------------------------
(* What a lookup of a request's path finds: AddDirNode ignores empty parts *)
(* of a directory's path, a file's last part is its name.                  *)
Resolve(r) ==
    IF r.op = "AddDirNode" THEN Follow(r.path, {EmptyName})
    ELSE LET p == Follow(Front(r.path), {EmptyName})
         IN  IF p = NoIno THEN NoIno ELSE children[p][Last(r.path)]

(* Node.Path: the names up to the root, a set of one path; or none (an     *)
(* error) when the node or an ancestor is deleted or detached.  Names are  *)
(* joined by "/" except to the root's path, which is "": a file named ""   *)
(* below the root has the root's path.                                     *)
Join(up, x) == IF up = << >> /\ x = EmptyName THEN << >> ELSE Append(up, x)

Path(i) ==
    LET path[n \in Inos] ==
            IF n = RootIno THEN {<< >>}
            ELSE IF isDel[n] \/ parent[n] = NoIno THEN {}
            ELSE {Join(up, name[n]) : up \in path[parent[n]]}
    IN  path[i]

Quiet == \A t \in Threads : pc[t] = "idle"

(* A node stands below an older one under its own name, and in one place   *)
(* only: the children maps always form a forest, whatever AddDirNode,      *)
(* AddFileNode and RemoveChild calls race.                                 *)
Forest ==
    \A p \in Inos, x \in Comps : children[p][x] # NoIno =>
        /\ p < children[p][x]
        /\ name[children[p][x]] = x
        /\ \A q \in Inos, y \in Comps :
               children[q][y] = children[p][x] => q = p /\ y = x

(* No lookup finds a node that AddChild has deleted: it takes the existing *)
(* child out of the map first, and nothing puts that child back.  A node   *)
(* that a caller deletes itself stays where it is.                         *)
Condemned(i) == \E res \in results : res[1].op = "Del" /\ res[2] = i

DeletedUnlinked ==
    \A p \in Inos, x \in Comps : children[p][x] # NoIno =>
        ~isDel[children[p][x]] \/ Condemned(children[p][x])

(* A node in a children map points back to the map's owner, once the       *)
(* AddChild that put it there is through, unless it is deleted: Path       *)
(* climbs the same edges that lookups descend.                             *)
ParentAgrees ==
    \A p \in Inos, x \in Comps : children[p][x] # NoIno =>
        \/ parent[children[p][x]] = p
        \/ isDel[children[p][x]]
        \/ \E t \in Threads : pc[t] = "link" /\ new[t] = children[p][x] /\ cur[t] = p

(* Del was called on the node or on one above it. *)
UnderDel(i) ==
    LET under[n \in Inos] ==
            Condemned(n) \/ (parent[n] \in Inos /\ under[parent[n]])
    IN  under[i]

(* AddDirNode and AddFileNode return the node at the request's path, once  *)
(* all calls have returned, and no later call of theirs takes it away from *)
(* there.  A node that Del was meant to take away, itself or with one      *)
(* above it, may be gone.                                                  *)
ReturnedIsThere ==
    Quiet => \A res \in results :
        res[1].op # "Del" /\ ~UnderDel(res[2]) => Resolve(res[1]) = res[2]

(* Node.Path "returns an error if the node or ancestor is detached or      *)
(* deleted" (filesystem/node.go:50): a node that has a path is what that   *)
(* path leads to.  The one exception is a file named "" directly below the *)
(* root (request path "" or "/"): Path gives it the root's path.           *)
PathLeadsBack ==
    Quiet => \A i \in Inos : \A p \in Path(i) :
        \/ Find(p) = i
        \/ parent[i] = RootIno /\ name[i] = EmptyName /\ Find(p) = RootIno

(* The tree as PathTree sees it: the paths that lookups resolve, down to   *)
(* MaxDepth parts.                                                         *)
Paths   == UNION {[1 .. n -> Comps] : n \in 1 .. MaxDepth}
Entries == [p \in {q \in Paths : Find(q) # NoIno} |-> kind[Find(p)]]

Promise == INSTANCE PathTree WITH entries <- Entries

(* The conditions under which AddDirNode and AddFileNode keep promises     *)
(* that racing calls break: requests come one at a time, as the loader of  *)
(* cmd/wfs makes them; none removes a node; no path runs through a file.   *)
(* Lookups of directories pass over empty parts, so paths are compared     *)
(* without them.                                                           *)
OneCaller == \A t, u \in Threads : t = u
NoRemoval == \A r \in Reqs : r.op # "RemoveChild"

Parts(path) ==
    LET parts[n \in 0 .. Len(path)] ==
            IF n = 0 THEN << >>
            ELSE IF path[n] = EmptyName THEN parts[n - 1]
            ELSE Append(parts[n - 1], path[n])
    IN  parts[Len(path)]
FileParts(r) == Append(Parts(Front(r.path)), Last(r.path))

(* A path that comes to a file ends there: it is a directory's, with at    *)
(* most empty parts left.                                                  *)
NoneThroughFiles ==
    \A s, r \in Reqs :
        s.op = "AddFileNode" /\ r.op \in {"AddDirNode", "AddFileNode"} =>
            \A n \in 0 .. Len(DirPath(r)) :
                Parts(SubSeq(DirPath(r), 1, n)) = FileParts(s) =>
                    /\ r.op = "AddDirNode"
                    /\ \A m \in n + 1 .. Len(r.path) : r.path[m] = EmptyName

(* Under these conditions AddDirNode and AddFileNode only ever add one     *)
(* entry after the other below a directory; none is lost, replaced or      *)
(* changed.                                                                *)
KeepsPromise == Promise!Spec
=============================================================================
