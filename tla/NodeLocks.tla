----------------------------- MODULE NodeLocks -----------------------------
(***************************************************************************)
(* The lock of every node, Node.mu (filesystem/node.go), and how the       *)
(* operations nest it: handlers hold it for reading in a NodeContext       *)
(* (filesystem/context.go, fs.go), ReadDir takes the children's below it   *)
(* (fuse/server.go), Path and the log builders the ancestors', and Del,    *)
(* AddChild and RemoveChild take one node's for writing.                   *)
(*                                                                         *)
(* sync.RWMutex (external): Lock first bars new readers, then waits for    *)
(* those inside; Unlock lets in every reader that was barred.              *)
(***************************************************************************)
EXTENDS Naturals, Sequences, SequencesExt

CONSTANTS
    MaxNode,   \* nodes are numbered by age, the root is 1
    Above,     \* Above[n]: the directory that n was added to
    Procs,     \* goroutines
    NoProc,
    Mixes      \* what each of them may run, in one behaviour

Nodes     == 1 .. MaxNode
NoNode    == 0
Writers   == {"del", "link", "unlink"}
Handlers  == {"stat", "open", "readdir"}
Kinds     == Handlers \cup {"path", "tree"} \cup Writers

ASSUME LocksAssumption ==
    /\ MaxNode \in Nat
    /\ Above \in [Nodes -> Nat]
    /\ \A n \in Nodes : Above[n] < n
    /\ NoProc \notin Procs
    /\ Mixes \subseteq [Procs -> SUBSET Kinds]

VARIABLES
    mix,     \* mix[p]: the kinds of operations that p runs
    link,    \* link[n]: what Node.parent and isDel tell pathLocked
    writer,  \* writer[n]: who is in Lock() or holds n's lock for writing
    pc,      \* pc[p]: the next step of p
    op,      \* op[p]: what p runs
    want,    \* want[p]: the node whose lock p asked for last
    held,    \* held[p]: the read locks p holds, in the order it took them
    due,     \* due[p]: how many of them a deferred Close or RUnlock gives back
    iter     \* iter[p]: the children loops p is in, each with the children left

vars == <<mix, link, writer, pc, op, want, held, due, iter>>

Children(n) == {c \in Nodes : Above[c] = n}

LocksTypeOK ==
    /\ mix \in Mixes
    /\ link \in [Nodes -> {"attached", "detached", "deleted"}]
    /\ writer \in [Nodes -> Procs \cup {NoProc}]
    /\ pc \in [Procs -> {"idle", "nil", "wait", "got", "climb", "next", "io",
                         "unwind", "lock", "drain"}]
    /\ op \in [Procs -> Kinds \cup {"none"}]
    /\ want \in [Procs -> Nodes \cup {NoNode}]
    /\ held \in [Procs -> Seq(Nodes)]
    /\ due \in [Procs -> Nat]
    /\ iter \in [Procs -> Seq(SUBSET Nodes)]

LocksInit ==
    /\ mix \in Mixes
    /\ link = [n \in Nodes |-> "attached"]
    /\ writer = [n \in Nodes |-> NoProc]
    /\ pc = [p \in Procs |-> "idle"]
    /\ op = [p \in Procs |-> "none"]
    /\ want = [p \in Procs |-> NoNode]
    /\ held = [p \in Procs |-> << >>]
    /\ due = [p \in Procs |-> 0]
    /\ iter = [p \in Procs |-> << >>]

Goto(p, label) == pc' = [pc EXCEPT ![p] = label]

(* RLock: at once, unless a writer has come before. *)
RLock(p, n) ==
    /\ want' = [want EXCEPT ![p] = n]
    /\ \/ /\ writer[n] = NoProc
          /\ held' = [held EXCEPT ![p] = Append(@, n)]
          /\ Goto(p, "got")
       \/ /\ writer[n] # NoProc
          /\ Goto(p, "wait")
          /\ UNCHANGED held

(* A request comes in, for a node it has from the registry or from a       *)
(* children map; the root is in none.  GetNodeCtx and GetChildCtx return   *)
(* nil, with nothing locked, for a node that is not there.                 *)
Start(p) ==
    /\ pc[p] = "idle"
    /\ \E k \in mix[p] :
          /\ op' = [op EXCEPT ![p] = k]
          /\ \/ k \notin Writers /\ \E n \in Nodes : RLock(p, n)
             \/ /\ k \in Handlers
                /\ Goto(p, "nil")
                /\ UNCHANGED <<want, held>>
             \/ /\ k \in Writers
                /\ \E n \in Nodes : Above[n] # NoNode /\ want' = [want EXCEPT ![p] = n]
                /\ Goto(p, "lock")
                /\ UNCHANGED held
    /\ UNCHANGED <<mix, link, writer, due, iter>>

(* defer ctx.Close(), defer mu.RUnlock(): for the lock taken last. *)
Defer(p) == due' = [due EXCEPT ![p] = @ + 1]

-----------------------------------------------------------------------------
(* ENOENT: the deferred Close of a nil context does nothing, and Open and  *)
(* FileSystem.Read return before they defer one.                           *)
NotFound(p) ==
    /\ pc[p] = "nil"
    /\ Goto(p, "unwind")
    /\ UNCHANGED <<mix, link, writer, op, want, held, due, iter>>

(* Lookup, GetAttr, OpenDir and ForgetNodeID look at the node. *)
Handle(p) ==
    /\ pc[p] = "got" /\ op[p] = "stat"
    /\ Defer(p)
    /\ Goto(p, "unwind")
    /\ UNCHANGED <<mix, link, writer, op, want, held, iter>>

(* Open, and FileSystem.Read, which may go to the adapters with the lock. *)
HandleFile(p) ==
    /\ pc[p] = "got" /\ op[p] = "open"
    /\ Defer(p)
    /\ \E label \in {"io", "unwind"} : Goto(p, label)
    /\ UNCHANGED <<mix, link, writer, op, want, held, iter>>

(* The source has answered, or failed. *)
IOReturns(p) ==
    /\ pc[p] = "io"
    /\ Goto(p, "unwind")
    /\ UNCHANGED <<mix, link, writer, op, want, held, due, iter>>

(* Mutant: Close is deferred after the handle has been looked up. *)
ReadDirLate(p) ==
    /\ pc[p] = "got" /\ op[p] = "readdir" /\ iter[p] = << >>
    /\ \/ Goto(p, "unwind") /\ UNCHANGED <<due, iter>>
       \/ /\ \E rest \in SUBSET Children(want[p]) \ {{}} : iter' = [iter EXCEPT ![p] = <<rest>>]
          /\ Defer(p)
          /\ Goto(p, "next")
    /\ UNCHANGED <<mix, link, writer, op, want, held>>

(* Mutant: the slice of children starts with a nil (make([]*Node, n)       *)
(* instead of make([]*Node, 0, n)).                                        *)
ReadDirNil(p) ==
    /\ pc[p] = "got" /\ op[p] = "readdir" /\ iter[p] = << >>
    /\ Defer(p)
    /\ iter' = [iter EXCEPT ![p] = <<Children(want[p]) \cup {NoNode}>>]
    /\ Goto(p, "next")
    /\ UNCHANGED <<mix, link, writer, op, want, held>>

(* ReadDir and ReadDirPlus, with the lock of the directory: the handle is  *)
(* unknown, or the offset past the end, or some children are left.         *)
ReadDir(p) ==
    /\ pc[p] = "got" /\ op[p] = "readdir" /\ iter[p] = << >>
    /\ Defer(p)
    /\ \/ Goto(p, "unwind") /\ UNCHANGED iter
       \/ /\ \E rest \in SUBSET Children(want[p]) \ {{}} : iter' = [iter EXCEPT ![p] = <<rest>>]
          /\ Goto(p, "next")
    /\ UNCHANGED <<mix, link, writer, op, want, held>>

(* Mutant: ReadDir logs the path of a child (ch.Path()). *)
ListPath(p) ==
    /\ pc[p] = "got" /\ op[p] = "readdir" /\ iter[p] # << >>
    /\ Defer(p)
    /\ Goto(p, "climb")
    /\ UNCHANGED <<mix, link, writer, op, want, held, iter>>

(* Name() has locked the child and unlocks it; the entry is added, or the  *)
(* buffer is full, which ends the loop.                                    *)
List(p) ==
    /\ pc[p] = "got" /\ op[p] = "readdir" /\ iter[p] # << >>
    /\ held' = [held EXCEPT ![p] = Front(@)]
    /\ \/ Goto(p, "next") /\ UNCHANGED iter
       \/ Goto(p, "unwind") /\ iter' = [iter EXCEPT ![p] = << >>]
    /\ UNCHANGED <<mix, link, writer, op, want, due>>

(* The next child of the innermost loop (ReadDir, IterChildren); ReadDir   *)
(* skips the deleted.  After the last one the context of the loop's node   *)
(* is closed.                                                              *)
NextChild(p) ==
    /\ pc[p] = "next"
    /\ \/ \E c \in Last(iter[p]) :
             /\ iter' = [iter EXCEPT ![p] = Append(Front(@), Last(@) \ {c})]
             /\ \/ (op[p] = "tree" \/ link[c] # "deleted") /\ RLock(p, c)
                \/ op[p] = "readdir" /\ link[c] = "deleted" /\ UNCHANGED <<pc, want, held>>
       \/ /\ Last(iter[p]) = {}
          /\ iter' = [iter EXCEPT ![p] = Front(@)]
          /\ Goto(p, "unwind")
          /\ UNCHANGED <<want, held>>
    /\ UNCHANGED <<mix, link, writer, op, due>>

(* Path climbs from the node; LogNodeTreeBuilder from every node it has    *)
(* come down to, before it goes through the children.                      *)
Name(p) ==
    /\ pc[p] = "got" /\ op[p] \in {"path", "tree"}
    /\ iter' = [iter EXCEPT ![p] =
           IF op[p] = "tree" /\ (Len(held[p]) = 1 \/ want[p] > Last(Front(held[p])))
             THEN Append(@, Children(want[p])) ELSE @]
    /\ Defer(p)
    /\ Goto(p, "climb")
    /\ UNCHANGED <<mix, link, writer, op, want, held>>

(* pathLocked: up to the root, or to a node that is detached or deleted,   *)
(* one Path() inside the other.                                            *)
Climb(p) ==
    LET n == Last(held[p])
    IN  /\ pc[p] = "climb"
        /\ \/ /\ link[n] = "attached" /\ Above[n] # NoNode
              /\ RLock(p, Above[n])
           \/ /\ link[n] # "attached" \/ Above[n] = NoNode
              /\ Goto(p, "unwind")
              /\ UNCHANGED <<want, held>>
        /\ UNCHANGED <<mix, link, writer, op, due, iter>>

Return(p) ==
    /\ Goto(p, "idle")
    /\ op' = [op EXCEPT ![p] = "none"]
    /\ want' = [want EXCEPT ![p] = NoNode]

(* The function returns: NodeContext.Close and the deferred RUnlocks run,  *)
(* down to the context whose children are being visited.                   *)
Unwind(p) ==
    /\ pc[p] = "unwind"
    /\ held' = [held EXCEPT ![p] = SubSeq(@, 1, Len(@) - (due[p] - Len(iter[p])))]
    /\ due' = [due EXCEPT ![p] = Len(iter[p])]
    /\ \/ /\ iter[p] # << >>
          /\ Goto(p, "next")
          /\ UNCHANGED <<op, want>>
       \/ /\ iter[p] = << >>
          /\ Return(p)
    /\ UNCHANGED <<mix, link, writer, iter>>

-----------------------------------------------------------------------------
Holds(p, n) == \E i \in DOMAIN held[p] : held[p][i] = n

(* Lock: one writer at a time bars the readers. *)
Lock(p) ==
    /\ pc[p] = "lock"
    /\ writer[want[p]] = NoProc
    /\ writer' = [writer EXCEPT ![want[p]] = p]
    /\ Goto(p, "drain")
    /\ UNCHANGED <<mix, link, op, want, held, due, iter>>

Barred(p) == {q \in Procs : pc[q] = "wait" /\ want[q] = want[p]}

Unlock(p) ==
    /\ writer' = [writer EXCEPT ![want[p]] = NoProc]
    /\ held' = [q \in Procs |-> IF q \in Barred(p) THEN Append(held[q], want[q]) ELSE held[q]]
    /\ pc' = [q \in Procs |-> IF q = p THEN "idle" ELSE IF q \in Barred(p) THEN "got" ELSE pc[q]]

(* Mutant: Del returns without Unlock. *)
WriteKeeps(p) ==
    /\ pc[p] = "drain"
    /\ \A q \in Procs : ~Holds(q, want[p])
    /\ link' = [link EXCEPT ![want[p]] = "deleted"]
    /\ Return(p)
    /\ UNCHANGED <<mix, writer, held, due, iter>>

(* When the readers inside have left: Del and RemoveChild detach the node, *)
(* AddChild attaches it, and a node that is deleted stays so.  Unlock lets *)
(* in the readers that were barred.                                        *)
Write(p) ==
    /\ pc[p] = "drain"
    /\ \A q \in Procs : ~Holds(q, want[p])
    /\ link' = [link EXCEPT ![want[p]] =
                   IF @ = "deleted" \/ op[p] = "del" THEN "deleted"
                   ELSE IF op[p] = "link" THEN "attached" ELSE "detached"]
    /\ Unlock(p)
    /\ op' = [op EXCEPT ![p] = "none"]
    /\ want' = [want EXCEPT ![p] = NoNode]
    /\ UNCHANGED <<mix, due, iter>>

-----------------------------------------------------------------------------
Step(p) ==
    \/ NotFound(p) \/ Handle(p) \/ HandleFile(p) \/ ReadDir(p) \/ List(p) \/ NextChild(p)
    \/ Name(p) \/ Climb(p) \/ Unwind(p) \/ Lock(p) \/ Write(p)

LocksNext == \E p \in Procs : Start(p) \/ Step(p) \/ IOReturns(p)

LocksSpec == LocksInit /\ [][LocksNext]_vars

(* Goroutines run, and sync.Mutex, which writers queue for in Lock, hands  *)
(* over to one that has waited for long.  Nothing is assumed of the        *)
(* sources: reads have no timeout.                                         *)
FairLocksSpec ==
    /\ LocksSpec
    /\ \A p \in Procs : WF_vars(Step(p)) /\ SF_vars(Lock(p))

-----------------------------------------------------------------------------
Blocked(p) ==
    \/ pc[p] = "wait"
    \/ pc[p] = "lock" /\ writer[want[p]] # NoProc
    \/ pc[p] = "drain" /\ \E q \in Procs : Holds(q, want[p])

WaitsFor(p, q) ==
    \/ pc[p] \in {"wait", "lock"} /\ writer[want[p]] = q
    \/ pc[p] = "drain" /\ Holds(q, want[p])

Deadlocked(S) ==
    S # {} /\ \A p \in S : Blocked(p) /\ \A q \in Procs : WaitsFor(p, q) => q \in S

(* A group of goroutines that only wait for each other has one that takes  *)
(* locks upwards with locks below (Path, LogNodeTreeBuilder) and one that  *)
(* takes them downwards (ReadDir, LogNodeTreeBuilder): the handlers that   *)
(* serve FUSE, which never ask for a path, do not deadlock with each other *)
(* and with Del, AddChild and RemoveChild.                                 *)
NoWaitCycle ==
    \A S \in SUBSET Procs : Deadlocked(S) =>
        /\ \E p \in S : op[p] \in {"path", "tree"}
        /\ \E p \in S : op[p] \in {"readdir", "tree"}

(* Wherever a function returns (a node, a handle or entries missing, the   *)
(* buffer full, a failed read, the end), the Close and RUnlock calls that  *)
(* it has deferred by then are for locks it holds, since RUnlock of one    *)
(* that is not locked is fatal, and leave none locked when the handler is  *)
(* done.                                                                   *)
NothingLeftLocked ==
    \A p \in Procs :
        /\ pc[p] = "unwind" => due[p] \in Len(iter[p]) .. Len(held[p])
        /\ pc[p] = "idle" => held[p] = << >> /\ \A n \in Nodes : writer[n] # p

(* If every read from a source ends and there is no deadlock, every        *)
(* handler returns: a Del that waits for a slow read, and the Lookups that *)
(* wait behind it, go on when the read does (FileSystem.Read keeps the     *)
(* node locked meanwhile).                                                 *)
HandlersReturn ==
    /\ \A p \in Procs : []<>(pc[p] # "io")
    /\ [](\A S \in SUBSET Procs : ~Deadlocked(S))
    => \A p \in Procs : pc[p] # "idle" ~> pc[p] = "idle"
=============================================================================
