----------------------------- MODULE DirStream -----------------------------
(***************************************************************************)
(* Listing one directory: FuseRaw.OpenDir, ReadDir, ReadDirPlus and        *)
(* ReleaseDir (fuse/server.go), while nodes are added to the directory,    *)
(* removed from it and deleted.                                            *)
(*                                                                         *)
(* OpenDir stores a slice of the directory's nodes under a new handle.     *)
(* ReadDir resumes in it at the offset of the last entry the kernel got;   *)
(* go-fuse numbers the entries it sends, so the offset counts entries, not *)
(* places in the slice.  ReadDirPlus runs the same loop; the NodeIDs it    *)
(* hands out are in NodeRegistry.  A reader is an open file of the kernel, *)
(* which serialises the calls on it.                                       *)
(***************************************************************************)
EXTENDS Naturals, Sequences, FiniteSets

CONSTANTS
    Nodes,     \* the nodes that may ever be children of the directory
    First,     \* those that are from the start
    Readers,   \* the kernel's readers
    NoNode,    \* nil
    MaxRoom,   \* bound on the number of entries that a reply has room for
    MaxFh      \* bound on nextDirFh

ASSUME StreamConstants ==
    /\ IsFiniteSet(Nodes) /\ First \subseteq Nodes /\ NoNode \notin Nodes
    /\ MaxRoom \in Nat /\ MaxFh \in Nat \ {0}

VARIABLES
    children,    \* the directory's children map
    fresh,       \* the nodes that have not been in it yet
    isDel,       \* the nodes that are marked deleted
    registered,  \* the directory's NodeID is in the registry
    nextDirFh,   \* FuseRaw.nextDirFh
    openDirs,    \* FuseRaw.openDirs, a partial function
    pc,          \* pc[r]: the step that serves reader r
    fh,          \* fh[r]: r's handle; 0 for none
    off,         \* off[r]: the offset that r's next call passes
    i,           \* i[r]: the place in the slice that ReadDir's loop is at
    outOff,      \* outOff[r]: DirEntryList's offset
    room,        \* room[r]: entries that still fit into the reply
    ended,       \* ended[r]: how the listing ended
    got,         \* history: got[r], the entries r got since it opened or rewound
    must,        \* history: must[r], in the directory, undeleted, since OpenDir
    may          \* history: may[r], in the directory at some time during OpenDir

treeVars == <<children, fresh, isDel, registered>>
callVars == <<i, outOff, room>>
streamVars == <<treeVars, nextDirFh, openDirs, pc, fh, off, callVars, ended, got, must, may>>

StreamTypeOK ==
    /\ children \subseteq Nodes /\ fresh \subseteq Nodes /\ isDel \subseteq Nodes
    /\ registered \in BOOLEAN
    /\ nextDirFh \in 1 .. MaxFh
    /\ DOMAIN openDirs \subseteq 1 .. MaxFh
    /\ openDirs \in [DOMAIN openDirs -> Seq(Nodes \cup {NoNode})]
    /\ pc \in [Readers -> {"closed", "range", "open", "loop"}]
    /\ fh \in [Readers -> 0 .. MaxFh]
    /\ off \in [Readers -> Nat]
    /\ i \in [Readers -> Nat]
    /\ outOff \in [Readers -> Nat]
    /\ room \in [Readers -> 0 .. MaxRoom]
    /\ ended \in [Readers -> {"no", "eof", "error"}]
    /\ got \in [Readers -> Seq(Nodes)]
    /\ must \in [Readers -> SUBSET Nodes]
    /\ may \in [Readers -> SUBSET Nodes]

StreamInit ==
    /\ children = First
    /\ fresh = Nodes \ First
    /\ isDel = {}
    /\ registered = TRUE
    /\ nextDirFh = 1
    /\ openDirs = << >>
    /\ pc = [r \in Readers |-> "closed"]
    /\ fh = [r \in Readers |-> 0]
    /\ off = [r \in Readers |-> 0]
    /\ i = [r \in Readers |-> 0]
    /\ outOff = [r \in Readers |-> 0]
    /\ room = [r \in Readers |-> 0]
    /\ ended = [r \in Readers |-> "no"]
    /\ got = [r \in Readers |-> << >>]
    /\ must = [r \in Readers |-> {}]
    /\ may = [r \in Readers |-> {}]

-----------------------------------------------------------------------------
(* What happens to the directory meanwhile (see NodeTree, NodeRegistry).   *)

AddChild(n) ==
    /\ n \in fresh
    /\ fresh' = fresh \ {n}
    /\ children' = children \cup {n}
    /\ may' = [r \in Readers |-> IF pc[r] = "range" THEN may[r] \cup {n} ELSE may[r]]
    /\ UNCHANGED <<isDel, registered, nextDirFh, openDirs, pc, fh, off, callVars,
                   ended, got, must>>

(* RemoveChild, or the first step of an AddChild that replaces n. *)
RemoveChild(n) ==
    /\ n \in children
    /\ children' = children \ {n}
    /\ must' = [r \in Readers |-> must[r] \ {n}]
    /\ UNCHANGED <<fresh, isDel, registered, nextDirFh, openDirs, pc, fh, off,
                   callVars, ended, got, may>>

Del(n) ==
    /\ n \notin fresh \cup isDel
    /\ isDel' = isDel \cup {n}
    /\ must' = [r \in Readers |-> must[r] \ {n}]
    /\ UNCHANGED <<children, fresh, registered, nextDirFh, openDirs, pc, fh, off,
                   callVars, ended, got, may>>

(* The directory's NodeID leaves the registry, for good: EnsureNodeID never *)
(* enters a node a second time.                                            *)
ForgetNodeID ==
    /\ registered
    /\ registered' = FALSE
    /\ UNCHANGED <<children, fresh, isDel, nextDirFh, openDirs, pc, fh, off,
                   callVars, ended, got, must, may>>

-----------------------------------------------------------------------------
(* OpenDir: GetNodeCtx, then UnsafeChildren starts to range over the map,  *)
(* which it does not lock.  ENOENT leaves nothing behind.                  *)
OpenDir(r) ==
    /\ pc[r] = "closed" /\ registered
    /\ pc' = [pc EXCEPT ![r] = "range"]
    /\ must' = [must EXCEPT ![r] = children \ isDel]
    /\ may' = [may EXCEPT ![r] = children]
    /\ UNCHANGED <<treeVars, nextDirFh, openDirs, fh, off, callVars, ended, got>>

(* The orders in which Range may visit the nodes of S. *)
Listings(S) == {s \in [1 .. Cardinality(S) -> S] : \A n \in S : \E k \in DOMAIN s : s[k] = n}

(* Mutant: the counter is read and written back in two steps. *)
NewFhLost == nextDirFh < MaxFh /\ nextDirFh' \in {nextDirFh, nextDirFh + 1}

(* r.nextDirFh.Add(1) *)
NewFh == nextDirFh < MaxFh /\ nextDirFh' = nextDirFh + 1

(* Range has visited every node that was there all the time and any of     *)
(* those that were there for a while; the slice goes under a new handle.   *)
OpenDirStore(r) ==
    /\ pc[r] = "range"
    /\ NewFh
    /\ \E S \in SUBSET may[r] :
          /\ must[r] \subseteq S
          /\ \E s \in Listings(S) :
                openDirs' = [h \in DOMAIN openDirs \cup {nextDirFh + 1} |->
                                IF h = nextDirFh + 1 THEN s ELSE openDirs[h]]
    /\ pc' = [pc EXCEPT ![r] = "open"]
    /\ fh' = [fh EXCEPT ![r] = nextDirFh + 1]
    /\ off' = [off EXCEPT ![r] = 0]
    /\ ended' = [ended EXCEPT ![r] = "no"]
    /\ got' = [got EXCEPT ![r] = << >>]
    /\ may' = [may EXCEPT ![r] = {}]
    /\ UNCHANGED <<treeVars, callVars, must>>

-----------------------------------------------------------------------------
(* Mutant: one place too far, as if the offset were that of the last entry *)
(* sent and not of the next.                                               *)
ResumePast(r) == off[r] + 2

(* Mutant: the last entry sent is sent again. *)
ResumeBefore(r) == IF off[r] = 0 THEN 1 ELSE off[r]

(* The place where children[input.Offset:] begins. *)
Resume(r) == off[r] + 1

(* ReadDir up to its loop, which runs over children[input.Offset:]: ENOENT *)
(* without the directory or the handle; an empty reply, the end, at an     *)
(* offset behind the slice.                                                *)
ReadDir(r) ==
    /\ pc[r] = "open" /\ ended[r] = "no"
    /\ \/ /\ ~registered \/ fh[r] \notin DOMAIN openDirs
          /\ ended' = [ended EXCEPT ![r] = "error"]
          /\ UNCHANGED <<pc, callVars>>
       \/ /\ registered /\ fh[r] \in DOMAIN openDirs
          /\ off[r] >= Len(openDirs[fh[r]])
          /\ ended' = [ended EXCEPT ![r] = "eof"]
          /\ UNCHANGED <<pc, callVars>>
       \/ /\ registered /\ fh[r] \in DOMAIN openDirs
          /\ off[r] < Len(openDirs[fh[r]])
          /\ pc' = [pc EXCEPT ![r] = "loop"]
          /\ i' = [i EXCEPT ![r] = Resume(r)]
          /\ outOff' = [outOff EXCEPT ![r] = off[r]]
          /\ \E n \in 1 .. MaxRoom : room' = [room EXCEPT ![r] = n]
          /\ UNCHANGED ended
    /\ UNCHANGED <<treeVars, nextDirFh, openDirs, fh, off, got, must, may>>

Here(r) == openDirs[fh[r]][i[r]]

(* Mutant: "continue" without moving on to the next place. *)
ReadDirSkipStuck(r) ==
    /\ pc[r] = "loop" /\ i[r] <= Len(openDirs[fh[r]])
    /\ Here(r) \in isDel \cup {NoNode}
    /\ openDirs' = [openDirs EXCEPT ![fh[r]][i[r]] = NoNode]
    /\ UNCHANGED <<treeVars, nextDirFh, pc, fh, off, i, outOff, room, ended, got, must, may>>

(* A turn that skips: nil, or a deleted node, which becomes nil in the     *)
(* stored slice.                                                           *)
ReadDirSkip(r) ==
    /\ pc[r] = "loop" /\ i[r] <= Len(openDirs[fh[r]])
    /\ Here(r) \in isDel \cup {NoNode}
    /\ openDirs' = [openDirs EXCEPT ![fh[r]][i[r]] = NoNode]
    /\ i' = [i EXCEPT ![r] = @ + 1]
    /\ UNCHANGED <<treeVars, nextDirFh, pc, fh, off, outOff, room, ended, got, must, may>>

(* go-fuse's AddDirEntry (external) takes an entry while there is room and *)
(* gives it the next offset.                                               *)
AddDirEntry(r) ==
    /\ room[r] > 0
    /\ room' = [room EXCEPT ![r] = @ - 1]
    /\ outOff' = [outOff EXCEPT ![r] = @ + 1]

(* Mutant: the places that an earlier call made nil are not skipped. *)
ReadDirEntryNil(r) ==
    /\ pc[r] = "loop" /\ i[r] <= Len(openDirs[fh[r]])
    /\ Here(r) \notin isDel
    /\ AddDirEntry(r)
    /\ got' = [got EXCEPT ![r] = Append(@, Here(r))]
    /\ i' = [i EXCEPT ![r] = @ + 1]
    /\ UNCHANGED <<treeVars, nextDirFh, openDirs, pc, fh, off, ended, must, may>>

(* A turn that sends the node. *)
ReadDirEntry(r) ==
    /\ pc[r] = "loop" /\ i[r] <= Len(openDirs[fh[r]])
    /\ Here(r) \notin isDel \cup {NoNode}
    /\ AddDirEntry(r)
    /\ got' = [got EXCEPT ![r] = Append(@, Here(r))]
    /\ i' = [i EXCEPT ![r] = @ + 1]
    /\ UNCHANGED <<treeVars, nextDirFh, openDirs, pc, fh, off, ended, must, may>>

(* The handler's variables go out of scope. *)
EndCall(r) ==
    /\ pc' = [pc EXCEPT ![r] = "open"]
    /\ i' = [i EXCEPT ![r] = 0]
    /\ outOff' = [outOff EXCEPT ![r] = 0]
    /\ room' = [room EXCEPT ![r] = 0]

(* The end of the slice, or "buffer full".  The kernel goes on from the    *)
(* last entry's offset; a reply without entries tells it that the listing  *)
(* is over.                                                                *)
ReadDirReply(r) ==
    /\ pc[r] = "loop"
    /\ \/ i[r] > Len(openDirs[fh[r]])
       \/ /\ i[r] <= Len(openDirs[fh[r]]) /\ room[r] = 0
          /\ Here(r) \notin isDel \cup {NoNode}
    /\ EndCall(r)
    /\ off' = [off EXCEPT ![r] = outOff[r]]
    /\ ended' = [ended EXCEPT ![r] = IF outOff[r] = off[r] THEN "eof" ELSE "no"]
    /\ UNCHANGED <<treeVars, nextDirFh, openDirs, fh, got, must, may>>

(* rewinddir (external): the kernel starts over with the same handle. *)
Rewind(r) ==
    /\ pc[r] = "open" /\ ended[r] # "error"
    /\ off' = [off EXCEPT ![r] = 0]
    /\ ended' = [ended EXCEPT ![r] = "no"]
    /\ got' = [got EXCEPT ![r] = << >>]
    /\ UNCHANGED <<treeVars, nextDirFh, openDirs, pc, fh, callVars, must, may>>

ReleaseDir(r) ==
    /\ pc[r] = "open"
    /\ openDirs' = [h \in DOMAIN openDirs \ {fh[r]} |-> openDirs[h]]
    /\ pc' = [pc EXCEPT ![r] = "closed"]
    /\ fh' = [fh EXCEPT ![r] = 0]
    /\ off' = [off EXCEPT ![r] = 0]
    /\ ended' = [ended EXCEPT ![r] = "no"]
    /\ got' = [got EXCEPT ![r] = << >>]
    /\ must' = [must EXCEPT ![r] = {}]
    /\ UNCHANGED <<treeVars, nextDirFh, callVars, may>>

-----------------------------------------------------------------------------
Tree == ForgetNodeID \/ \E n \in Nodes : AddChild(n) \/ RemoveChild(n) \/ Del(n)

Loop(r) == ReadDirSkip(r) \/ ReadDirEntry(r) \/ ReadDirReply(r)

List(r) == OpenDirStore(r) \/ ReadDir(r) \/ Loop(r)

StreamNext ==
    Tree \/ \E r \in Readers : OpenDir(r) \/ List(r) \/ Rewind(r) \/ ReleaseDir(r)

StreamSpec == StreamInit /\ [][StreamNext]_streamVars

(* Handlers run, as they wait for nobody here, and a reader asks until it  *)
(* is told the end.                                                        *)
FairStreamSpec == StreamSpec /\ \A r \in Readers : WF_streamVars(List(r))

-----------------------------------------------------------------------------
(* A listing that has come to its end has shown every node that was in the *)
(* directory, undeleted, all the time since OpenDir began, however the     *)
(* replies were split up ("buffer full; kernel will call again with        *)
(* offset", fuse/server.go:204) and whatever was deleted in between: the   *)
(* offsets fall behind the places in the slice, never ahead of them.       *)
NothingMissed ==
    \A r \in Readers : ended[r] = "eof" =>
        \A n \in must[r] : \E k \in DOMAIN got[r] : got[r][k] = n

(* An open handle has a slice of its own: no OpenDir that runs at the same *)
(* time gets the same handle, and no ReleaseDir takes it away              *)
(* (nextDirFh.Add(1), openDirs.Delete).                                    *)
HandlesOwned ==
    \A r \in Readers : pc[r] \in {"open", "loop"} =>
        /\ fh[r] \in DOMAIN openDirs
        /\ \A q \in Readers \ {r} : fh[q] # fh[r]

(* A reader that goes on asking, and neither starts over nor closes, is    *)
(* told the end or an error, although entries may be sent to it more than  *)
(* once: every call of ReadDir that sends something moves the offset on.   *)
ListingEnds ==
    \A r \in Readers :
        pc[r] = "loop" ~>
            \/ ended[r] # "no"
            \/ pc[r] = "closed"
            \/ pc[r] = "open" /\ got[r] = << >>

(* ReadDir is to "handle split up reads" (fuse/server.go:185): a listing   *)
(* read in parts shows an entry twice only if a deleted one was passed     *)
(* over, which offsets do not count.                                       *)
RepeatsNeedSkips ==
    \A r \in Readers :
        /\ pc[r] \in {"open", "loop"}
        /\ \A k \in DOMAIN openDirs[fh[r]] : openDirs[fh[r]][k] # NoNode
        => \A j, k \in DOMAIN got[r] : got[r][j] = got[r][k] => j = k
=============================================================================
