-------------------------- MODULE DirStreamProofs --------------------------
(***************************************************************************)
(* Proofs about DirStream, for any nodes, readers and bounds.              *)
(***************************************************************************)
EXTENDS DirStream, FiniteSetTheorems, TLAPS

(* The slice behind r's handle. *)
Slice(r) == openDirs[fh[r]]

(* Every node of the slice that is before place m and that r must see is   *)
(* among those it got.                                                     *)
Shows(r, m) ==
    \A k \in DOMAIN Slice(r) : k < m /\ Slice(r)[k] \in must[r] =>
        \E j \in DOMAIN got[r] : got[r][j] = Slice(r)[k]

(* The slice holds every node that r must see. *)
Holds(r) == \A n \in must[r] : \E k \in DOMAIN Slice(r) : Slice(r)[k] = n

(* What holds of a reader at each point.  Between two calls all that lies  *)
(* before its offset was shown, where the offset is at or behind the place *)
(* the loop had reached: that is why the numbering by entries misses       *)
(* nothing.  A call that has sent nothing still has room.                  *)
ReaderOK(r) ==
    /\ must[r] \cap isDel = {}
    /\ pc[r] \in {"closed", "range"} => fh[r] = 0 /\ ended[r] = "no"
    /\ pc[r] = "range" => must[r] \subseteq may[r]
    /\ pc[r] \in {"open", "loop"} => fh[r] \in DOMAIN openDirs /\ Holds(r)
    /\ pc[r] = "open" => Shows(r, off[r] + 1)
    /\ pc[r] = "open" /\ ended[r] = "eof" => Shows(r, Len(Slice(r)) + 1)
    /\ pc[r] = "loop" =>
          /\ ended[r] = "no"
          /\ Shows(r, i[r])
          /\ off[r] <= outOff[r] /\ outOff[r] < i[r]
          /\ outOff[r] = off[r] => room[r] > 0

(* The inductive invariant. *)
StreamInv ==
    /\ StreamTypeOK
    /\ HandlesOwned
    /\ \A h \in DOMAIN openDirs : h <= nextDirFh
    /\ \A r \in Readers : ReaderOK(r)

(* A listing of a finite set is a sequence of its elements, all of them. *)
LEMMA ListingsAreSequences ==
    ASSUME NEW S \in SUBSET Nodes, NEW s \in Listings(S)
    PROVE  /\ s \in Seq(Nodes \cup {NoNode})
           /\ \A n \in S : \E k \in DOMAIN s : s[k] = n
<1>1. IsFiniteSet(S)
  BY FS_Subset, StreamConstants
<1>2. Cardinality(S) \in Nat
  BY <1>1, FS_CardinalityType
<1> QED  BY <1>2 DEF Listings

(* A reader whose own state and slice a step leaves alone stays as it is,  *)
(* also when it need see fewer nodes.                                      *)
LEMMA ReaderFrame ==
    ASSUME StreamInv, NEW q \in Readers,
           pc'[q] = pc[q], fh'[q] = fh[q], off'[q] = off[q], i'[q] = i[q],
           outOff'[q] = outOff[q], room'[q] = room[q], ended'[q] = ended[q],
           got'[q] = got[q],
           must'[q] \subseteq must[q], must'[q] \cap isDel' = {},
           pc[q] = "range" => must'[q] \subseteq may'[q],
           fh[q] \in DOMAIN openDirs =>
               fh[q] \in DOMAIN openDirs' /\ openDirs'[fh[q]] = openDirs[fh[q]]
    PROVE  ReaderOK(q)'
<1>1. ReaderOK(q)
  BY DEF StreamInv
<1>2. CASE pc[q] \in {"closed", "range"}
  BY <1>1, <1>2 DEF ReaderOK
<1>3. CASE pc[q] \in {"open", "loop"}
  <2>1. fh[q] \in DOMAIN openDirs' /\ Slice(q)' = Slice(q)
    BY <1>1, <1>3 DEF ReaderOK, Slice
  <2>2. Holds(q)'
    BY <1>1, <1>3, <2>1 DEF ReaderOK, Holds
  <2>3. \A m : Shows(q, m) => \A k \in DOMAIN Slice(q)' :
            k < m /\ Slice(q)'[k] \in must'[q] =>
                \E j \in DOMAIN got'[q] : got'[q][j] = Slice(q)'[k]
    BY <2>1 DEF Shows
  <2>4. pc[q] = "open" => Shows(q, off[q] + 1)'
    BY <1>1, <2>3 DEF ReaderOK, Shows
  <2>5. pc[q] = "open" /\ ended[q] = "eof" => Shows(q, Len(Slice(q)) + 1)'
    BY <1>1, <2>1, <2>3 DEF ReaderOK, Shows
  <2>6. pc[q] = "loop" => Shows(q, i[q])'
    BY <1>1, <2>3 DEF ReaderOK, Shows
  <2> QED  BY <1>1, <1>3, <2>1, <2>2, <2>4, <2>5, <2>6 DEF ReaderOK
<1> QED  BY <1>2, <1>3 DEF StreamInv, StreamTypeOK

LEMMA InitInv == StreamInit => StreamInv
<1> SUFFICES ASSUME StreamInit PROVE StreamInv
  OBVIOUS
<1> USE DEF StreamInit
<1>1. StreamTypeOK
  BY StreamConstants DEF StreamTypeOK
<1>2. HandlesOwned /\ \A h \in DOMAIN openDirs : h <= nextDirFh
  BY DEF HandlesOwned
<1>3. ASSUME NEW r \in Readers PROVE ReaderOK(r)
  BY DEF ReaderOK
<1> QED  BY <1>1, <1>2, <1>3 DEF StreamInv

(* The steps that change the directory. *)
LEMMA TreeInv ==
    ASSUME StreamInv, Tree PROVE StreamInv'
<1> USE DEF StreamInv, treeVars, callVars
<1>1. ASSUME ForgetNodeID PROVE StreamInv'
  <2>1. StreamTypeOK'  BY <1>1 DEF StreamTypeOK, ForgetNodeID
  <2>2. HandlesOwned' /\ (\A h \in DOMAIN openDirs : h <= nextDirFh)'
    BY <1>1 DEF HandlesOwned, ForgetNodeID
  <2>3. ASSUME NEW q \in Readers PROVE ReaderOK(q)'
    <3>1. ReaderOK(q)  OBVIOUS
    <3> QED  BY <1>1, <3>1, ReaderFrame DEF ReaderOK, ForgetNodeID
  <2> QED  BY <2>1, <2>2, <2>3
<1>2. ASSUME NEW n \in Nodes, AddChild(n) PROVE StreamInv'
  <2>1. StreamTypeOK'  BY <1>2 DEF StreamTypeOK, AddChild
  <2>2. HandlesOwned' /\ (\A h \in DOMAIN openDirs : h <= nextDirFh)'
    BY <1>2 DEF HandlesOwned, AddChild
  <2>3. ASSUME NEW q \in Readers PROVE ReaderOK(q)'
    <3>1. ReaderOK(q)  OBVIOUS
    <3>2. must'[q] \subseteq must[q] /\ must'[q] \cap isDel' = {}
      BY <1>2, <3>1 DEF ReaderOK, AddChild
    <3>3. pc[q] = "range" => must'[q] \subseteq may'[q]
      BY <1>2, <3>1 DEF ReaderOK, AddChild
    <3> QED  BY <1>2, <3>2, <3>3, ReaderFrame DEF AddChild
  <2> QED  BY <2>1, <2>2, <2>3
<1>3. ASSUME NEW n \in Nodes, RemoveChild(n) PROVE StreamInv'
  <2>1. StreamTypeOK'  BY <1>3 DEF StreamTypeOK, RemoveChild
  <2>2. HandlesOwned' /\ (\A h \in DOMAIN openDirs : h <= nextDirFh)'
    BY <1>3 DEF HandlesOwned, RemoveChild
  <2>3. ASSUME NEW q \in Readers PROVE ReaderOK(q)'
    <3>1. ReaderOK(q)  OBVIOUS
    <3>2. must'[q] \subseteq must[q] /\ must'[q] \cap isDel' = {}
      BY <1>3, <3>1 DEF ReaderOK, RemoveChild
    <3>3. pc[q] = "range" => must'[q] \subseteq may'[q]
      BY <1>3, <3>1, <3>2 DEF ReaderOK, RemoveChild
    <3> QED  BY <1>3, <3>2, <3>3, ReaderFrame DEF RemoveChild
  <2> QED  BY <2>1, <2>2, <2>3
<1>4. ASSUME NEW n \in Nodes, Del(n) PROVE StreamInv'
  <2>1. StreamTypeOK'  BY <1>4 DEF StreamTypeOK, Del
  <2>2. HandlesOwned' /\ (\A h \in DOMAIN openDirs : h <= nextDirFh)'
    BY <1>4 DEF HandlesOwned, Del
  <2>3. ASSUME NEW q \in Readers PROVE ReaderOK(q)'
    <3>1. ReaderOK(q)  OBVIOUS
    <3>2. must'[q] \subseteq must[q] /\ must'[q] \cap isDel' = {}
      BY <1>4, <3>1 DEF ReaderOK, Del
    <3>3. pc[q] = "range" => must'[q] \subseteq may'[q]
      BY <1>4, <3>1, <3>2 DEF ReaderOK, Del
    <3> QED  BY <1>4, <3>2, <3>3, ReaderFrame DEF Del
  <2> QED  BY <2>1, <2>2, <2>3
<1> QED  BY <1>1, <1>2, <1>3, <1>4 DEF Tree

(* OpenDir's two parts: the slice holds what was there all the time. *)
LEMMA OpenInv ==
    ASSUME StreamInv, NEW r \in Readers, OpenDir(r) \/ OpenDirStore(r)
    PROVE  StreamInv'
<1> USE DEF StreamInv, treeVars, callVars
<1>1. ASSUME OpenDir(r) PROVE StreamInv'
  <2>1. StreamTypeOK'  BY <1>1 DEF StreamTypeOK, OpenDir
  <2>2. HandlesOwned' /\ (\A h \in DOMAIN openDirs : h <= nextDirFh)'
    BY <1>1 DEF HandlesOwned, OpenDir, StreamTypeOK
  <2>3. ReaderOK(r)'
    BY <1>1 DEF ReaderOK, OpenDir, StreamTypeOK
  <2>4. ASSUME NEW q \in Readers, q # r PROVE ReaderOK(q)'
    <3>1. ReaderOK(q)  OBVIOUS
    <3> QED  BY <1>1, <2>4, <3>1, ReaderFrame DEF ReaderOK, OpenDir, StreamTypeOK
  <2> QED  BY <2>1, <2>2, <2>3, <2>4
<1>2. ASSUME OpenDirStore(r) PROVE StreamInv'
  <2> DEFINE new == nextDirFh + 1
  <2>1. PICK S \in SUBSET may[r] :
            /\ must[r] \subseteq S
            /\ \E s \in Listings(S) :
                  openDirs' = [h \in DOMAIN openDirs \cup {new} |->
                                  IF h = new THEN s ELSE openDirs[h]]
    BY <1>2 DEF OpenDirStore
  <2>2. PICK s \in Listings(S) :
            openDirs' = [h \in DOMAIN openDirs \cup {new} |->
                            IF h = new THEN s ELSE openDirs[h]]
    BY <2>1
  <2>3. S \in SUBSET Nodes
    BY <2>1 DEF StreamTypeOK
  <2>4. /\ s \in Seq(Nodes \cup {NoNode})
        /\ \A n \in S : \E k \in DOMAIN s : s[k] = n
    BY <2>3, ListingsAreSequences
  <2>5. new \in 1 .. MaxFh /\ new \notin DOMAIN openDirs /\ nextDirFh' = new
    BY <1>2, StreamConstants DEF OpenDirStore, NewFh, StreamTypeOK
  <2>6. DOMAIN openDirs' = DOMAIN openDirs \cup {new} /\ openDirs'[new] = s
        /\ \A h \in DOMAIN openDirs : openDirs'[h] = openDirs[h]
    BY <2>2, <2>5
  <2>7. StreamTypeOK'
    <3>1. openDirs' \in [DOMAIN openDirs' -> Seq(Nodes \cup {NoNode})]
      BY <2>2, <2>4, <2>6 DEF StreamTypeOK
    <3>2. DOMAIN openDirs' \subseteq 1 .. MaxFh
      BY <2>5, <2>6 DEF StreamTypeOK
    <3>3. nextDirFh' \in 1 .. MaxFh
      BY <2>5
    <3>4. pc' \in [Readers -> {"closed", "range", "open", "loop"}]
      BY <1>2 DEF StreamTypeOK, OpenDirStore
    <3>5. fh' \in [Readers -> 0 .. MaxFh]
      <4>1. fh' = [fh EXCEPT ![r] = new]  BY <1>2 DEF OpenDirStore
      <4>2. new \in 0 .. MaxFh  BY <2>5
      <4> QED  BY <4>1, <4>2 DEF StreamTypeOK
    <3>6. off' \in [Readers -> Nat] /\ ended' \in [Readers -> {"no", "eof", "error"}]
      BY <1>2 DEF StreamTypeOK, OpenDirStore
    <3>7. got' \in [Readers -> Seq(Nodes)]
      BY <1>2 DEF StreamTypeOK, OpenDirStore
    <3>8. may' \in [Readers -> SUBSET Nodes]
      BY <1>2 DEF StreamTypeOK, OpenDirStore
    <3>9. UNCHANGED <<children, fresh, isDel, registered, i, outOff, room, must>>
      BY <1>2 DEF OpenDirStore
    <3> QED  BY <3>1, <3>2, <3>3, <3>4, <3>5, <3>6, <3>7, <3>8, <3>9 DEF StreamTypeOK
  <2>8. (\A h \in DOMAIN openDirs : h <= nextDirFh)'
    BY <2>5, <2>6 DEF StreamTypeOK
  <2>9. \A q \in Readers : fh[q] # new
    <3>1. ASSUME NEW q \in Readers PROVE fh[q] = 0 \/ fh[q] \in DOMAIN openDirs
      <4>1. ReaderOK(q)  OBVIOUS
      <4> QED  BY <4>1 DEF ReaderOK, StreamTypeOK
    <3> QED  BY <2>5, <3>1
  <2>10. HandlesOwned'
    BY <1>2, <2>5, <2>6, <2>9 DEF HandlesOwned, OpenDirStore, StreamTypeOK
  <2>11. ReaderOK(r)'
    <3>1. /\ pc'[r] = "open" /\ fh'[r] = new /\ off'[r] = 0 /\ ended'[r] = "no"
          /\ must' = must /\ isDel' = isDel
      BY <1>2 DEF OpenDirStore, StreamTypeOK
    <3>2. Slice(r)' = s
      BY <2>6, <3>1 DEF Slice
    <3>3. Holds(r)'
      BY <2>1, <2>4, <3>1, <3>2 DEF Holds
    <3>4. Shows(r, off[r] + 1)'
      BY <2>4, <3>1, <3>2 DEF Shows
    <3>5. must[r] \cap isDel = {}
      BY DEF ReaderOK
    <3> QED  BY <2>6, <3>1, <3>3, <3>4, <3>5 DEF ReaderOK
  <2>12. ASSUME NEW q \in Readers, q # r PROVE ReaderOK(q)'
    <3>1. ReaderOK(q)  OBVIOUS
    <3> QED  BY <1>2, <2>6, <2>12, <3>1, ReaderFrame
             DEF ReaderOK, OpenDirStore, StreamTypeOK
  <2> QED  BY <2>7, <2>8, <2>10, <2>11, <2>12
<1> QED  BY <1>1, <1>2

(* A call of ReadDir: the loop starts behind what was shown. *)
LEMMA ReadDirInv ==
    ASSUME StreamInv, NEW r \in Readers, ReadDir(r)
    PROVE  StreamInv'
<1> USE DEF StreamInv, treeVars, callVars
<1>1. StreamTypeOK'
  <2>1. /\ pc' \in [Readers -> {"closed", "range", "open", "loop"}]
        /\ ended' \in [Readers -> {"no", "eof", "error"}]
    BY DEF StreamTypeOK, ReadDir, Resume
  <2>2. \/ i' = i /\ outOff' = outOff /\ room' = room
        \/ /\ i' = [i EXCEPT ![r] = off[r] + 1]
           /\ outOff' = [outOff EXCEPT ![r] = off[r]]
           /\ \E n \in 1 .. MaxRoom : room' = [room EXCEPT ![r] = n]
    BY DEF ReadDir, Resume
  <2>3. /\ i' \in [Readers -> Nat] /\ outOff' \in [Readers -> Nat]
        /\ room' \in [Readers -> 0 .. MaxRoom]
    <3>1. CASE i' = i /\ outOff' = outOff /\ room' = room
      BY <3>1 DEF StreamTypeOK
    <3>2. CASE /\ i' = [i EXCEPT ![r] = off[r] + 1]
               /\ outOff' = [outOff EXCEPT ![r] = off[r]]
               /\ \E n \in 1 .. MaxRoom : room' = [room EXCEPT ![r] = n]
      <4>1. off[r] \in Nat /\ off[r] + 1 \in Nat
        BY DEF StreamTypeOK
      <4>2. PICK n \in 1 .. MaxRoom : room' = [room EXCEPT ![r] = n]
        BY <3>2
      <4>3. n \in 0 .. MaxRoom
        BY <4>2, StreamConstants
      <4> QED  BY <3>2, <4>1, <4>2, <4>3 DEF StreamTypeOK
    <3> QED  BY <2>2, <3>1, <3>2
  <2> QED  BY <2>1, <2>3 DEF StreamTypeOK, ReadDir, Resume
<1>2. HandlesOwned' /\ (\A h \in DOMAIN openDirs : h <= nextDirFh)'
  BY DEF HandlesOwned, ReadDir, StreamTypeOK
<1>3. ReaderOK(r)'
  <2>1. ReaderOK(r)  OBVIOUS
  <2>2. /\ Slice(r)' = Slice(r) /\ fh' = fh /\ off' = off /\ got' = got
        /\ must' = must /\ isDel' = isDel /\ openDirs' = openDirs
        /\ pc[r] = "open" /\ off[r] \in Nat
    BY DEF ReadDir, Slice, StreamTypeOK
  <2>3. Holds(r)'
    BY <2>1, <2>2 DEF ReaderOK, Holds
  <2>4. Shows(r, off[r] + 1)'
    BY <2>1, <2>2 DEF ReaderOK, Shows
  <2>5. CASE ended' = [ended EXCEPT ![r] = "error"] /\ pc' = pc
    BY <2>1, <2>2, <2>3, <2>4, <2>5 DEF ReaderOK, StreamTypeOK
  <2>6. CASE /\ off[r] >= Len(openDirs[fh[r]])
             /\ ended' = [ended EXCEPT ![r] = "eof"] /\ pc' = pc
    <3>1. Slice(r) \in Seq(Nodes \cup {NoNode})
      BY <2>1, <2>2 DEF ReaderOK, Slice, StreamTypeOK
    <3>2. Shows(r, Len(Slice(r)) + 1)'
      BY <2>2, <2>4, <2>6, <3>1 DEF Shows, Slice
    <3> QED  BY <2>1, <2>2, <2>3, <2>4, <2>6, <3>2 DEF ReaderOK, StreamTypeOK
  <2>7. CASE /\ pc' = [pc EXCEPT ![r] = "loop"] /\ ended' = ended
             /\ i' = [i EXCEPT ![r] = off[r] + 1]
             /\ outOff' = [outOff EXCEPT ![r] = off[r]]
             /\ \E n \in 1 .. MaxRoom : room' = [room EXCEPT ![r] = n]
    <3>1. /\ pc'[r] = "loop" /\ i'[r] = off[r] + 1 /\ outOff'[r] = off[r]
          /\ room'[r] > 0 /\ ended'[r] = "no"
      BY <2>7, StreamConstants DEF ReadDir, Resume, StreamTypeOK
    <3>2. Shows(r, i[r])'
      BY <2>2, <2>4, <3>1 DEF Shows
    <3> QED  BY <2>1, <2>2, <2>3, <3>1, <3>2 DEF ReaderOK
  <2> QED  BY <2>5, <2>6, <2>7 DEF ReadDir, Resume
<1>4. ASSUME NEW q \in Readers, q # r PROVE ReaderOK(q)'
  <2>1. ReaderOK(q)  OBVIOUS
  <2> QED  BY <1>4, <2>1, ReaderFrame DEF ReaderOK, ReadDir, StreamTypeOK
<1> QED  BY <1>1, <1>2, <1>3, <1>4

(* A turn that skips only takes a deleted node, which nobody must see, out *)
(* of the slice.                                                           *)
LEMMA SkipInv ==
    ASSUME StreamInv, NEW r \in Readers, ReadDirSkip(r)
    PROVE  StreamInv'
<1> USE DEF StreamInv, treeVars, callVars
<1> DEFINE h == fh[r]
           p == i[r]
<1>1. ReaderOK(r)
  OBVIOUS
<1>2. /\ pc[r] = "loop" /\ h \in DOMAIN openDirs
      /\ Slice(r) \in Seq(Nodes \cup {NoNode}) /\ Slice(r) = openDirs[h]
      /\ p \in Nat /\ p > 0 /\ p <= Len(Slice(r))
  BY <1>1 DEF ReadDirSkip, ReaderOK, Slice, StreamTypeOK
<1>3. p \in DOMAIN Slice(r) /\ Slice(r)[p] \in isDel \cup {NoNode}
  BY <1>2 DEF ReadDirSkip, Here, Slice
<1>4. openDirs' = [openDirs EXCEPT ![h] = [Slice(r) EXCEPT ![p] = NoNode]]
  BY <1>2 DEF ReadDirSkip, Slice
<1>5. [Slice(r) EXCEPT ![p] = NoNode] \in Seq(Nodes \cup {NoNode})
  BY <1>2
<1>6. /\ DOMAIN openDirs' = DOMAIN openDirs
      /\ openDirs'[h] = [Slice(r) EXCEPT ![p] = NoNode]
      /\ \A g \in DOMAIN openDirs : g # h => openDirs'[g] = openDirs[g]
      /\ openDirs' \in [DOMAIN openDirs' -> Seq(Nodes \cup {NoNode})]
  BY <1>2, <1>4, <1>5 DEF StreamTypeOK
<1>7. StreamTypeOK'
  BY <1>6 DEF StreamTypeOK, ReadDirSkip
<1>8. HandlesOwned' /\ (\A g \in DOMAIN openDirs : g <= nextDirFh)'
  BY <1>6 DEF HandlesOwned, ReadDirSkip
<1>9. ReaderOK(r)'
  <2>1. /\ pc'[r] = "loop" /\ fh' = fh /\ off' = off /\ outOff' = outOff
        /\ room' = room /\ ended' = ended /\ got' = got /\ must' = must
        /\ isDel' = isDel /\ i'[r] = p + 1
    BY <1>2 DEF ReadDirSkip, StreamTypeOK
  <2>2. Slice(r)' = [Slice(r) EXCEPT ![p] = NoNode]
    BY <1>6, <2>1 DEF Slice
  <2>3. DOMAIN Slice(r)' = DOMAIN Slice(r)
    BY <2>2
  <2>4. must[r] \subseteq Nodes /\ must[r] \cap isDel = {}
    BY <1>1 DEF ReaderOK, StreamTypeOK
  <2>5. Slice(r)[p] \notin must[r] /\ NoNode \notin must[r]
    BY <1>3, <2>4, StreamConstants
  <2>6. Holds(r)'
    BY <1>1, <1>2, <2>1, <2>2, <2>3, <2>5 DEF ReaderOK, Holds
  <2>7. Shows(r, i[r])
    BY <1>1, <1>2 DEF ReaderOK
  <2>8. Shows(r, i[r])'
    <3>1. SUFFICES ASSUME NEW k \in DOMAIN Slice(r), k < p + 1,
                          Slice(r)'[k] \in must[r]
                   PROVE  \E j \in DOMAIN got[r] : got[r][j] = Slice(r)'[k]
      BY <2>1, <2>3 DEF Shows
    <3>2. k \in Nat /\ k # p
      BY <1>2, <1>3, <2>2, <2>5, <3>1
    <3>3. k < p /\ Slice(r)'[k] = Slice(r)[k]
      BY <1>2, <2>2, <3>1, <3>2
    <3> QED  BY <2>7, <3>1, <3>3 DEF Shows
  <2>9. /\ ended[r] = "no" /\ off[r] <= outOff[r] /\ outOff[r] < p
        /\ (outOff[r] = off[r] => room[r] > 0) /\ outOff[r] \in Nat
    BY <1>1, <1>2 DEF ReaderOK, StreamTypeOK
  <2>10. outOff[r] < p + 1
    BY <1>2, <2>9
  <2> QED  BY <1>2, <1>6, <2>1, <2>4, <2>6, <2>8, <2>9, <2>10 DEF ReaderOK
<1>10. ASSUME NEW q \in Readers, q # r PROVE ReaderOK(q)'
  <2>1. ReaderOK(q)  OBVIOUS
  <2>2. fh[q] # h
    BY <1>2, <1>10 DEF HandlesOwned
  <2>3. fh[q] \in DOMAIN openDirs =>
            fh[q] \in DOMAIN openDirs' /\ openDirs'[fh[q]] = openDirs[fh[q]]
    BY <1>6, <2>2
  <2>4. /\ pc' = pc /\ fh' = fh /\ off' = off /\ i'[q] = i[q] /\ outOff' = outOff
        /\ room' = room /\ ended' = ended /\ got' = got /\ must' = must /\ may' = may
        /\ isDel' = isDel
    BY <1>10 DEF ReadDirSkip, StreamTypeOK
  <2>5. must[q] \cap isDel = {} /\ (pc[q] = "range" => must[q] \subseteq may[q])
    BY <2>1 DEF ReaderOK
  <2> QED  BY <2>3, <2>4, <2>5, ReaderFrame
<1> QED  BY <1>7, <1>8, <1>9, <1>10

(* A turn that sends shows the node at its place, and the offset and the   *)
(* place both go up by one.                                                *)
LEMMA EntryInv ==
    ASSUME StreamInv, NEW r \in Readers, ReadDirEntry(r)
    PROVE  StreamInv'
<1> USE DEF StreamInv, treeVars, callVars
<1> DEFINE p == i[r]
<1>1. ReaderOK(r)
  OBVIOUS
<1>2. /\ pc[r] = "loop" /\ fh[r] \in DOMAIN openDirs
      /\ Slice(r) \in Seq(Nodes \cup {NoNode})
      /\ p \in Nat /\ p > 0 /\ p <= Len(Slice(r))
  BY <1>1 DEF ReadDirEntry, ReaderOK, Slice, StreamTypeOK
<1>3. Here(r) = Slice(r)[p] /\ Here(r) \in Nodes
  BY <1>2 DEF ReadDirEntry, Here, Slice
<1>4. StreamTypeOK'
  <2>1. got' \in [Readers -> Seq(Nodes)]
    BY <1>3 DEF StreamTypeOK, ReadDirEntry
  <2>2. room' \in [Readers -> 0 .. MaxRoom] /\ outOff' \in [Readers -> Nat]
    BY StreamConstants DEF StreamTypeOK, ReadDirEntry, AddDirEntry
  <2> QED  BY <2>1, <2>2 DEF StreamTypeOK, ReadDirEntry
<1>5. HandlesOwned' /\ (\A g \in DOMAIN openDirs : g <= nextDirFh)'
  BY DEF HandlesOwned, ReadDirEntry
<1>6. ReaderOK(r)'
  <2>1. /\ pc' = pc /\ fh' = fh /\ off' = off /\ ended' = ended /\ must' = must
        /\ isDel' = isDel /\ openDirs' = openDirs /\ i'[r] = p + 1
        /\ outOff'[r] = outOff[r] + 1 /\ Slice(r)' = Slice(r)
        /\ got'[r] = Append(got[r], Slice(r)[p])
    BY <1>3 DEF ReadDirEntry, AddDirEntry, Slice, StreamTypeOK
  <2>2. got[r] \in Seq(Nodes) /\ outOff[r] \in Nat /\ off[r] \in Nat
    BY DEF StreamTypeOK
  <2>3. /\ \A j \in DOMAIN got[r] : j \in DOMAIN got'[r] /\ got'[r][j] = got[r][j]
        /\ \E j \in DOMAIN got'[r] : got'[r][j] = Slice(r)[p]
    <3>1. Len(got'[r]) = Len(got[r]) + 1 /\ got'[r][Len(got[r]) + 1] = Slice(r)[p]
      BY <1>3, <2>1, <2>2
    <3>2. DOMAIN got'[r] = 1 .. (Len(got[r]) + 1) /\ Len(got[r]) \in Nat
      BY <1>3, <2>1, <2>2
    <3>3. \E j \in DOMAIN got'[r] : got'[r][j] = Slice(r)[p]
      BY <3>1, <3>2
    <3>4. ASSUME NEW j \in DOMAIN got[r]
          PROVE  j \in DOMAIN got'[r] /\ got'[r][j] = got[r][j]
      <4>1. j \in 1 .. Len(got[r])
        BY <2>2
      <4> QED  BY <1>3, <2>1, <2>2, <3>2, <4>1
    <3> QED  BY <3>3, <3>4
  <2>4. Holds(r)'
    BY <1>1, <1>2, <2>1 DEF ReaderOK, Holds
  <2>5. Shows(r, i[r])
    BY <1>1, <1>2 DEF ReaderOK
  <2>6. Shows(r, i[r])'
    <3>1. SUFFICES ASSUME NEW k \in DOMAIN Slice(r), k < p + 1, Slice(r)[k] \in must[r]
                   PROVE  \E j \in DOMAIN got'[r] : got'[r][j] = Slice(r)[k]
      BY <2>1 DEF Shows
    <3>2. CASE k = p
      BY <2>3, <3>2
    <3>3. CASE k # p
      <4>1. k < p
        BY <1>2, <3>1, <3>3
      <4> QED  BY <2>3, <2>5, <3>1, <4>1 DEF Shows
    <3> QED  BY <3>2, <3>3
  <2>7. /\ ended[r] = "no" /\ off[r] <= outOff[r] /\ outOff[r] < p
        /\ must[r] \cap isDel = {}
    BY <1>1, <1>2 DEF ReaderOK
  <2>8. off[r] <= outOff[r] + 1 /\ outOff[r] + 1 < p + 1 /\ outOff[r] + 1 # off[r]
    BY <1>2, <2>2, <2>7
  <2> QED  BY <1>2, <2>1, <2>4, <2>6, <2>7, <2>8 DEF ReaderOK
<1>7. ASSUME NEW q \in Readers, q # r PROVE ReaderOK(q)'
  <2>1. ReaderOK(q)  OBVIOUS
  <2> QED  BY <1>7, <2>1, ReaderFrame DEF ReaderOK, ReadDirEntry, AddDirEntry, StreamTypeOK
<1> QED  BY <1>4, <1>5, <1>6, <1>7

(* A reply: the next offset is behind the place the loop has reached, and  *)
(* an empty reply means that the loop has reached the end.                 *)
LEMMA ReplyInv ==
    ASSUME StreamInv, NEW r \in Readers, ReadDirReply(r)
    PROVE  StreamInv'
<1> USE DEF StreamInv, treeVars, callVars
<1>1. ReaderOK(r)
  OBVIOUS
<1>2. /\ pc[r] = "loop" /\ fh[r] \in DOMAIN openDirs
      /\ Slice(r) \in Seq(Nodes \cup {NoNode})
      /\ i[r] \in Nat /\ outOff[r] \in Nat /\ off[r] \in Nat
  BY <1>1 DEF ReadDirReply, ReaderOK, Slice, StreamTypeOK
<1>3. StreamTypeOK'
  BY StreamConstants DEF StreamTypeOK, ReadDirReply, EndCall
<1>4. HandlesOwned' /\ (\A g \in DOMAIN openDirs : g <= nextDirFh)'
  BY DEF HandlesOwned, ReadDirReply, EndCall, StreamTypeOK
<1>5. ReaderOK(r)'
  <2>1. /\ pc'[r] = "open" /\ fh' = fh /\ got' = got /\ must' = must
        /\ isDel' = isDel /\ openDirs' = openDirs /\ Slice(r)' = Slice(r)
        /\ off'[r] = outOff[r]
        /\ ended'[r] = IF outOff[r] = off[r] THEN "eof" ELSE "no"
    BY DEF ReadDirReply, EndCall, Slice, StreamTypeOK
  <2>2. Holds(r)'
    BY <1>1, <1>2, <2>1 DEF ReaderOK, Holds
  <2>3. Shows(r, i[r]) /\ outOff[r] < i[r] /\ (outOff[r] = off[r] => room[r] > 0)
    BY <1>1, <1>2 DEF ReaderOK
  <2>4. Shows(r, off[r] + 1)'
    BY <1>2, <2>1, <2>3 DEF Shows
  <2>5. ended'[r] = "eof" => Shows(r, Len(Slice(r)) + 1)'
    <3>1. SUFFICES ASSUME outOff[r] = off[r] PROVE Shows(r, Len(Slice(r)) + 1)'
      BY <2>1
    <3>2. i[r] > Len(Slice(r))
      BY <2>3, <3>1 DEF ReadDirReply, Slice, StreamTypeOK
    <3> QED  BY <1>2, <2>1, <2>3, <3>2 DEF Shows
  <2> QED  BY <1>1, <1>2, <2>1, <2>2, <2>4, <2>5 DEF ReaderOK
<1>6. ASSUME NEW q \in Readers, q # r PROVE ReaderOK(q)'
  <2>1. ReaderOK(q)  OBVIOUS
  <2> QED  BY <1>6, <2>1, ReaderFrame DEF ReaderOK, ReadDirReply, EndCall, StreamTypeOK
<1> QED  BY <1>3, <1>4, <1>5, <1>6

(* Starting over, and closing. *)
LEMMA CloseInv ==
    ASSUME StreamInv, NEW r \in Readers, Rewind(r) \/ ReleaseDir(r)
    PROVE  StreamInv'
<1> USE DEF StreamInv, treeVars, callVars
<1>1. ReaderOK(r)
  OBVIOUS
<1>2. /\ pc[r] = "open" /\ fh[r] \in DOMAIN openDirs
      /\ Slice(r) \in Seq(Nodes \cup {NoNode})
  BY <1>1 DEF Rewind, ReleaseDir, ReaderOK, Slice, StreamTypeOK
<1>3. ASSUME Rewind(r) PROVE StreamInv'
  <2>1. StreamTypeOK'
    BY <1>3 DEF StreamTypeOK, Rewind
  <2>2. HandlesOwned' /\ (\A g \in DOMAIN openDirs : g <= nextDirFh)'
    BY <1>3 DEF HandlesOwned, Rewind
  <2>3. ReaderOK(r)'
    <3>1. /\ pc' = pc /\ fh' = fh /\ must' = must /\ isDel' = isDel
          /\ openDirs' = openDirs /\ Slice(r)' = Slice(r)
          /\ off'[r] = 0 /\ ended'[r] = "no"
      BY <1>3 DEF Rewind, Slice, StreamTypeOK
    <3>2. Holds(r)'
      BY <1>1, <1>2, <3>1 DEF ReaderOK, Holds
    <3>3. Shows(r, off[r] + 1)'
      BY <1>2, <3>1 DEF Shows
    <3> QED  BY <1>1, <1>2, <3>1, <3>2, <3>3 DEF ReaderOK
  <2>4. ASSUME NEW q \in Readers, q # r PROVE ReaderOK(q)'
    <3>1. ReaderOK(q)  OBVIOUS
    <3> QED  BY <1>3, <2>4, <3>1, ReaderFrame DEF ReaderOK, Rewind, StreamTypeOK
  <2> QED  BY <2>1, <2>2, <2>3, <2>4
<1>4. ASSUME ReleaseDir(r) PROVE StreamInv'
  <2>1. /\ DOMAIN openDirs' = DOMAIN openDirs \ {fh[r]}
        /\ \A g \in DOMAIN openDirs' : openDirs'[g] = openDirs[g]
        /\ openDirs' \in [DOMAIN openDirs' -> Seq(Nodes \cup {NoNode})]
    BY <1>4 DEF ReleaseDir, StreamTypeOK
  <2>2. StreamTypeOK'
    BY <1>4, <2>1, StreamConstants DEF StreamTypeOK, ReleaseDir
  <2>3. (\A g \in DOMAIN openDirs : g <= nextDirFh)'
    BY <1>4, <2>1 DEF ReleaseDir
  <2>4. HandlesOwned'
    BY <1>2, <1>4, <2>1 DEF HandlesOwned, ReleaseDir, StreamTypeOK
  <2>5. ReaderOK(r)'
    BY <1>4 DEF ReaderOK, ReleaseDir, StreamTypeOK
  <2>6. ASSUME NEW q \in Readers, q # r PROVE ReaderOK(q)'
    <3>1. ReaderOK(q)  OBVIOUS
    <3>2. fh[q] # fh[r]
      BY <1>2, <2>6 DEF HandlesOwned
    <3> QED  BY <1>4, <2>1, <2>6, <3>1, <3>2, ReaderFrame
             DEF ReaderOK, ReleaseDir, StreamTypeOK
  <2> QED  BY <2>2, <2>3, <2>4, <2>5, <2>6
<1> QED  BY <1>3, <1>4

-----------------------------------------------------------------------------
(* The invariant holds in every state of every behaviour of the handlers   *)
(* of a directory.                                                         *)
THEOREM Invariance == StreamSpec => []StreamInv
<1>1. StreamInit => StreamInv
  BY InitInv
<1>2. StreamInv /\ [StreamNext]_streamVars => StreamInv'
  <2> SUFFICES ASSUME StreamInv, [StreamNext]_streamVars PROVE StreamInv'
    OBVIOUS
  <2>1. CASE StreamNext
    BY <2>1, TreeInv, OpenInv, ReadDirInv, SkipInv, EntryInv, ReplyInv, CloseInv
       DEF StreamNext, List, Loop
  <2>2. CASE UNCHANGED streamVars
    <3>1. StreamTypeOK' /\ HandlesOwned' /\ (\A h \in DOMAIN openDirs : h <= nextDirFh)'
      BY <2>2 DEF StreamInv, streamVars, treeVars, callVars, StreamTypeOK, HandlesOwned
    <3>2. ASSUME NEW q \in Readers PROVE ReaderOK(q)'
      <4>1. ReaderOK(q)
        BY DEF StreamInv
      <4> QED  BY <2>2, <4>1, ReaderFrame DEF streamVars, treeVars, callVars, ReaderOK
    <3> QED  BY <3>1, <3>2 DEF StreamInv
  <2> QED  BY <2>1, <2>2
<1> QED  BY <1>1, <1>2, PTL DEF StreamSpec

(* OpenDir, ReadDir and ReleaseDir keep every variable in its type. *)
THEOREM TypeCorrect == StreamSpec => []StreamTypeOK
<1>1. StreamInv => StreamTypeOK
  BY DEF StreamInv
<1> QED  BY <1>1, Invariance, PTL

(* Concurrent OpenDir and ReleaseDir calls leave every open handle its own *)
(* slice.                                                                  *)
THEOREM HandlesAreOwned == StreamSpec => []HandlesOwned
<1>1. StreamInv => HandlesOwned
  BY DEF StreamInv
<1> QED  BY <1>1, Invariance, PTL

(* However ReadDir's replies are split up and whatever is deleted between  *)
(* them, a finished listing has missed no node that was there throughout.  *)
THEOREM NothingIsMissed == StreamSpec => []NothingMissed
<1>1. StreamInv => NothingMissed
  <2> SUFFICES ASSUME StreamInv, NEW r \in Readers, ended[r] = "eof", NEW n \in must[r]
               PROVE  \E k \in DOMAIN got[r] : got[r][k] = n
    BY DEF NothingMissed
  <2>1. ReaderOK(r) /\ pc[r] \in {"closed", "range", "open", "loop"}
    BY DEF StreamInv, StreamTypeOK
  <2>2. pc[r] = "open"
    BY <2>1 DEF ReaderOK
  <2>3. Slice(r) \in Seq(Nodes \cup {NoNode})
    BY <2>1, <2>2 DEF ReaderOK, Slice, StreamInv, StreamTypeOK
  <2>4. PICK k \in DOMAIN Slice(r) : Slice(r)[k] = n
    BY <2>1, <2>2 DEF ReaderOK, Holds
  <2>5. k < Len(Slice(r)) + 1
    BY <2>3
  <2> QED  BY <2>1, <2>2, <2>4, <2>5 DEF ReaderOK, Shows
<1> QED  BY <1>1, Invariance, PTL

-----------------------------------------------------------------------------
(* Why entries repeat only behind skipped ones: while a slice has no nil,  *)
(* what its reader got are its first places, in order, and the offset is   *)
(* their number.                                                           *)

(* No node is in the slice twice. *)
Distinct(r) ==
    \A j, k \in DOMAIN Slice(r) :
        Slice(r)[j] = Slice(r)[k] /\ Slice(r)[j] # NoNode => j = k

NoSkip(r) == \A k \in DOMAIN Slice(r) : Slice(r)[k] # NoNode

(* r got the first n places of its slice. *)
GotFirst(r, n) ==
    /\ Len(got[r]) = n
    /\ \A k \in DOMAIN got[r] : k \in DOMAIN Slice(r) /\ got[r][k] = Slice(r)[k]

InStep(r) ==
    pc[r] \in {"open", "loop"} =>
        /\ Distinct(r)
        /\ NoSkip(r) /\ pc[r] = "open" => GotFirst(r, off[r])
        /\ NoSkip(r) /\ pc[r] = "loop" => GotFirst(r, outOff[r]) /\ i[r] = outOff[r] + 1

StepInv == \A r \in Readers : InStep(r)

(* Range visits as many places as the set has nodes, and every node: none  *)
(* twice.                                                                  *)
LEMMA ListingsAreDistinct ==
    ASSUME NEW S \in SUBSET Nodes, NEW s \in Listings(S)
    PROVE  \A j, k \in DOMAIN s : s[j] = s[k] => j = k
<1> DEFINE n == Cardinality(S)
<1>1. IsFiniteSet(S) /\ n \in Nat
  BY FS_Subset, FS_CardinalityType, StreamConstants
<1>2. IsFiniteSet(1 .. n) /\ Cardinality(1 .. n) = n
  BY <1>1, FS_Interval
<1>3. s \in Surjection(1 .. n, S)
  BY DEF Listings, Surjection
<1>4. s \in Injection(1 .. n, S)
  BY <1>1, <1>2, <1>3, FS_SurjSameCardinalityImpliesInj
<1> QED  BY <1>4 DEF Injection, IsInjective

LEMMA InStepFrame ==
    ASSUME NEW q \in Readers, InStep(q),
           pc'[q] = pc[q], fh'[q] = fh[q], off'[q] = off[q], i'[q] = i[q],
           outOff'[q] = outOff[q], got'[q] = got[q],
           pc[q] \in {"open", "loop"} => openDirs'[fh[q]] = openDirs[fh[q]]
    PROVE  InStep(q)'
<1>1. CASE pc[q] \in {"open", "loop"}
  <2>1. Slice(q)' = Slice(q)
    BY <1>1 DEF Slice
  <2> QED  BY <1>1, <2>1 DEF InStep, Distinct, NoSkip, GotFirst
<1>2. CASE pc[q] \notin {"open", "loop"}
  BY <1>2 DEF InStep
<1> QED  BY <1>1, <1>2

(* A new slice, and one that is read from its beginning.                   *)
LEMMA OpenInStep ==
    ASSUME StreamInv, NEW r \in Readers, InStep(r),
           OpenDir(r) \/ OpenDirStore(r) \/ Rewind(r) \/ ReleaseDir(r)
    PROVE  InStep(r)'
<1> USE DEF StreamInv
<1>1. CASE OpenDir(r)
  BY <1>1 DEF InStep, OpenDir, StreamTypeOK
<1>2. CASE OpenDirStore(r)
  <2>1. PICK S \in SUBSET may[r] : \E s \in Listings(S) :
            openDirs' = [h \in DOMAIN openDirs \cup {nextDirFh + 1} |->
                            IF h = nextDirFh + 1 THEN s ELSE openDirs[h]]
    BY <1>2 DEF OpenDirStore
  <2>2. S \in SUBSET Nodes
    BY DEF StreamTypeOK
  <2> PICK s \in Listings(S) :
            openDirs' = [h \in DOMAIN openDirs \cup {nextDirFh + 1} |->
                            IF h = nextDirFh + 1 THEN s ELSE openDirs[h]]
    BY <2>1
  <2>3. /\ pc'[r] = "open" /\ fh'[r] = nextDirFh + 1 /\ off'[r] = 0
        /\ got'[r] = << >>
    BY <1>2 DEF OpenDirStore, StreamTypeOK
  <2>4. Slice(r)' = s
    BY <2>3 DEF Slice
  <2>5. Distinct(r)'
    BY <2>2, <2>4, ListingsAreDistinct DEF Distinct
  <2>6. Len(got'[r]) = 0 /\ DOMAIN got'[r] = {}
    BY <2>3
  <2> QED  BY <2>3, <2>5, <2>6 DEF InStep, GotFirst
<1>3. CASE Rewind(r)
  <2>1. /\ pc'[r] = "open" /\ pc[r] = "open" /\ off'[r] = 0 /\ got'[r] = << >>
        /\ Slice(r)' = Slice(r)
    BY <1>3 DEF Rewind, Slice, StreamTypeOK
  <2>2. Len(got'[r]) = 0 /\ DOMAIN got'[r] = {}
    BY <2>1
  <2> QED  BY <2>1, <2>2 DEF InStep, Distinct, GotFirst
<1>4. CASE ReleaseDir(r)
  BY <1>4 DEF InStep, ReleaseDir, StreamTypeOK
<1> QED  BY <1>1, <1>2, <1>3, <1>4

(* A call starts where the last one ended, and ends where it has got to.   *)
LEMMA CallInStep ==
    ASSUME StreamInv, NEW r \in Readers, InStep(r), ReadDir(r) \/ ReadDirReply(r)
    PROVE  InStep(r)'
<1> USE DEF StreamInv
<1>1. Slice(r)' = Slice(r) /\ got' = got
  BY DEF ReadDir, ReadDirReply, Slice
<1>2. Distinct(r) => Distinct(r)'
  BY <1>1 DEF Distinct
<1>3. NoSkip(r)' => NoSkip(r)
  BY <1>1 DEF NoSkip
<1>4. CASE ReadDir(r)
  <2>1. CASE pc' = pc
    BY <1>1, <1>2, <1>3, <1>4, <2>1 DEF ReadDir, InStep, GotFirst
  <2>2. CASE pc' # pc
    <3>1. /\ pc'[r] = "loop" /\ pc[r] = "open"
          /\ outOff'[r] = off[r] /\ i'[r] = off[r] + 1
      BY <1>4, <2>2 DEF ReadDir, Resume, StreamTypeOK
    <3> QED  BY <1>1, <1>2, <1>3, <3>1 DEF InStep, GotFirst
  <2> QED  BY <2>1, <2>2
<1>5. CASE ReadDirReply(r)
  <2>1. pc'[r] = "open" /\ pc[r] = "loop" /\ off'[r] = outOff[r]
    BY <1>5 DEF ReadDirReply, EndCall, StreamTypeOK
  <2> QED  BY <1>1, <1>2, <1>3, <2>1 DEF InStep, GotFirst
<1> QED  BY <1>4, <1>5

(* A turn that skips leaves nil behind. *)
LEMMA SkipInStep ==
    ASSUME StreamInv, NEW r \in Readers, InStep(r), ReadDirSkip(r)
    PROVE  InStep(r)'
<1> USE DEF StreamInv
<1> DEFINE p == i[r]
<1>1. ReaderOK(r)
  OBVIOUS
<1>2. /\ pc[r] = "loop" /\ fh[r] \in DOMAIN openDirs
      /\ Slice(r) \in Seq(Nodes \cup {NoNode})
      /\ p \in Nat /\ p > 0 /\ p <= Len(Slice(r))
  BY <1>1 DEF ReadDirSkip, ReaderOK, Slice, StreamTypeOK
<1>3. p \in DOMAIN Slice(r)
  BY <1>2
<1>4. Slice(r)' = [Slice(r) EXCEPT ![p] = NoNode] /\ pc' = pc
  BY <1>2 DEF ReadDirSkip, Slice
<1>5. ~NoSkip(r)'
  BY <1>3, <1>4 DEF NoSkip
<1>6. Distinct(r)'
  BY <1>2, <1>4 DEF InStep, Distinct
<1> QED  BY <1>5, <1>6 DEF InStep

(* A turn that sends goes one place on in the slice and in what was got.   *)
LEMMA EntryInStep ==
    ASSUME StreamInv, NEW r \in Readers, InStep(r), ReadDirEntry(r)
    PROVE  InStep(r)'
<1> USE DEF StreamInv
<1> DEFINE p == i[r]
           n == outOff[r]
<1>1. ReaderOK(r)
  OBVIOUS
<1>2. /\ pc[r] = "loop" /\ fh[r] \in DOMAIN openDirs
      /\ Slice(r) \in Seq(Nodes \cup {NoNode})
      /\ p \in Nat /\ p > 0 /\ p <= Len(Slice(r)) /\ n \in Nat
  BY <1>1 DEF ReadDirEntry, ReaderOK, Slice, StreamTypeOK
<1>3. p \in DOMAIN Slice(r) /\ Slice(r)[p] \in Nodes
  BY <1>2 DEF ReadDirEntry, Here, Slice
<1>4. /\ pc' = pc /\ Slice(r)' = Slice(r) /\ i'[r] = p + 1 /\ outOff'[r] = n + 1
      /\ got'[r] = Append(got[r], Slice(r)[p]) /\ got[r] \in Seq(Nodes)
  BY DEF ReadDirEntry, AddDirEntry, Here, Slice, StreamTypeOK
<1>5. Distinct(r)'
  BY <1>2, <1>4 DEF InStep, Distinct
<1>6. ASSUME NoSkip(r)
      PROVE  GotFirst(r, outOff[r])' /\ p = n + 1
  <2>1. Len(got[r]) = n /\ p = n + 1
        /\ \A k \in DOMAIN got[r] : k \in DOMAIN Slice(r) /\ got[r][k] = Slice(r)[k]
    BY <1>2, <1>6 DEF InStep, GotFirst
  <2>2. /\ Len(got'[r]) = n + 1 /\ DOMAIN got'[r] = 1 .. n + 1
        /\ got'[r][n + 1] = Slice(r)[p]
    BY <1>3, <1>4, <2>1
  <2>3. ASSUME NEW k \in DOMAIN got'[r], k # n + 1
        PROVE  k \in DOMAIN got[r] /\ got'[r][k] = got[r][k]
    <3>1. k \in 1 .. Len(got[r])
      BY <1>2, <2>1, <2>2, <2>3
    <3> QED  BY <1>3, <1>4, <3>1
  <2>4. ASSUME NEW k \in DOMAIN got'[r]
        PROVE  k \in DOMAIN Slice(r) /\ got'[r][k] = Slice(r)[k]
    BY <1>3, <2>1, <2>2, <2>3
  <2> QED  BY <1>2, <1>4, <2>1, <2>2, <2>4 DEF GotFirst
<1>7. NoSkip(r)' => NoSkip(r)
  BY <1>4 DEF NoSkip
<1>8. NoSkip(r)' => GotFirst(r, outOff[r])' /\ i'[r] = outOff'[r] + 1
  BY <1>2, <1>4, <1>6, <1>7
<1> QED  BY <1>2, <1>4, <1>5, <1>8 DEF InStep

(* The other readers' slices stay as they are. *)
LEMMA OthersInStep ==
    ASSUME StreamInv, NEW r \in Readers, NEW q \in Readers, q # r, InStep(q),
           OpenDir(r) \/ List(r) \/ Rewind(r) \/ ReleaseDir(r)
    PROVE  InStep(q)'
<1> USE DEF StreamInv
<1>1. /\ pc'[q] = pc[q] /\ fh'[q] = fh[q] /\ off'[q] = off[q] /\ i'[q] = i[q]
      /\ outOff'[q] = outOff[q] /\ got'[q] = got[q]
  BY DEF OpenDir, List, Loop, OpenDirStore, ReadDir, ReadDirSkip, ReadDirEntry,
         AddDirEntry, ReadDirReply, EndCall, Rewind, ReleaseDir, StreamTypeOK, callVars
<1>2. ASSUME pc[q] \in {"open", "loop"}
      PROVE  openDirs'[fh[q]] = openDirs[fh[q]]
  <2>1. fh[q] \in DOMAIN openDirs /\ fh[q] # fh[r]
    BY <1>2 DEF HandlesOwned
  <2>2. CASE OpenDirStore(r)
    <3>1. fh[q] # nextDirFh + 1
      BY <2>1 DEF StreamTypeOK
    <3> QED  BY <2>1, <2>2, <3>1 DEF OpenDirStore
  <2>3. CASE ReleaseDir(r)
    BY <2>1, <2>3 DEF ReleaseDir
  <2>4. CASE ReadDirSkip(r)
    BY <2>1, <2>4 DEF ReadDirSkip
  <2>5. CASE ~(OpenDirStore(r) \/ ReleaseDir(r) \/ ReadDirSkip(r))
    BY <2>5 DEF OpenDir, List, Loop, ReadDir, ReadDirEntry, ReadDirReply, Rewind
  <2> QED  BY <2>2, <2>3, <2>4, <2>5
<1> QED  BY <1>1, <1>2, InStepFrame

(* A listing read in parts repeats an entry only after a deleted one was   *)
(* passed over.                                                            *)
THEOREM RepeatsOnlyBehindSkips == StreamSpec => []RepeatsNeedSkips
<1>1. StreamInit => StepInv
  BY DEF StreamInit, StepInv, InStep
<1>2. StreamInv /\ StepInv /\ [StreamNext]_streamVars => StepInv'
  <2> SUFFICES ASSUME StreamInv, StepInv, [StreamNext]_streamVars, NEW q \in Readers
               PROVE  InStep(q)'
    BY DEF StepInv
  <2>1. InStep(q)
    BY DEF StepInv
  <2>2. CASE Tree \/ UNCHANGED streamVars
    <3>1. UNCHANGED <<openDirs, pc, fh, off, i, outOff, got>>
      BY <2>2 DEF Tree, ForgetNodeID, AddChild, RemoveChild, Del, streamVars, callVars
    <3> QED  BY <2>1, <3>1, InStepFrame
  <2>3. ASSUME NEW r \in Readers, OpenDir(r) \/ List(r) \/ Rewind(r) \/ ReleaseDir(r)
        PROVE  InStep(q)'
    <3>1. CASE q = r
      BY <2>1, <2>3, <3>1, OpenInStep, CallInStep, SkipInStep, EntryInStep
         DEF List, Loop
    <3>2. CASE q # r
      BY <2>1, <2>3, <3>2, OthersInStep
    <3> QED  BY <3>1, <3>2
  <2> QED  BY <2>2, <2>3 DEF StreamNext
<1>3. StreamInv /\ StepInv => RepeatsNeedSkips
  <2> SUFFICES ASSUME StreamInv, StepInv, NEW r \in Readers,
                      pc[r] \in {"open", "loop"}, NoSkip(r),
                      NEW j \in DOMAIN got[r], NEW k \in DOMAIN got[r],
                      got[r][j] = got[r][k]
               PROVE  j = k
    BY DEF RepeatsNeedSkips, NoSkip, Slice
  <2>1. /\ j \in DOMAIN Slice(r) /\ got[r][j] = Slice(r)[j]
        /\ k \in DOMAIN Slice(r) /\ got[r][k] = Slice(r)[k]
        /\ Distinct(r)
    BY DEF StepInv, InStep, GotFirst
  <2> QED  BY <2>1 DEF Distinct, NoSkip
<1> QED  BY <1>1, <1>2, <1>3, Invariance, PTL DEF StreamSpec
=============================================================================
