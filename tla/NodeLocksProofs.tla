-------------------------- MODULE NodeLocksProofs --------------------------
(***************************************************************************)
(* Proofs about NodeLocks, for every tree, every set of goroutines and     *)
(* every mix of operations: no lock is left behind, and a deadlock takes   *)
(* both a climber and a descender.                                         *)
(***************************************************************************)
EXTENDS NodeLocks, SequenceTheorems, WellFoundedInduction, TLAPS

-----------------------------------------------------------------------------
(* The inductive invariant.  Shape says what a goroutine can hold and wait *)
(* for at each step: who waits for a child (ReadDir) holds only nodes      *)
(* before it, who waits for a parent (Path) only nodes after it.  Owned    *)
(* says that the writer of a node is the goroutine in its Lock.  DueShape  *)
(* says that a release is deferred for every lock but the one just taken.  *)

Labels == {"idle", "nil", "wait", "got", "climb", "next", "io", "unwind",
           "lock", "drain"}

Shape(label, o, w, h, it) ==
    /\ Len(it) <= Len(h)
    /\ label \in {"idle", "nil", "lock", "drain"} => h = << >>
    /\ label \in {"lock", "drain"} => o \in Writers
    /\ label \notin {"idle", "lock", "drain"} => o \in {"stat", "open", "readdir", "path", "tree"}
    /\ label \in {"wait", "got", "climb", "lock", "drain"} => w \in Nodes
    /\ label = "got" => Len(it) < Len(h)
    /\ label \in {"got", "climb"} => Len(h) # 0 /\ h[Len(h)] = w
    /\ label = "climb" => o \in {"path", "tree"}
    /\ label = "next" => Len(it) = Len(h) /\ Len(it) # 0 /\ o \in {"readdir", "tree"}
    /\ o \in {"stat", "open"} => it = << >> /\ (label = "wait" => h = << >>)
    /\ o = "path" =>
          /\ it = << >>
          /\ label = "wait" => \A i \in DOMAIN h : w < h[i]
          /\ label \in {"got", "climb"} => \A i \in DOMAIN h : w <= h[i]
    /\ o = "readdir" =>
          /\ Len(it) <= 1 /\ Len(h) <= Len(it) + 1
          /\ Len(it) = 1 => \A c \in it[1] : h[1] < c
          /\ label = "wait" => Len(h) = Len(it) /\ \A i \in DOMAIN h : h[i] < w

DueShape(label, h, d) == Len(h) = IF label = "got" THEN d + 1 ELSE d

Owned ==
    /\ \A n \in Nodes : writer[n] # NoProc => pc[writer[n]] = "drain" /\ want[writer[n]] = n
    /\ \A p \in Procs : pc[p] = "wait" => writer[want[p]] # NoProc

LocksInv ==
    /\ LocksTypeOK
    /\ \A p \in Procs : Shape(pc[p], op[p], want[p], held[p], iter[p])
    /\ \A p \in Procs : DueShape(pc[p], held[p], due[p])
    /\ Owned

-----------------------------------------------------------------------------
(* Sequences, and their beginnings. *)
LEMMA SeqFacts ==
    ASSUME NEW S, NEW s \in Seq(S)
    PROVE  /\ Len(s) \in Nat /\ DOMAIN s = 1 .. Len(s)
           /\ \A i \in DOMAIN s : s[i] \in S
           /\ s = << >> <=> Len(s) = 0
<1>1. s # << >> => Len(s) \in Nat \ {0}
    BY EmptySeq
<1>2. Len(s) \in Nat /\ DOMAIN s = 1 .. Len(s)
    BY LenProperties
<1>3. \A i \in DOMAIN s : s[i] \in S
    BY <1>2, ElementOfSeq
<1> QED
    BY <1>1, <1>2, <1>3

LEMMA ZeroOrOne ==
    /\ \A n \in Nat : n <= 1 => n = 0 \/ n = 1
    /\ 1 + 1 = 2 /\ 1 - 1 = 0 /\ 0 + 1 = 1 /\ 0 # 1 /\ 0 <= 1 /\ 1 <= 0 + 1
    /\ \A n \in Nat : n # 0 => n - 1 \in Nat /\ n - 1 <= n
<1> QED
    OBVIOUS

LEMMA PrefixFacts ==
    ASSUME NEW S, NEW s \in Seq(S), NEW n \in Nat, n <= Len(s)
    PROVE  /\ SubSeq(s, 1, n) \in Seq(S) /\ Len(SubSeq(s, 1, n)) = n
           /\ \A i \in 1 .. n : SubSeq(s, 1, n)[i] = s[i]
           /\ n = 0 => SubSeq(s, 1, n) = << >>
<1>1. \A i \in 1 .. n : s[i] \in S
    BY SeqFacts
<1>2. SubSeq(s, 1, n) \in Seq(S) /\ Len(SubSeq(s, 1, n)) = n
    BY <1>1, SubSeqProperties
<1>3. \A i \in 1 .. n : SubSeq(s, 1, n)[i] = s[i]
    BY <1>1, SubSeqProperties
<1> QED
    BY <1>2, <1>3, SeqFacts

(* A reader that was let in holds what it waited for. *)
LEMMA LetIn ==
    ASSUME NEW o, NEW w \in Nodes \cup {NoNode}, NEW h \in Seq(Nodes), NEW it \in Seq(SUBSET Nodes),
           Shape("wait", o, w, h, it)
    PROVE  Shape("got", o, w, Append(h, w), it) /\ Append(h, w) \in Seq(Nodes)
<1>1. w \in Nodes /\ Nodes \subseteq Nat
    BY DEF Shape, Nodes
<1>2. /\ Append(h, w) \in Seq(Nodes) /\ Len(Append(h, w)) = Len(h) + 1
      /\ Append(h, w)[Len(h) + 1] = w
      /\ \A i \in DOMAIN h : Append(h, w)[i] = h[i]
      /\ DOMAIN Append(h, w) = DOMAIN h \cup {Len(h) + 1}
    BY <1>1
<1>3. o = "path" => \A i \in DOMAIN Append(h, w) : w <= Append(h, w)[i]
  <2> SUFFICES ASSUME o = "path", NEW i \in DOMAIN Append(h, w) PROVE w <= Append(h, w)[i]
      OBVIOUS
  <2>1. CASE i \in DOMAIN h
    <3>1. w < h[i]
        BY <2>1 DEF Shape
    <3>2. h[i] \in Nat /\ w \in Nat
        BY <1>1, <2>1, SeqFacts
    <3> QED
        BY <1>2, <2>1, <3>1, <3>2
  <2>2. CASE i = Len(h) + 1
      BY <1>1, <1>2, <2>2
  <2> QED
      BY <1>2, <2>1, <2>2
<1>4. o = "readdir" /\ Len(it) = 1 => \A c \in it[1] : Append(h, w)[1] < c
  <2>1. Len(it) = 1 => 1 \in DOMAIN h
      BY DEF Shape
  <2> QED
      BY <1>2, <2>1 DEF Shape
<1>5. Len(it) \in Nat /\ Len(h) \in Nat
    OBVIOUS
<1> QED
    BY <1>1, <1>2, <1>3, <1>4, <1>5 DEF Shape

(* What is left of Shape when an operation gives its locks back. *)
LEMMA UnwindShape ==
    ASSUME NEW o \in {"stat", "open", "readdir", "path", "tree"}, NEW w, NEW h, NEW it,
           Len(it) <= Len(h),
           o \in {"stat", "open", "path"} => it = << >>,
           o = "readdir" => /\ Len(it) <= 1 /\ Len(h) <= Len(it) + 1
                            /\ Len(it) = 1 => \A c \in it[1] : h[1] < c
    PROVE  Shape("unwind", o, w, h, it)
<1> QED
    BY DEF Shape

(* And when a loop over children goes on. *)
LEMMA NextShape ==
    ASSUME NEW o \in {"readdir", "tree"}, NEW w, NEW h, NEW it,
           Len(it) <= Len(h), Len(h) <= Len(it) + 1, Len(it) = Len(h), Len(it) # 0,
           o = "readdir" => /\ Len(it) <= 1
                            /\ Len(it) = 1 => \A c \in it[1] : h[1] < c
    PROVE  Shape("next", o, w, h, it)
<1> QED
    BY DEF Shape

(* What RLock does to the goroutine that calls it, and to nobody else. *)
LEMMA RLockShape ==
    ASSUME LocksTypeOK, NEW p \in Procs, NEW n \in Nodes, RLock(p, n), NEW o,
           NEW it \in Seq(SUBSET Nodes), Shape("wait", o, n, held[p], it),
           NEW d, DueShape("wait", held[p], d)
    PROVE  /\ Shape(pc'[p], o, want'[p], held'[p], it)
           /\ DueShape(pc'[p], held'[p], d)
           /\ want' = [want EXCEPT ![p] = n]
           /\ held' \in [Procs -> Seq(Nodes)] /\ pc' \in [Procs -> Labels]
           /\ pc'[p] \in {"wait", "got"} /\ (pc'[p] = "wait" => writer[n] # NoProc)
           /\ \A q \in Procs : q # p => pc'[q] = pc[q] /\ held'[q] = held[q]
<1> USE DEF LocksTypeOK, Labels
<1>1. CASE writer[n] = NoProc
  <2>1. held' = [held EXCEPT ![p] = Append(@, n)] /\ pc' = [pc EXCEPT ![p] = "got"]
        /\ want' = [want EXCEPT ![p] = n]
      BY <1>1 DEF RLock, Goto
  <2>2. Shape("got", o, n, Append(held[p], n), it) /\ Append(held[p], n) \in Seq(Nodes)
      BY LetIn
  <2>3. DueShape("got", Append(held[p], n), d)
    <3>1. Len(held[p]) = d
        BY DEF DueShape
    <3>2. Len(Append(held[p], n)) = Len(held[p]) + 1
        BY AppendProperties
    <3> QED
        BY <3>1, <3>2 DEF DueShape
  <2> QED
      BY <2>1, <2>2, <2>3
<1>2. CASE writer[n] # NoProc
    BY <1>2 DEF RLock, Goto
<1> QED
    BY <1>1, <1>2

(* A step that changes one goroutine only, and no lock's writer. *)
LEMMA OneProc ==
    ASSUME LocksInv, LocksTypeOK', NEW p \in Procs,
           UNCHANGED writer, pc[p] # "drain", pc'[p] # "drain",
           pc'[p] = "wait" => writer[want'[p]] # NoProc,
           \A q \in Procs : q # p =>
               /\ pc'[q] = pc[q] /\ op'[q] = op[q] /\ want'[q] = want[q]
               /\ held'[q] = held[q] /\ iter'[q] = iter[q] /\ due'[q] = due[q],
           Shape(pc'[p], op'[p], want'[p], held'[p], iter'[p]),
           DueShape(pc'[p], held'[p], due'[p])
    PROVE  LocksInv'
<1>1. ASSUME NEW q \in Procs PROVE Shape(pc'[q], op'[q], want'[q], held'[q], iter'[q])
  <2>1. CASE q = p
      BY <2>1
  <2>2. CASE q # p
    <3>1. Shape(pc[q], op[q], want[q], held[q], iter[q])
        BY DEF LocksInv
    <3> QED
        BY <2>2, <3>1
  <2> QED
      BY <2>1, <2>2
<1>2. ASSUME NEW q \in Procs PROVE DueShape(pc'[q], held'[q], due'[q])
  <2>1. CASE q = p
      BY <2>1
  <2>2. CASE q # p
    <3>1. DueShape(pc[q], held[q], due[q])
        BY DEF LocksInv
    <3> QED
        BY <2>2, <3>1
  <2> QED
      BY <2>1, <2>2
<1>3. Owned'
  <2>1. ASSUME NEW n \in Nodes, writer'[n] # NoProc
        PROVE  pc'[writer'[n]] = "drain" /\ want'[writer'[n]] = n
    <3>1. writer[n] \in Procs /\ pc[writer[n]] = "drain" /\ want[writer[n]] = n
        BY <2>1 DEF LocksInv, LocksTypeOK, Owned
    <3> QED
        BY <3>1
  <2>2. ASSUME NEW q \in Procs, pc'[q] = "wait" PROVE writer'[want'[q]] # NoProc
      BY <2>2 DEF LocksInv, Owned
  <2> QED
      BY <2>1, <2>2 DEF Owned
<1> QED
    BY <1>1, <1>3, <1>2 DEF LocksInv

-----------------------------------------------------------------------------
(* The start: nobody holds anything. *)
LEMMA LocksInitInv == LocksInit => LocksInv
<1> SUFFICES ASSUME LocksInit PROVE LocksInv
    OBVIOUS
<1>1. LocksTypeOK
    BY LocksAssumption DEF LocksInit, LocksTypeOK, Nodes, Kinds, Handlers
<1>2. Owned
    BY DEF LocksInit, Owned
<1>3. ASSUME NEW p \in Procs PROVE Shape(pc[p], op[p], want[p], held[p], iter[p])
    BY DEF LocksInit, Shape
<1>4. ASSUME NEW p \in Procs PROVE DueShape(pc[p], held[p], due[p])
    BY DEF LocksInit, DueShape
<1> QED
    BY <1>1, <1>2, <1>3, <1>4 DEF LocksInv

LEMMA StartInv ==
    ASSUME LocksInv, NEW p \in Procs, Start(p)
    PROVE  LocksInv'
<1> USE DEF Labels
<1>1. /\ LocksTypeOK /\ Shape("idle", op[p], want[p], held[p], iter[p]) /\ pc[p] = "idle"
      /\ DueShape("idle", held[p], due[p])
    BY DEF LocksInv, Start
<1>2. held[p] = << >> /\ iter[p] = << >>
    BY <1>1 DEF Shape, LocksTypeOK
<1>3. PICK k \in mix[p] :
          /\ op' = [op EXCEPT ![p] = k]
          /\ \/ k \notin Writers /\ \E n \in Nodes : RLock(p, n)
             \/ k \in Handlers /\ Goto(p, "nil") /\ UNCHANGED <<want, held>>
             \/ /\ k \in Writers
                /\ \E n \in Nodes : want' = [want EXCEPT ![p] = n]
                /\ Goto(p, "lock")
                /\ UNCHANGED held
    BY DEF Start
<1>4. k \in Kinds
    BY <1>1, <1>3, LocksAssumption DEF LocksTypeOK
<1>5. UNCHANGED <<mix, link, writer, due, iter>>
    BY DEF Start
<1>6. CASE k \notin Writers /\ \E n \in Nodes : RLock(p, n)
  <2>1. PICK n \in Nodes : RLock(p, n)
      BY <1>6
  <2>2. Shape("wait", k, n, held[p], iter[p])
      BY <1>2, <1>4, <1>6 DEF Shape, Kinds, Handlers
  <2>3. iter[p] \in Seq(SUBSET Nodes) /\ DueShape("wait", held[p], due[p])
      BY <1>1 DEF LocksTypeOK, DueShape
  <2>4. /\ Shape(pc'[p], k, want'[p], held'[p], iter[p])
        /\ DueShape(pc'[p], held'[p], due[p])
        /\ want' = [want EXCEPT ![p] = n]
        /\ held' \in [Procs -> Seq(Nodes)] /\ pc' \in [Procs -> Labels]
        /\ pc'[p] \in {"wait", "got"} /\ (pc'[p] = "wait" => writer[n] # NoProc)
        /\ \A q \in Procs : q # p => pc'[q] = pc[q] /\ held'[q] = held[q]
      BY <1>1, <2>1, <2>2, <2>3, RLockShape
  <2>5. LocksTypeOK'
      BY <1>1, <1>3, <1>4, <1>5, <2>4 DEF LocksTypeOK
  <2>6. op'[p] = k /\ want'[p] = n /\ iter'[p] = iter[p] /\ due'[p] = due[p]
      BY <1>1, <1>3, <1>5, <2>4 DEF LocksTypeOK
  <2>7. \A q \in Procs : q # p =>
            op'[q] = op[q] /\ want'[q] = want[q] /\ iter'[q] = iter[q] /\ due'[q] = due[q]
      BY <1>1, <1>3, <1>5, <2>4 DEF LocksTypeOK
  <2> QED
      BY <1>1, <1>5, <2>4, <2>5, <2>6, <2>7, OneProc
<1>7. CASE k \in Writers /\ Goto(p, "lock") /\ UNCHANGED held
           /\ \E n \in Nodes : want' = [want EXCEPT ![p] = n]
  <2>1. PICK n \in Nodes : want' = [want EXCEPT ![p] = n] /\ pc' = [pc EXCEPT ![p] = "lock"]
                           /\ UNCHANGED held
      BY <1>7 DEF Goto
  <2>2. LocksTypeOK'
      BY <1>1, <1>3, <1>4, <1>5, <2>1 DEF LocksTypeOK
  <2>3. /\ op'[p] = k /\ want'[p] = n /\ pc'[p] = "lock"
        /\ \A q \in Procs : q # p =>
               /\ pc'[q] = pc[q] /\ op'[q] = op[q] /\ want'[q] = want[q]
               /\ held'[q] = held[q] /\ iter'[q] = iter[q] /\ due'[q] = due[q]
      BY <1>1, <1>3, <1>5, <2>1 DEF LocksTypeOK
  <2>4. Shape("lock", k, n, held[p], iter[p]) /\ DueShape("lock", held[p], due[p])
      BY <1>1, <1>2, <1>7 DEF Shape, DueShape, Writers
  <2> QED
      BY <1>1, <1>5, <2>1, <2>2, <2>3, <2>4, OneProc
<1>8. CASE k \in Handlers /\ Goto(p, "nil") /\ UNCHANGED <<want, held>>
  <2>1. pc' = [pc EXCEPT ![p] = "nil"]
      BY <1>8 DEF Goto
  <2>2. LocksTypeOK'
      BY <1>1, <1>3, <1>4, <1>5, <1>8, <2>1 DEF LocksTypeOK
  <2>3. /\ op'[p] = k /\ pc'[p] = "nil"
        /\ \A q \in Procs : q # p => pc'[q] = pc[q] /\ op'[q] = op[q]
      BY <1>1, <1>3, <2>1 DEF LocksTypeOK
  <2>4. Shape("nil", k, want[p], held[p], iter[p]) /\ DueShape("nil", held[p], due[p])
      BY <1>1, <1>2, <1>8 DEF Shape, DueShape, Handlers
  <2> QED
      BY <1>1, <1>5, <1>8, <2>2, <2>3, <2>4, OneProc
<1> QED
    BY <1>3, <1>6, <1>7, <1>8

(* NotFound, IOReturns: only the label moves. *)
LEMMA NotFoundInv ==
    ASSUME LocksInv, NEW p \in Procs, NotFound(p) \/ IOReturns(p)
    PROVE  LocksInv'
<1>1. /\ LocksTypeOK /\ Shape(pc[p], op[p], want[p], held[p], iter[p])
      /\ DueShape(pc[p], held[p], due[p])
    BY DEF LocksInv
<1>2. /\ pc[p] \in {"nil", "io"} /\ UNCHANGED <<mix, link, writer, op, want, held, due, iter>>
      /\ pc' = [pc EXCEPT ![p] = "unwind"]
    BY DEF NotFound, IOReturns, Goto
<1>3. LocksTypeOK' /\ pc'[p] = "unwind" /\ \A q \in Procs : q # p => pc'[q] = pc[q]
    BY <1>1, <1>2 DEF LocksTypeOK
<1>4. Shape(pc'[p], op[p], want[p], held[p], iter[p]) /\ DueShape(pc'[p], held[p], due[p])
    BY <1>1, <1>2, <1>3 DEF Shape, DueShape
<1> QED
    BY <1>2, <1>3, <1>4, OneProc

(* Handle, HandleFile: the lock is due. *)
LEMMA HandleInv ==
    ASSUME LocksInv, NEW p \in Procs, Handle(p) \/ HandleFile(p)
    PROVE  LocksInv'
<1>1. /\ LocksTypeOK /\ Shape("got", op[p], want[p], held[p], iter[p])
      /\ DueShape("got", held[p], due[p]) /\ pc[p] = "got" /\ op[p] \in {"stat", "open"}
    BY DEF LocksInv, Handle, HandleFile
<1>2. /\ UNCHANGED <<mix, link, writer, op, want, held, iter>>
      /\ due' = [due EXCEPT ![p] = @ + 1]
      /\ pc' = [pc EXCEPT ![p] = "io"] \/ pc' = [pc EXCEPT ![p] = "unwind"]
    BY DEF Handle, HandleFile, Goto, Defer
<1>3. /\ LocksTypeOK' /\ pc'[p] \in {"io", "unwind"} /\ due'[p] = due[p] + 1
      /\ \A q \in Procs : q # p => pc'[q] = pc[q] /\ due'[q] = due[q]
  <2>1. PICK label \in {"io", "unwind"} : pc' = [pc EXCEPT ![p] = label]
      BY <1>2
  <2>2. /\ pc' \in [Procs -> Labels] /\ pc'[p] = label
        /\ \A q \in Procs : q # p => pc'[q] = pc[q]
      BY <1>1, <2>1 DEF LocksTypeOK, Labels
  <2>3. due' \in [Procs -> Nat] /\ due'[p] = due[p] + 1 /\ \A q \in Procs : q # p => due'[q] = due[q]
      BY <1>1, <1>2 DEF LocksTypeOK
  <2> QED
      BY <1>1, <1>2, <2>2, <2>3 DEF LocksTypeOK, Labels
<1>4. Shape(pc'[p], op[p], want[p], held[p], iter[p])
    BY <1>1, <1>2, <1>3 DEF Shape
<1>5. DueShape(pc'[p], held[p], due'[p])
    BY <1>1, <1>3 DEF DueShape
<1> QED
    BY <1>1, <1>2, <1>3, <1>4, <1>5, OneProc

(* ReadDir: the children of a directory come after it. *)
LEMMA ReadDirInv ==
    ASSUME LocksInv, NEW p \in Procs, ReadDir(p)
    PROVE  LocksInv'
<1>1. /\ LocksTypeOK /\ Shape("got", "readdir", want[p], held[p], iter[p])
      /\ DueShape("got", held[p], due[p])
      /\ pc[p] = "got" /\ op[p] = "readdir" /\ iter[p] = << >>
    BY DEF LocksInv, ReadDir
<1>2. due' = [due EXCEPT ![p] = @ + 1] /\ UNCHANGED <<mix, link, writer, op, want, held>>
    BY DEF ReadDir, Defer
<1>3. /\ want[p] \in Nodes /\ held[p] \in Seq(Nodes) /\ Len(held[p]) = 1
      /\ held[p][1] = want[p] /\ Nodes \subseteq Nat
  <2>1. /\ want[p] \in Nodes /\ held[p] \in Seq(Nodes) /\ Nodes \subseteq Nat
        /\ held[p][Len(held[p])] = want[p]
      BY <1>1 DEF Shape, LocksTypeOK, Nodes
  <2>2. Len(held[p]) = 1
    <3>1. Len(held[p]) <= Len(iter[p]) + 1 /\ Len(held[p]) # 0 /\ Len(iter[p]) = 0
        BY <1>1 DEF Shape
    <3>2. Len(held[p]) \in Nat
        BY <2>1, SeqFacts
    <3>3. \A n \in Nat : n <= 0 + 1 /\ n # 0 => n = 1
        OBVIOUS
    <3>4. Len(held[p]) <= 0 + 1 /\ Len(held[p]) # 0
        BY <3>1
    <3> QED
        BY <3>2, <3>3, <3>4, Zenon
  <2> QED
      BY <2>1, <2>2
<1>4. due'[p] = due[p] + 1 /\ \A q \in Procs : q # p => due'[q] = due[q]
    BY <1>1, <1>2 DEF LocksTypeOK
<1>5. CASE Goto(p, "unwind") /\ UNCHANGED iter
  <2>1. LocksTypeOK' /\ pc'[p] = "unwind" /\ \A q \in Procs : q # p => pc'[q] = pc[q]
      BY <1>1, <1>2, <1>5 DEF LocksTypeOK, Goto
  <2>2. Shape("unwind", "readdir", want[p], held[p], iter[p])
      BY <1>1, <1>3 DEF Shape
  <2>3. DueShape("unwind", held[p], due'[p])
      BY <1>1, <1>4 DEF DueShape
  <2> QED
      BY <1>1, <1>2, <1>4, <1>5, <2>1, <2>2, <2>3, OneProc
<1>6. CASE /\ \E rest \in SUBSET Children(want[p]) \ {{}} : iter' = [iter EXCEPT ![p] = <<rest>>]
           /\ Goto(p, "next")
  <2>1. PICK rest \in SUBSET Children(want[p]) : iter' = [iter EXCEPT ![p] = <<rest>>]
      BY <1>6
  <2>2. rest \subseteq Nodes /\ \A c \in rest : want[p] < c
      BY LocksAssumption DEF Children
  <2>3. LocksTypeOK' /\ iter'[p] = <<rest>> /\ pc'[p] = "next"
      BY <1>1, <1>2, <1>6, <2>1, <2>2 DEF LocksTypeOK, Goto
  <2>4. Shape("next", "readdir", want[p], held[p], <<rest>>)
      BY <1>3, <2>2 DEF Shape
  <2>5. DueShape("next", held[p], due'[p])
      BY <1>1, <1>4 DEF DueShape
  <2>6. \A q \in Procs : q # p => pc'[q] = pc[q] /\ iter'[q] = iter[q]
      BY <1>1, <1>6, <2>1 DEF LocksTypeOK, Goto
  <2> QED
      BY <1>1, <1>2, <1>4, <2>3, <2>4, <2>5, <2>6, OneProc
<1> QED
    BY <1>5, <1>6 DEF ReadDir

(* List: the child is unlocked, the directory is not. *)
LEMMA ListInv ==
    ASSUME LocksInv, NEW p \in Procs, List(p)
    PROVE  LocksInv'
<1>1. /\ LocksTypeOK /\ Shape("got", "readdir", want[p], held[p], iter[p])
      /\ DueShape("got", held[p], due[p])
      /\ pc[p] = "got" /\ op[p] = "readdir" /\ iter[p] # << >>
    BY DEF LocksInv, List
<1>2. held' = [held EXCEPT ![p] = Front(@)] /\ UNCHANGED <<mix, link, writer, op, want, due>>
    BY DEF List
<1>3. /\ want[p] \in Nodes /\ held[p] \in Seq(Nodes) /\ iter[p] \in Seq(SUBSET Nodes)
      /\ Len(held[p]) = Len(iter[p]) + 1 /\ Len(iter[p]) <= 1
      /\ Len(iter[p]) \in Nat /\ Nodes \subseteq Nat
    BY <1>1 DEF Shape, LocksTypeOK, Nodes
<1>4. Len(iter[p]) = 1 /\ Len(held[p]) = 2
  <2>1. Len(iter[p]) # 0
      BY <1>1, <1>3, SeqFacts
  <2>2. Len(iter[p]) \in Nat /\ Len(iter[p]) <= 1 /\ Len(held[p]) = Len(iter[p]) + 1
      BY <1>3
  <2>3. Len(iter[p]) = 1
      BY <2>1, <2>2, ZeroOrOne, Zenon
  <2> QED
      BY <2>2, <2>3, ZeroOrOne, Zenon
<1>5. Front(held[p]) = <<held[p][1]>> /\ held[p][1] \in Nodes
  <2>1. held[p][1] \in Nodes /\ Front(held[p]) = SubSeq(held[p], 1, 1)
      BY <1>3, <1>4, SeqFacts DEF Front
  <2>2. /\ SubSeq(held[p], 1, 1) \in Seq(Nodes) /\ Len(SubSeq(held[p], 1, 1)) = 1
        /\ SubSeq(held[p], 1, 1)[1] = held[p][1]
      BY <1>3, <1>4, PrefixFacts
  <2>3. <<held[p][1]>> \in Seq(Nodes) /\ Len(<<held[p][1]>>) = 1 /\ <<held[p][1]>>[1] = held[p][1]
      BY <2>1
  <2>4. \A i \in 1 .. 1 : SubSeq(held[p], 1, 1)[i] = <<held[p][1]>>[i]
      BY <2>2, <2>3
  <2>5. SubSeq(held[p], 1, 1) = <<held[p][1]>>
      BY ONLY <2>2, <2>3, <2>4, SeqEqual
  <2> QED
      BY <2>1, <2>5
<1>6. due[p] = 1
  <2>1. Len(held[p]) = due[p] + 1 /\ due[p] \in Nat
      BY <1>1 DEF DueShape, LocksTypeOK
  <2>2. \A d \in Nat : 2 = d + 1 => d = 1
      OBVIOUS
  <2> QED
      BY <1>4, <2>1, <2>2, Zenon
<1>7. held'[p] = <<held[p][1]>> /\ \A q \in Procs : q # p => held'[q] = held[q]
    BY <1>1, <1>2, <1>5 DEF LocksTypeOK
<1>8. \A label \in {"next", "unwind"} : DueShape(label, <<held[p][1]>>, due[p])
    BY <1>6 DEF DueShape
<1>9. CASE Goto(p, "next") /\ UNCHANGED iter
  <2>1. LocksTypeOK' /\ pc'[p] = "next" /\ \A q \in Procs : q # p => pc'[q] = pc[q]
      BY <1>1, <1>2, <1>5, <1>9 DEF LocksTypeOK, Goto
  <2>2. Shape("next", "readdir", want[p], <<held[p][1]>>, iter[p])
      BY <1>1, <1>4, <1>5 DEF Shape
  <2> QED
      BY <1>1, <1>2, <1>7, <1>8, <1>9, <2>1, <2>2, OneProc
<1>10. CASE Goto(p, "unwind") /\ iter' = [iter EXCEPT ![p] = << >>]
  <2>1. /\ LocksTypeOK' /\ pc'[p] = "unwind" /\ iter'[p] = << >>
        /\ \A q \in Procs : q # p => pc'[q] = pc[q] /\ iter'[q] = iter[q]
      BY <1>1, <1>2, <1>5, <1>10 DEF LocksTypeOK, Goto
  <2>2. Shape("unwind", "readdir", want[p], <<held[p][1]>>, << >>)
      BY <1>5 DEF Shape
  <2> QED
      BY <1>1, <1>2, <1>7, <1>8, <2>1, <2>2, OneProc
<1> QED
    BY <1>9, <1>10 DEF List

LEMMA NextChildInv ==
    ASSUME LocksInv, NEW p \in Procs, NextChild(p)
    PROVE  LocksInv'
<1> USE DEF Labels
<1>1. /\ LocksTypeOK /\ Shape("next", op[p], want[p], held[p], iter[p]) /\ pc[p] = "next"
      /\ DueShape("next", held[p], due[p])
    BY DEF LocksInv, NextChild
<1>2. UNCHANGED <<mix, link, writer, op, due>>
    BY DEF NextChild
<1>3. /\ held[p] \in Seq(Nodes) /\ iter[p] \in Seq(SUBSET Nodes) /\ Len(iter[p]) \in Nat
      /\ Len(held[p]) = Len(iter[p]) /\ Len(iter[p]) # 0 /\ op[p] \in {"readdir", "tree"}
    BY <1>1 DEF Shape, LocksTypeOK
<1>4. /\ Front(iter[p]) \in Seq(SUBSET Nodes) /\ Len(Front(iter[p])) = Len(iter[p]) - 1
      /\ Last(iter[p]) \in SUBSET Nodes /\ Last(iter[p]) = iter[p][Len(iter[p])]
    BY <1>3 DEF Front, Last
<1>5. ASSUME NEW c \in Last(iter[p]),
             iter' = [iter EXCEPT ![p] = Append(Front(@), Last(@) \ {c})],
             RLock(p, c) \/ UNCHANGED <<pc, want, held>>
      PROVE  LocksInv'
  <2> DEFINE it == Append(Front(iter[p]), Last(iter[p]) \ {c})
  <2>1. it \in Seq(SUBSET Nodes) /\ Len(it) = Len(iter[p]) /\ c \in Nodes
      BY <1>3, <1>4
  <2>2. Len(it) = 1 => it[1] \subseteq iter[p][1] /\ c \in iter[p][1]
      BY <1>3, <1>4, <2>1
  <2> HIDE DEF it
  <2>3. Shape("wait", op[p], c, held[p], it)
    <3>1. op[p] = "readdir" =>
             /\ Len(it) = 1 /\ Len(held[p]) = 1 /\ \A x \in it[1] : held[p][1] < x
             /\ \A i \in DOMAIN held[p] : held[p][i] < c
      <4> SUFFICES ASSUME op[p] = "readdir"
                   PROVE  /\ Len(it) = 1 /\ Len(held[p]) = 1
                          /\ \A x \in it[1] : held[p][1] < x
                          /\ \A i \in DOMAIN held[p] : held[p][i] < c
          OBVIOUS
      <4>0. Len(iter[p]) <= 1
          BY <1>1 DEF Shape
      <4>1. Len(iter[p]) = 1 /\ Len(held[p]) = 1 /\ Len(it) = 1
        <5>1. /\ Len(iter[p]) \in Nat /\ Len(iter[p]) # 0
              /\ Len(held[p]) = Len(iter[p]) /\ Len(it) = Len(iter[p])
            BY <1>3, <2>1
        <5> QED
            BY <4>0, <5>1, ZeroOrOne, Zenon
      <4>2. \A x \in iter[p][1] : held[p][1] < x
          BY <1>1, <4>1 DEF Shape
      <4>3. DOMAIN held[p] = {1}
          BY <1>3, <4>1, SeqFacts
      <4> QED
          BY <2>2, <4>1, <4>2, <4>3
    <3> QED
        BY <1>3, <2>1, <3>1 DEF Shape
  <2>4. iter' = [iter EXCEPT ![p] = it]
      BY <1>5 DEF it
  <2>5. CASE UNCHANGED <<pc, want, held>>
    <3>1. /\ LocksTypeOK' /\ iter'[p] = it /\ \A q \in Procs : q # p => iter'[q] = iter[q]
        BY <1>1, <1>2, <2>1, <2>4, <2>5 DEF LocksTypeOK
    <3>2. op[p] = "readdir" => Len(it) <= 1 /\ (Len(it) = 1 => \A x \in it[1] : held[p][1] < x)
        BY <1>1, <2>1, <2>2 DEF Shape
    <3>3. Shape("next", op[p], want[p], held[p], it)
        BY <1>3, <2>1, <3>2, NextShape
    <3> QED
        BY <1>1, <1>2, <2>5, <3>1, <3>3, OneProc
  <2>6. CASE RLock(p, c)
    <3>1. DueShape("wait", held[p], due[p])
        BY <1>1 DEF DueShape
    <3>2. /\ Shape(pc'[p], op[p], want'[p], held'[p], it)
          /\ DueShape(pc'[p], held'[p], due[p])
          /\ want' = [want EXCEPT ![p] = c]
          /\ held' \in [Procs -> Seq(Nodes)] /\ pc' \in [Procs -> Labels]
          /\ pc'[p] \in {"wait", "got"} /\ (pc'[p] = "wait" => writer[c] # NoProc)
          /\ \A q \in Procs : q # p => pc'[q] = pc[q] /\ held'[q] = held[q]
        BY <1>1, <2>1, <2>3, <2>6, <3>1, RLockShape
    <3>3. LocksTypeOK'
        BY <1>1, <1>2, <2>1, <3>2, <2>4 DEF LocksTypeOK
    <3>4. /\ want'[p] = c /\ iter'[p] = it
          /\ \A q \in Procs : q # p => want'[q] = want[q] /\ iter'[q] = iter[q]
        BY <1>1, <3>2, <2>4 DEF LocksTypeOK
    <3> QED
        BY <1>1, <1>2, <3>2, <3>3, <3>4, OneProc
  <2> QED
      BY <1>5, <2>5, <2>6
<1>6. CASE Last(iter[p]) = {} /\ iter' = [iter EXCEPT ![p] = Front(@)] /\ Goto(p, "unwind")
           /\ UNCHANGED <<want, held>>
  <2>1. LocksTypeOK' /\ pc'[p] = "unwind" /\ iter'[p] = Front(iter[p])
      BY <1>1, <1>2, <1>4, <1>6 DEF LocksTypeOK, Goto
  <2>2. \A q \in Procs : q # p => pc'[q] = pc[q] /\ iter'[q] = iter[q]
      BY <1>1, <1>6 DEF LocksTypeOK, Goto
  <2>3. Shape("unwind", op[p], want[p], held[p], Front(iter[p]))
    <3>1. /\ Len(iter[p]) \in Nat /\ Len(iter[p]) # 0 /\ Len(held[p]) = Len(iter[p])
          /\ Len(Front(iter[p])) = Len(iter[p]) - 1 /\ op[p] \in {"readdir", "tree"}
        BY <1>3, <1>4
    <3>2. op[p] = "readdir" => Len(iter[p]) <= 1
        BY <1>1 DEF Shape
    <3>3. /\ Len(Front(iter[p])) \in Nat /\ Len(Front(iter[p])) <= Len(held[p])
          /\ op[p] = "readdir" => Len(Front(iter[p])) = 0 /\ Len(held[p]) = 1
      <4>1. op[p] = "readdir" => Len(iter[p]) = 1
          BY <3>1, <3>2, ZeroOrOne, Zenon
      <4> QED
          BY <3>1, <4>1, ZeroOrOne, Zenon
    <3>4. op[p] = "readdir" => Len(Front(iter[p])) <= 1 /\ Len(held[p]) <= Len(Front(iter[p])) + 1
        BY <3>3, ZeroOrOne, Zenon
    <3>5. op[p] = "readdir" => Len(Front(iter[p])) # 1
        BY <3>3, ZeroOrOne, Zenon
    <3> QED
        BY <3>1, <3>3, <3>4, <3>5, UnwindShape
  <2>4. DueShape("unwind", held[p], due[p])
      BY <1>1 DEF DueShape
  <2> QED
      BY <1>1, <1>2, <1>6, <2>1, <2>2, <2>3, <2>4, OneProc
<1> QED
    BY <1>5, <1>6 DEF NextChild

(* Name: a climb starts at the node that was locked last. *)
LEMMA NameInv ==
    ASSUME LocksInv, NEW p \in Procs, Name(p)
    PROVE  LocksInv'
<1>1. /\ LocksTypeOK /\ Shape("got", op[p], want[p], held[p], iter[p])
      /\ DueShape("got", held[p], due[p]) /\ pc[p] = "got" /\ op[p] \in {"path", "tree"}
    BY DEF LocksInv, Name
<1>2. /\ pc' = [pc EXCEPT ![p] = "climb"] /\ due' = [due EXCEPT ![p] = @ + 1]
      /\ UNCHANGED <<mix, link, writer, op, want, held>>
    BY DEF Name, Goto, Defer
<1>3. PICK it \in {iter[p], Append(iter[p], Children(want[p]))} :
          iter' = [iter EXCEPT ![p] = it] /\ (op[p] = "path" => it = iter[p])
    BY <1>1 DEF Name, LocksTypeOK
<1>4. /\ iter[p] \in Seq(SUBSET Nodes) /\ Children(want[p]) \in SUBSET Nodes
      /\ Len(iter[p]) \in Nat /\ Len(held[p]) \in Nat
    BY <1>1 DEF LocksTypeOK, Children
<1>5. it \in Seq(SUBSET Nodes) /\ (it = iter[p] \/ Len(it) = Len(iter[p]) + 1)
    BY <1>3, <1>4
<1>6. LocksTypeOK' /\ pc'[p] = "climb" /\ iter'[p] = it /\ due'[p] = due[p] + 1
    BY <1>1, <1>2, <1>3, <1>5 DEF LocksTypeOK
<1>7. \A q \in Procs : q # p => pc'[q] = pc[q] /\ iter'[q] = iter[q] /\ due'[q] = due[q]
    BY <1>1, <1>2, <1>3 DEF LocksTypeOK
<1>8. Len(it) <= Len(held[p])
  <2>1. Len(iter[p]) < Len(held[p])
      BY <1>1 DEF Shape
  <2> QED
      BY <1>4, <1>5, <2>1
<1>9. Shape("climb", op[p], want[p], held[p], it)
    BY <1>1, <1>3, <1>8 DEF Shape
<1>10. DueShape("climb", held[p], due[p] + 1)
    BY <1>1 DEF DueShape
<1> QED
    BY <1>1, <1>2, <1>6, <1>7, <1>9, <1>10, OneProc

(* Climb: the directory above was there before the node. *)
LEMMA ClimbInv ==
    ASSUME LocksInv, NEW p \in Procs, Climb(p)
    PROVE  LocksInv'
<1> USE DEF Labels
<1>1. /\ LocksTypeOK /\ Shape("climb", op[p], want[p], held[p], iter[p])
      /\ DueShape("climb", held[p], due[p]) /\ pc[p] = "climb"
    BY DEF LocksInv, Climb
<1>2. UNCHANGED <<mix, link, writer, op, due, iter>>
    BY DEF Climb
<1>3. /\ held[p] \in Seq(Nodes) /\ iter[p] \in Seq(SUBSET Nodes) /\ op[p] \in {"path", "tree"}
      /\ Last(held[p]) = want[p] /\ want[p] \in Nodes
    BY <1>1 DEF Shape, LocksTypeOK, Last
<1>4. CASE link[want[p]] = "attached" /\ Above[want[p]] # NoNode /\ RLock(p, Above[want[p]])
  <2> DEFINE n == Above[want[p]]
  <2>1. n \in Nodes /\ n < want[p] /\ want[p] \in Nat /\ n \in Nat
      BY <1>3, <1>4, LocksAssumption DEF Nodes, NoNode
  <2>2. RLock(p, n)
      BY <1>4
  <2> HIDE DEF n
  <2>3. op[p] = "path" => iter[p] = << >> /\ \A i \in DOMAIN held[p] : n < held[p][i]
    <3> SUFFICES ASSUME op[p] = "path"
                 PROVE  iter[p] = << >> /\ \A i \in DOMAIN held[p] : n < held[p][i]
        OBVIOUS
    <3>1. iter[p] = << >> /\ \A i \in DOMAIN held[p] : want[p] <= held[p][i]
        BY <1>1 DEF Shape
    <3>2. \A i \in DOMAIN held[p] : held[p][i] \in Nodes
        BY <1>3, SeqFacts
    <3>3. Nodes \subseteq Nat
        BY DEF Nodes
    <3>4. ASSUME NEW i \in DOMAIN held[p] PROVE n < held[p][i]
      <4>1. held[p][i] \in Nat /\ want[p] <= held[p][i]
          BY <3>1, <3>2, <3>3
      <4> QED
          BY <2>1, <4>1
    <3> QED
        BY <3>1, <3>4
  <2>4. Shape("wait", op[p], n, held[p], iter[p])
      BY <1>1, <1>3, <2>1, <2>3 DEF Shape
  <2>5. DueShape("wait", held[p], due[p])
      BY <1>1 DEF DueShape
  <2>6. /\ Shape(pc'[p], op[p], want'[p], held'[p], iter[p])
        /\ DueShape(pc'[p], held'[p], due[p])
        /\ want' = [want EXCEPT ![p] = n]
        /\ held' \in [Procs -> Seq(Nodes)] /\ pc' \in [Procs -> Labels]
        /\ pc'[p] \in {"wait", "got"} /\ (pc'[p] = "wait" => writer[n] # NoProc)
        /\ \A q \in Procs : q # p => pc'[q] = pc[q] /\ held'[q] = held[q]
      BY <1>1, <1>3, <2>1, <2>2, <2>4, <2>5, RLockShape
  <2>7. LocksTypeOK' /\ want'[p] = n /\ \A q \in Procs : q # p => want'[q] = want[q]
      BY <1>1, <1>2, <2>1, <2>6 DEF LocksTypeOK
  <2> QED
      BY <1>1, <1>2, <2>6, <2>7, OneProc
<1>5. CASE Goto(p, "unwind") /\ UNCHANGED <<want, held>>
  <2>1. LocksTypeOK' /\ pc'[p] = "unwind" /\ \A q \in Procs : q # p => pc'[q] = pc[q]
      BY <1>1, <1>2, <1>5 DEF LocksTypeOK, Goto
  <2>2. Shape("unwind", op[p], want[p], held[p], iter[p])
      BY <1>1, <1>3, UnwindShape DEF Shape
  <2>3. DueShape("unwind", held[p], due[p])
      BY <1>1 DEF DueShape
  <2> QED
      BY <1>1, <1>2, <1>5, <2>1, <2>2, <2>3, OneProc
<1> QED
    BY <1>3, <1>4, <1>5 DEF Climb

(* Unwind: a context stays open for every loop that is not finished. *)
LEMMA UnwindInv ==
    ASSUME LocksInv, NEW p \in Procs, Unwind(p)
    PROVE  LocksInv'
<1> DEFINE h == SubSeq(held[p], 1, Len(iter[p]))
<1>1. /\ LocksTypeOK /\ Shape("unwind", op[p], want[p], held[p], iter[p])
      /\ DueShape("unwind", held[p], due[p]) /\ pc[p] = "unwind"
    BY DEF LocksInv, Unwind
<1>2. /\ held' = [held EXCEPT ![p] = h] /\ due' = [due EXCEPT ![p] = Len(iter[p])]
      /\ UNCHANGED <<mix, link, writer, iter>>
  <2>1. Len(held[p]) = due[p] /\ due[p] \in Nat /\ Len(iter[p]) \in Nat
      BY <1>1 DEF DueShape, LocksTypeOK
  <2>2. Len(held[p]) - (due[p] - Len(iter[p])) = Len(iter[p])
      BY <2>1
  <2> QED
      BY <1>1, <2>2 DEF Unwind, LocksTypeOK
<1>3. /\ held[p] \in Seq(Nodes) /\ iter[p] \in Seq(SUBSET Nodes) /\ Len(iter[p]) \in Nat
      /\ Len(iter[p]) <= Len(held[p]) /\ op[p] \in {"stat", "open", "readdir", "path", "tree"}
    BY <1>1 DEF Shape, LocksTypeOK
<1>4. /\ h \in Seq(Nodes) /\ Len(h) = Len(iter[p]) /\ (Len(iter[p]) = 0 => h = << >>)
      /\ \A i \in 1 .. Len(iter[p]) : h[i] = held[p][i]
    BY <1>3, PrefixFacts
<1> HIDE DEF h
<1>5. /\ \A label \in {"next", "idle"} : DueShape(label, h, Len(iter[p]))
      /\ due'[p] = Len(iter[p]) /\ \A q \in Procs : q # p => due'[q] = due[q]
  <2>1. \A label \in {"next", "idle"} : DueShape(label, h, Len(iter[p]))
      BY <1>4 DEF DueShape
  <2> QED
      BY <1>1, <1>2, <2>1 DEF LocksTypeOK
<1>6. iter[p] # << >> => Len(iter[p]) # 0
    BY <1>3, SeqFacts
<1>7. CASE iter[p] # << >> /\ Goto(p, "next") /\ UNCHANGED <<op, want>>
  <2>1. LocksTypeOK' /\ pc'[p] = "next" /\ held'[p] = h
      BY <1>1, <1>2, <1>3, <1>4, <1>7 DEF LocksTypeOK, Goto
  <2>2. \A q \in Procs : q # p => pc'[q] = pc[q] /\ held'[q] = held[q]
      BY <1>1, <1>2, <1>7 DEF LocksTypeOK, Goto
  <2>3. op[p] \in {"readdir", "tree"}
      BY <1>1, <1>3, <1>7 DEF Shape
  <2>4. op[p] = "readdir" => /\ Len(iter[p]) <= 1
                             /\ Len(iter[p]) = 1 => \A c \in iter[p][1] : h[1] < c
    <3>1. Len(iter[p]) = 1 => h[1] = held[p][1]
        BY <1>4
    <3> QED
        BY <1>1, <3>1 DEF Shape
  <2>5. Len(h) <= Len(iter[p]) + 1 /\ Len(iter[p]) <= Len(h)
      BY <1>3, <1>4
  <2>6. Len(iter[p]) = Len(h) /\ Len(iter[p]) # 0
      BY <1>4, <1>6, <1>7
  <2>7. Shape("next", op[p], want[p], h, iter[p])
      BY <2>3, <2>4, <2>5, <2>6, NextShape
  <2> QED
      BY <1>1, <1>2, <1>7, <1>5, <2>1, <2>2, <2>7, OneProc
<1>8. CASE iter[p] = << >> /\ Return(p)
  <2>1. h = << >>
      BY <1>3, <1>4, <1>8, SeqFacts
  <2>2. LocksTypeOK' /\ pc'[p] = "idle" /\ held'[p] = << >> /\ op'[p] = "none" /\ want'[p] = NoNode
      BY <1>1, <1>2, <1>3, <1>4, <1>8, <2>1 DEF LocksTypeOK, Return, Goto
  <2>3. \A q \in Procs : q # p =>
            pc'[q] = pc[q] /\ held'[q] = held[q] /\ op'[q] = op[q] /\ want'[q] = want[q]
      BY <1>1, <1>2, <1>8 DEF LocksTypeOK, Return, Goto
  <2>4. Shape("idle", "none", NoNode, << >>, << >>)
      BY DEF Shape
  <2> QED
      BY <1>1, <1>2, <1>8, <1>5, <2>1, <2>2, <2>3, <2>4, OneProc
<1> QED
    BY <1>7, <1>8 DEF Unwind

-----------------------------------------------------------------------------
(* Lock: the node's writer is now the goroutine that drains it. *)
LEMMA LockInv ==
    ASSUME LocksInv, NEW p \in Procs, Lock(p)
    PROVE  LocksInv'
<1>1. /\ LocksTypeOK /\ Shape("lock", op[p], want[p], held[p], iter[p])
      /\ pc[p] = "lock" /\ writer[want[p]] = NoProc
    BY DEF LocksInv, Lock
<1>2. /\ writer' = [writer EXCEPT ![want[p]] = p] /\ pc' = [pc EXCEPT ![p] = "drain"]
      /\ UNCHANGED <<mix, link, op, want, held, due, iter>>
    BY DEF Lock, Goto
<1>3. want[p] \in Nodes
    BY <1>1 DEF Shape
<1>4. LocksTypeOK'
    BY <1>1, <1>2, <1>3 DEF LocksTypeOK
<1>5. ASSUME NEW q \in Procs PROVE Shape(pc'[q], op[q], want[q], held[q], iter[q])
  <2>1. Shape(pc[q], op[q], want[q], held[q], iter[q])
      BY DEF LocksInv
  <2>2. CASE q = p
    <3>1. pc'[q] = "drain"
        BY <1>1, <1>2, <2>2 DEF LocksTypeOK
    <3>2. Shape("drain", op[p], want[p], held[p], iter[p])
        BY <1>1 DEF Shape
    <3> QED
        BY <2>2, <3>1, <3>2
  <2>3. CASE q # p
      BY <1>1, <1>2, <2>1, <2>3 DEF LocksTypeOK
  <2> QED
      BY <2>2, <2>3
<1>6. ASSUME NEW n \in Nodes, writer'[n] # NoProc
      PROVE  pc'[writer'[n]] = "drain" /\ want[writer'[n]] = n
  <2>1. CASE n = want[p]
      BY <1>1, <1>2, <1>3, <2>1 DEF LocksTypeOK
  <2>2. CASE n # want[p]
    <3>1. writer'[n] = writer[n] /\ writer[n] \in Procs
        BY <1>1, <1>2, <1>6, <2>2 DEF LocksTypeOK
    <3>2. pc[writer[n]] = "drain" /\ want[writer[n]] = n
        BY <1>6, <3>1 DEF LocksInv, Owned
    <3>3. writer[n] # p
        BY <1>1, <3>2
    <3> QED
        BY <1>1, <1>2, <3>1, <3>2, <3>3 DEF LocksTypeOK
  <2> QED
      BY <2>1, <2>2
<1>7. ASSUME NEW q \in Procs, pc'[q] = "wait" PROVE writer'[want[q]] # NoProc
  <2>1. pc[q] = "wait"
      BY <1>1, <1>2, <1>7 DEF LocksTypeOK
  <2>2. writer[want[q]] # NoProc /\ want[q] \in Nodes
      BY <2>1 DEF LocksInv, Owned, Shape
  <2> QED
      BY <1>1, <1>2, <2>2, LocksAssumption DEF LocksTypeOK
<1>8. ASSUME NEW q \in Procs PROVE DueShape(pc'[q], held[q], due[q])
  <2>1. DueShape(pc[q], held[q], due[q]) /\ (pc'[q] = pc[q] \/ (pc[q] = "lock" /\ pc'[q] = "drain"))
      BY <1>1, <1>2 DEF LocksInv, LocksTypeOK
  <2> QED
      BY <2>1 DEF DueShape
<1> QED
    BY <1>2, <1>4, <1>5, <1>6, <1>7, <1>8 DEF LocksInv, Owned

(* Write: the readers that were barred hold the lock, and nobody waits for *)
(* it any more.                                                            *)
LEMMA WriteInv ==
    ASSUME LocksInv, NEW p \in Procs, Write(p)
    PROVE  LocksInv'
<1>1. /\ LocksTypeOK /\ Shape("drain", op[p], want[p], held[p], iter[p]) /\ pc[p] = "drain"
    BY DEF LocksInv, Write
<1>2. /\ writer' = [writer EXCEPT ![want[p]] = NoProc]
      /\ held' = [q \in Procs |-> IF q \in Barred(p) THEN Append(held[q], want[q]) ELSE held[q]]
      /\ pc' = [q \in Procs |-> IF q = p THEN "idle" ELSE IF q \in Barred(p) THEN "got" ELSE pc[q]]
      /\ op' = [op EXCEPT ![p] = "none"] /\ want' = [want EXCEPT ![p] = NoNode]
      /\ UNCHANGED <<mix, due, iter>>
    BY DEF Write, Unlock
<1>3. want[p] \in Nodes /\ held[p] = << >> /\ p \notin Barred(p)
    BY <1>1 DEF Shape, Barred
<1>4. iter[p] = << >>
  <2>1. Len(iter[p]) <= Len(held[p]) /\ Len(held[p]) = 0 /\ Len(iter[p]) \in Nat
      BY <1>1, <1>3 DEF Shape, LocksTypeOK
  <2>2. Len(iter[p]) = 0
      BY <2>1
  <2>3. iter[p] \in Seq(SUBSET Nodes)
      BY <1>1 DEF LocksTypeOK
  <2> QED
      BY <2>2, <2>3, SeqFacts
<1>5. link' \in [Nodes -> {"attached", "detached", "deleted"}]
    BY <1>1, <1>3 DEF Write, LocksTypeOK
<1>6. ASSUME NEW q \in Barred(p)
      PROVE  /\ q \in Procs /\ q # p /\ pc'[q] = "got" /\ op'[q] = op[q] /\ want'[q] = want[q]
             /\ held'[q] = Append(held[q], want[q]) /\ held'[q] \in Seq(Nodes)
             /\ Shape("got", op[q], want[q], held'[q], iter[q])
  <2>1. q \in Procs /\ q # p /\ pc[q] = "wait"
      BY <1>3 DEF Barred
  <2>2. pc'[q] = "got" /\ op'[q] = op[q] /\ want'[q] = want[q] /\ held'[q] = Append(held[q], want[q])
      BY <1>1, <1>2, <2>1 DEF LocksTypeOK
  <2>3. Shape("wait", op[q], want[q], held[q], iter[q])
      BY <2>1 DEF LocksInv
  <2>4. held[q] \in Seq(Nodes) /\ iter[q] \in Seq(SUBSET Nodes) /\ want[q] \in Nodes \cup {NoNode}
      BY <1>1, <2>1 DEF LocksTypeOK
  <2>5. Shape("got", op[q], want[q], Append(held[q], want[q]), iter[q]) /\ Append(held[q], want[q]) \in Seq(Nodes)
      BY <2>3, <2>4, LetIn
  <2> QED
      BY <2>1, <2>2, <2>5
<1>7. ASSUME NEW q \in Procs, q \notin Barred(p), q # p
      PROVE  /\ pc'[q] = pc[q] /\ op'[q] = op[q] /\ want'[q] = want[q] /\ held'[q] = held[q]
             /\ Shape(pc[q], op[q], want[q], held[q], iter[q])
    BY <1>1, <1>2, <1>7 DEF LocksTypeOK, LocksInv
<1>8. pc'[p] = "idle" /\ op'[p] = "none" /\ want'[p] = NoNode /\ held'[p] = << >>
    BY <1>1, <1>2, <1>3 DEF LocksTypeOK
<1>9. LocksTypeOK'
  <2>1. held' \in [Procs -> Seq(Nodes)]
      BY <1>1, <1>2, <1>6 DEF LocksTypeOK
  <2>2. pc' \in [Procs -> Labels]
      BY <1>1, <1>2 DEF LocksTypeOK, Labels
  <2> QED
      BY <1>1, <1>2, <1>5, <2>1, <2>2 DEF LocksTypeOK, Labels
<1>10. ASSUME NEW q \in Procs PROVE Shape(pc'[q], op'[q], want'[q], held'[q], iter'[q])
  <2>1. CASE q = p
    <3>1. Shape("idle", "none", NoNode, << >>, << >>)
        BY DEF Shape
    <3> QED
        BY <1>2, <1>4, <1>8, <2>1, <3>1
  <2>2. CASE q \in Barred(p)
      BY <1>2, <1>6, <2>2
  <2>3. CASE q # p /\ q \notin Barred(p)
      BY <1>2, <1>7, <2>3
  <2> QED
      BY <2>1, <2>2, <2>3
<1>11. ASSUME NEW n \in Nodes, writer'[n] # NoProc
       PROVE  pc'[writer'[n]] = "drain" /\ want'[writer'[n]] = n
  <2>1. n # want[p] /\ writer'[n] = writer[n] /\ writer[n] \in Procs
      BY <1>1, <1>2, <1>11 DEF LocksTypeOK
  <2>2. pc[writer[n]] = "drain" /\ want[writer[n]] = n
      BY <1>11, <2>1 DEF LocksInv, Owned
  <2>3. writer[n] # p /\ writer[n] \notin Barred(p)
      BY <2>1, <2>2 DEF Barred
  <2> QED
      BY <1>7, <2>1, <2>2, <2>3
<1>12. ASSUME NEW q \in Procs, pc'[q] = "wait" PROVE writer'[want'[q]] # NoProc
  <2>1. q # p /\ q \notin Barred(p)
      BY <1>6, <1>8, <1>12
  <2>2. pc[q] = "wait" /\ want'[q] = want[q]
      BY <1>7, <1>12, <2>1
  <2>3. want[q] # want[p]
      BY <2>1, <2>2 DEF Barred
  <2>4. writer[want[q]] # NoProc /\ want[q] \in Nodes
      BY <2>2 DEF LocksInv, Owned, Shape
  <2> QED
      BY <1>1, <1>2, <2>2, <2>3, <2>4 DEF LocksTypeOK
<1>13. ASSUME NEW q \in Procs PROVE DueShape(pc'[q], held'[q], due[q])
  <2>1. DueShape(pc[q], held[q], due[q])
      BY DEF LocksInv
  <2>2. CASE q = p
      BY <1>1, <1>3, <1>8, <2>1, <2>2 DEF DueShape
  <2>3. CASE q \in Barred(p)
    <3>1. pc[q] = "wait" /\ held[q] \in Seq(Nodes) /\ pc'[q] = "got"
          /\ held'[q] = Append(held[q], want[q])
        BY <1>1, <1>6, <2>3 DEF Barred, LocksTypeOK
    <3>2. Len(Append(held[q], want[q])) = Len(held[q]) + 1
        BY <3>1
    <3> QED
        BY <2>1, <3>1, <3>2 DEF DueShape
  <2>4. CASE q # p /\ q \notin Barred(p)
      BY <1>7, <2>1, <2>4
  <2> QED
      BY <2>2, <2>3, <2>4
<1> QED
    BY <1>2, <1>9, <1>10, <1>11, <1>12, <1>13 DEF LocksInv, Owned

(* Every step keeps the invariant. *)
LEMMA LocksNextInv == LocksInv /\ [LocksNext]_vars => LocksInv'
<1> SUFFICES ASSUME LocksInv, [LocksNext]_vars PROVE LocksInv'
    OBVIOUS
<1>1. CASE UNCHANGED vars
    BY <1>1 DEF vars, LocksInv, LocksTypeOK, Owned, Shape, DueShape
<1>2. ASSUME NEW p \in Procs, Start(p) \/ Step(p) \/ IOReturns(p) PROVE LocksInv'
    BY <1>2, StartInv, NotFoundInv, HandleInv, ReadDirInv, ListInv, NextChildInv, NameInv,
       ClimbInv, UnwindInv, LockInv, WriteInv DEF Step
<1> QED
    BY <1>1, <1>2 DEF LocksNext

LEMMA LocksInvariant == LocksSpec => []LocksInv
<1> QED
    BY LocksInitInv, LocksNextInv, PTL DEF LocksSpec

-----------------------------------------------------------------------------
(* The locks that a group of goroutines waits for others to leave. *)
Draining(S) == {n \in Nodes : \E p \in S : pc[p] = "drain" /\ want[p] = n}

(* Whoever waits in the group waits for a lock that one of the group       *)
(* drains.                                                                 *)
LEMMA WaitsAtDrain ==
    ASSUME LocksInv, NEW S \in SUBSET Procs, Deadlocked(S), NEW p \in S
    PROVE  want[p] \in Draining(S)
<1>1. Blocked(p) /\ \A q \in Procs : WaitsFor(p, q) => q \in S
    BY DEF Deadlocked
<1>2. LocksTypeOK /\ Shape(pc[p], op[p], want[p], held[p], iter[p])
    BY DEF LocksInv
<1>3. want[p] \in Nodes
    BY <1>1, <1>2 DEF Blocked, Shape
<1>4. CASE pc[p] = "drain"
    BY <1>3, <1>4 DEF Draining
<1>5. CASE pc[p] # "drain"
  <2>1. pc[p] \in {"wait", "lock"} /\ writer[want[p]] # NoProc
      BY <1>1, <1>5 DEF Blocked, LocksInv, Owned
  <2>2. writer[want[p]] \in Procs
      BY <1>2, <1>3, <2>1 DEF LocksTypeOK
  <2>3. pc[writer[want[p]]] = "drain" /\ want[writer[want[p]]] = want[p]
      BY <1>3, <2>1 DEF LocksInv, Owned
  <2>4. writer[want[p]] \in S
      BY <1>1, <2>1, <2>2 DEF WaitsFor
  <2> QED
      BY <1>3, <2>3, <2>4 DEF Draining
<1> QED
    BY <1>4, <1>5

(* Whoever keeps a drained lock waits for another one: a later node's if   *)
(* it is a ReadDir, an earlier one's if it is a Path.                      *)
LEMMA HolderWaits ==
    ASSUME LocksInv, NEW S \in SUBSET Procs, Deadlocked(S), NEW n \in Draining(S)
    PROVE  \E q \in S : /\ op[q] \in {"readdir", "path", "tree"}
                        /\ op[q] = "path" => want[q] < n
                        /\ op[q] = "readdir" => n < want[q]
<1>1. PICK p \in S : pc[p] = "drain" /\ want[p] = n
    BY DEF Draining
<1>2. PICK q \in Procs : Holds(q, n) /\ q \in S
    BY <1>1 DEF Deadlocked, Blocked, WaitsFor
<1>3. Shape(pc[q], op[q], want[q], held[q], iter[q]) /\ Blocked(q)
    BY <1>2 DEF LocksInv, Deadlocked
<1>4. PICK i \in DOMAIN held[q] : held[q][i] = n
    BY <1>2 DEF Holds
<1>5. held[q] # << >>
    BY <1>4
<1>6. pc[q] = "wait"
    BY <1>3, <1>5 DEF Blocked, Shape
<1>7. op[q] \in {"readdir", "path", "tree"}
    BY <1>3, <1>5, <1>6 DEF Shape
<1>8. op[q] = "path" => want[q] < n
    BY <1>3, <1>4, <1>6 DEF Shape
<1>9. op[q] = "readdir" => n < want[q]
    BY <1>3, <1>4, <1>6 DEF Shape
<1> QED
    BY <1>2, <1>7, <1>8, <1>9

LEMMA LeastNode ==
    ASSUME NEW S \in SUBSET Nat, S # {}
    PROVE  \E m \in S : \A k \in S : ~(k < m)
<1>1. PICK m \in S : \A k \in S : ~(<<k, m>> \in OpToRel(<, Nat))
    BY WFMin, NatLessThanWellFounded
<1> QED
    BY <1>1 DEF OpToRel

(* Nodes are finitely many, so a set of them has a last one too. *)
LEMMA LastNode ==
    ASSUME NEW S \in SUBSET Nodes, S # {}
    PROVE  \E m \in S : \A k \in S : ~(m < k)
<1> DEFINE T == {MaxNode - k : k \in S}
<1>0. \A k \in S : k \in Nat /\ MaxNode - k \in Nat
    BY LocksAssumption DEF Nodes
<1>1. T \in SUBSET Nat /\ T # {}
    BY <1>0
<1>2. PICK t \in T : \A u \in T : ~(u < t)
    BY <1>1, LeastNode
<1>3. PICK m \in S : t = MaxNode - m
    BY <1>2
<1>4. ASSUME NEW k \in S PROVE ~(m < k)
  <2>1. ~(MaxNode - k < MaxNode - m)
      BY <1>2, <1>3
  <2>2. m \in Nat /\ k \in Nat /\ MaxNode \in Nat
      BY <1>0, LocksAssumption
  <2> QED
      BY <2>1, <2>2
<1> QED
    BY <1>4

LEMMA NoCycle == LocksInv => NoWaitCycle
<1> SUFFICES ASSUME LocksInv, NEW S \in SUBSET Procs, Deadlocked(S)
             PROVE  /\ \E p \in S : op[p] \in {"path", "tree"}
                    /\ \E p \in S : op[p] \in {"readdir", "tree"}
    BY DEF NoWaitCycle
<1>1. Draining(S) \in SUBSET Nodes /\ Draining(S) # {}
  <2>1. PICK p \in S : TRUE
      BY DEF Deadlocked
  <2> QED
      BY <2>1, WaitsAtDrain DEF Draining
<1>2. \E p \in S : op[p] \in {"path", "tree"}
  <2> SUFFICES ASSUME \A p \in S : op[p] \notin {"path", "tree"} PROVE FALSE
      OBVIOUS
  <2>1. PICK m \in Draining(S) : \A k \in Draining(S) : ~(m < k)
      BY <1>1, LastNode
  <2>2. PICK q \in S : op[q] = "readdir" /\ m < want[q]
      BY HolderWaits
  <2> QED
      BY <2>1, <2>2, WaitsAtDrain
<1>3. \E p \in S : op[p] \in {"readdir", "tree"}
  <2> SUFFICES ASSUME \A p \in S : op[p] \notin {"readdir", "tree"} PROVE FALSE
      OBVIOUS
  <2>1. Draining(S) \in SUBSET Nat
      BY <1>1 DEF Nodes
  <2>2. PICK m \in Draining(S) : \A k \in Draining(S) : ~(k < m)
      BY <1>1, <2>1, LeastNode
  <2>3. PICK q \in S : op[q] = "path" /\ want[q] < m
      BY HolderWaits
  <2> QED
      BY <2>2, <2>3, WaitsAtDrain
<1> QED
    BY <1>2, <1>3

-----------------------------------------------------------------------------
(* Type correctness of the lock model: in particular every lock that is    *)
(* asked for is a node's.                                                  *)
THEOREM LocksTypeCorrect == LocksSpec => []LocksTypeOK
<1>1. LocksInv => LocksTypeOK
    BY DEF LocksInv
<1> QED
    BY <1>1, LocksInvariant, PTL

(* Every return of every function, the early ones included, comes after a  *)
(* Close or RUnlock has been deferred for each lock it holds, and for no   *)
(* other: nothing stays locked behind a handler, and no lock is given back *)
(* twice.                                                                  *)
THEOREM NothingStaysLocked == LocksSpec => []NothingLeftLocked
<1>1. LocksInv => NothingLeftLocked
  <2> SUFFICES ASSUME LocksInv, NEW p \in Procs
               PROVE  /\ pc[p] = "unwind" => due[p] \in Len(iter[p]) .. Len(held[p])
                      /\ pc[p] = "idle" => held[p] = << >> /\ \A n \in Nodes : writer[n] # p
      BY DEF NothingLeftLocked
  <2>1. pc[p] = "idle" => held[p] = << >>
      BY DEF LocksInv, Shape
  <2>2. pc[p] = "idle" => \A n \in Nodes : writer[n] # p
      BY LocksAssumption DEF LocksInv, Owned
  <2>3. pc[p] = "unwind" => due[p] \in Len(iter[p]) .. Len(held[p])
    <3>1. pc[p] = "unwind" => Len(held[p]) = due[p] /\ Len(iter[p]) <= Len(held[p])
        BY DEF LocksInv, Shape, DueShape
    <3>2. due[p] \in Nat /\ Len(iter[p]) \in Nat
        BY DEF LocksInv, LocksTypeOK
    <3> QED
        BY <3>1, <3>2
  <2> QED
      BY <2>1, <2>2, <2>3
<1> QED
    BY <1>1, LocksInvariant, PTL

(* Goroutines deadlock only if one of them climbs (Path, the log builders) *)
(* and one descends (ReadDir, LogNodeTreeBuilder), in every tree and for   *)
(* any number of goroutines: FUSE handlers and writers alone never do.     *)
THEOREM DeadlockNeedsBoth == LocksSpec => []NoWaitCycle
<1> QED
    BY NoCycle, LocksInvariant, PTL
=============================================================================
