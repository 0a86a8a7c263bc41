--------------------------- MODULE FileMetaProofs ---------------------------
(***************************************************************************)
(* Proofs about FileMeta, for any number of sources and programs and any   *)
(* lengths and sizes: what programs read of a file is in its place, and    *)
(* all of it if the sources agree and no answer breaks off.                *)
(***************************************************************************)
EXTENDS FileMeta, SequenceTheorems, TLAPS

-----------------------------------------------------------------------------
(* The inductive invariant.                                                *)

(* The inode's size is still 0, or a source has told it, once; one that    *)
(* told none has left the largest word.                                    *)
SizeKnown ==
    /\ by[Meta] = 0 => size = 0
    /\ size = 0 \/ size = Word - 1 \/ \E a \in Adapters : size = Length[a]

(* What the adapter has put into the buffer follows what the program has.  *)
BufFollows(r) ==
    /\ state[r] # "sent" => buf[r] = << >>
    /\ \A i \in DOMAIN buf[r] : buf[r][i] = Len(got[r]) + i - 1

(* An answer that is short although nothing has broken off ends where some *)
(* source does.                                                            *)
EndsThere(r) ==
    ~cut /\ state[r] = "sent" /\ by[r] # 0 /\ Len(buf[r]) < asked[r] =>
        \E a \in Adapters : Len(got[r]) + Len(buf[r]) = Length[a]

(* Sources of one length: no program is beyond it, and one that asks for   *)
(* more is before it.                                                      *)
Within(r) ==
    Replicas => \A a \in Adapters :
        /\ Len(got[r]) <= Length[a]
        /\ state[r] = "sent" => Len(got[r]) < Length[a]

(* While no answer has broken off the kernel's size, once it is known, is  *)
(* the length for good, and an answer is as long as the request and the    *)
(* source allow.                                                           *)
Settled ==
    Replicas /\ ~cut /\ ksize # 0 =>
        by[Meta] # 0 /\ \A a \in Adapters : ksize = Length[a] /\ size = Length[a]

Answered(a, offset, s) == Min({s, Length[a] - offset})

Full(r) ==
    Replicas /\ ~cut =>
        /\ shown[r] # 0 => ksize # 0
        /\ state[r] = "sent" /\ by[r] # 0 =>
              \A a \in Adapters : Len(buf[r]) = Answered(a, Len(got[r]), asked[r])

(* The parts of GotInPlace and WholeFile that are about program r.         *)
InPlace(r) == \A i \in DOMAIN got[r] : got[r][i] = i - 1

Whole(r) ==
    Replicas /\ ~cut /\ state[r] = "eof" /\ shown[r] > 0
        => \A a \in Adapters : Len(got[r]) = Length[a]

ReaderInv(r) ==
    /\ InPlace(r)
    /\ Whole(r)
    /\ BufFollows(r)
    /\ EndsThere(r)
    /\ Within(r)
    /\ Full(r)
    /\ state[r] = "sent" => asked[r] # 0

FileInv ==
    /\ KernelSizeReal
    /\ SizeKnown
    /\ Settled

MetaInv ==
    /\ MetaTypeOK
    /\ FileInv
    /\ \A r \in Readers : ReaderInv(r)

-----------------------------------------------------------------------------
(* About the constants and the operators.                                  *)

LEMMA SourceFacts ==
    /\ 1 \in Adapters
    /\ Meta \notin Readers /\ Readers \subseteq Threads
    /\ \A a \in Adapters : a \in Nat /\ a # 0 /\ Length[a] \in 0 .. MaxSize
  BY MetaAssumption DEF Adapters, Readers

(* The word that stands for a length that was not sent is too large to be  *)
(* taken for a size.                                                       *)
LEMMA WordFacts ==
    /\ Word \in Nat /\ Word > 1 /\ MaxSize \in Nat
    /\ MaxSize < Word - 1
  <1>1. Word \in Nat /\ Word > 1
    BY MetaAssumption
  <1>2. Word \div 2 \in Nat /\ Word \div 2 > 0 /\ Word \div 2 < Word
    BY <1>1
  <1> QED
    BY <1>1, <1>2 DEF MaxSize

LEMMA ContentLengthFacts ==
    ASSUME NEW a \in Adapters
    PROVE  /\ ContentLength(a) \in 0 .. Word - 1
           /\ ContentLength(a) = Word - 1 \/ ContentLength(a) = Length[a]
  <1>1. \A n \in 0 .. MaxSize : n % Word = n
    BY WordFacts
  <1>2. (0 - 1) % Word = Word - 1
    BY WordFacts
  <1>3. Length[a] \in 0 .. MaxSize
    BY SourceFacts
  <1>4. CASE a \in Tells
    BY <1>1, <1>3, <1>4, WordFacts DEF ContentLength
  <1>5. CASE a \notin Tells
    BY <1>2, <1>5, WordFacts DEF ContentLength
  <1> QED
    BY <1>4, <1>5

LEMMA MinOfTwo ==
    ASSUME NEW m \in Int, NEW n \in Int
    PROVE  Min({m, n}) = IF m <= n THEN m ELSE n
  <1> DEFINE k == IF m <= n THEN m ELSE n
  <1>1. k \in {m, n} /\ \A y \in {m, n} : k <= y
    OBVIOUS
  <1>2. \A x \in {m, n} : (\A y \in {m, n} : x <= y) => x = k
    OBVIOUS
  <1> QED
    BY <1>1, <1>2 DEF Min

LEMMA MaxOfTwo ==
    ASSUME NEW m \in Int, NEW n \in Int
    PROVE  Max({m, n}) = IF m >= n THEN m ELSE n
  <1> DEFINE k == IF m >= n THEN m ELSE n
  <1>1. k \in {m, n} /\ \A y \in {m, n} : k >= y
    OBVIOUS
  <1>2. \A x \in {m, n} : (\A y \in {m, n} : x >= y) => x = k
    OBVIOUS
  <1> QED
    BY <1>1, <1>2 DEF Max

(* The bytes of s are those from place k on.                               *)
From(s, k) == s \in Seq(Nat) /\ \A i \in 1 .. Len(s) : s[i] = k + i - 1

LEMMA FromDomain ==
    ASSUME NEW s, NEW k, From(s, k)
    PROVE  s \in Seq(Nat) /\ \A i \in DOMAIN s : s[i] = k + i - 1
  <1>1. s \in Seq(Nat)
    BY DEF From
  <1>2. DOMAIN s = 1 .. Len(s)
    BY <1>1, LenProperties
  <1> QED
    BY <1>1, <1>2 DEF From

(* A part of a sequence of bytes in place is in place.                     *)
LEMMA PartInPlace ==
    ASSUME NEW s, NEW k \in Nat, From(s, k),
           NEW m \in Nat \ {0}, NEW n \in Nat, n <= Len(s)
    PROVE  /\ From(SubSeq(s, m, n), k + m - 1)
           /\ Len(SubSeq(s, m, n)) = IF m <= n THEN n - m + 1 ELSE 0
  <1> DEFINE h == SubSeq(s, m, n)
  <1>1. s \in Seq(Nat) /\ Len(s) \in Nat /\ \A i \in 1 .. Len(s) : s[i] = k + i - 1
    BY DEF From
  <1>2. \A i \in m .. n : i \in 1 .. Len(s) /\ s[i] \in Nat
    <2>1. \A i \in m .. n : i \in 1 .. Len(s)
      BY <1>1
    <2>2. \A i \in 1 .. Len(s) : s[i] \in Nat
      BY <1>1
    <2> QED
      BY <2>1, <2>2
  <1>3. /\ h \in Seq(Nat)
        /\ Len(h) = IF m <= n THEN n - m + 1 ELSE 0
        /\ \A i \in 1 .. n - m + 1 : h[i] = s[m + i - 1]
    BY <1>2, SubSeqProperties
  <1> HIDE DEF h
  <1>4. ASSUME NEW i \in 1 .. Len(h)
        PROVE  h[i] = (k + m - 1) + i - 1
    <2>1. m <= n /\ i \in 1 .. n - m + 1
      BY <1>3
    <2>2. m + i - 1 \in 1 .. Len(s)
      BY <1>1, <2>1
    <2>3. h[i] = s[m + i - 1] /\ s[m + i - 1] = k + (m + i - 1) - 1
      BY <1>1, <1>3, <2>1, <2>2
    <2> QED
      BY <2>1, <2>3
  <1> QED
    BY <1>3, <1>4 DEF h, From

LEMMA ContentInPlace ==
    ASSUME NEW a \in Adapters
    PROVE  From(Content(a), 0) /\ Len(Content(a)) = Length[a]
  <1>1. Length[a] \in Nat
    BY SourceFacts, WordFacts
  <1>2. Content(a) \in [1 .. Length[a] -> Nat]
    BY <1>1 DEF Content
  <1>3. Content(a) \in Seq(Nat)
    BY <1>1, <1>2
  <1>4. Len(Content(a)) = Length[a]
    BY <1>1, <1>2, <1>3, LenProperties
  <1> QED
    BY <1>1, <1>3, <1>4 DEF From, Content

(* What HTTPAdapter.Read returns of the first n bytes of a body: they are  *)
(* the ones at the offset, whether the server has sent a range or          *)
(* everything, and nothing is missing if the body is complete.             *)
LEMMA DataInPlace ==
    ASSUME NEW a \in Adapters, NEW offset \in Nat, NEW s \in Nat \ {0},
           ~Unsatisfiable(a, RangeHeader(offset, s)),
           NEW n \in 0 .. Len(Body(a, RangeHeader(offset, s))),
           CanSkip(a, SubSeq(Body(a, RangeHeader(offset, s)), 1, n), offset)
    PROVE  LET d == ReadFull(Skip(a, SubSeq(Body(a, RangeHeader(offset, s)), 1, n), offset), s)
           IN  /\ From(d, offset)
               /\ ~(n < Len(Body(a, RangeHeader(offset, s)))) =>
                      /\ Len(d) = Answered(a, offset, s)
                      /\ Len(d) < s => offset + Len(d) = Length[a]
  <1> DEFINE c     == Content(a)
             whole == Body(a, RangeHeader(offset, s))
             body  == SubSeq(whole, 1, n)
             rest  == Skip(a, body, offset)
             d     == ReadFull(rest, s)
  <1>1. /\ Length[a] \in Nat /\ From(c, 0) /\ Len(c) = Length[a]
        /\ offset + 1 \in Nat \ {0} /\ offset + s \in Nat
    BY SourceFacts, WordFacts, ContentInPlace
  <1>2. RangeHeader(offset, s).first = offset /\ RangeHeader(offset, s).last + 1 = offset + s
    BY DEF RangeHeader
  <1> HIDE DEF c
  <1>3. CASE a \in Honours
    <2> DEFINE e == Min({offset + s, Length[a]})
    <2>1. offset < Length[a]
      BY <1>1, <1>2, <1>3 DEF Unsatisfiable
    <2>2. whole = SubSeq(c, offset + 1, e)
      BY <1>2, <1>3 DEF Body, c
    <2>3. e = IF offset + s <= Length[a] THEN offset + s ELSE Length[a]
      BY <1>1, MinOfTwo
    <2>4. e \in Nat /\ e <= Length[a] /\ offset + 1 <= e
      BY <1>1, <2>1, <2>3
    <2> HIDE DEF e
    <2>5. From(whole, offset) /\ Len(whole) = e - offset
      <3>1. /\ From(SubSeq(c, offset + 1, e), 0 + (offset + 1) - 1)
            /\ Len(SubSeq(c, offset + 1, e)) = e - (offset + 1) + 1
        BY <1>1, <2>4, PartInPlace
      <3>2. 0 + (offset + 1) - 1 = offset /\ e - (offset + 1) + 1 = e - offset
        BY <2>4
      <3> QED
        BY <2>2, <3>1, <3>2
    <2> HIDE DEF whole
    <2>6. n \in Nat /\ n <= Len(whole) /\ Len(whole) \in Nat
      BY <2>4, <2>5 DEF whole
    <2>7. From(body, offset) /\ Len(body) = n
      <3>1. /\ From(SubSeq(whole, 1, n), offset + 1 - 1)
            /\ Len(SubSeq(whole, 1, n)) = IF 1 <= n THEN n - 1 + 1 ELSE 0
        BY <2>5, <2>6, PartInPlace
      <3>2. offset + 1 - 1 = offset /\ (IF 1 <= n THEN n - 1 + 1 ELSE 0) = n
        BY <2>6
      <3> QED
        BY <3>1, <3>2
    <2> HIDE DEF body
    <2>8. rest = body
      BY <1>3 DEF Skip
    <2> HIDE DEF rest
    <2> DEFINE k == Min({s, Len(rest)})
    <2>9. k = IF s <= n THEN s ELSE n
      BY <2>6, <2>7, <2>8, MinOfTwo
    <2>10. d = SubSeq(rest, 1, k)
      BY DEF ReadFull
    <2> HIDE DEF k, d
    <2>11. k \in Nat /\ k <= Len(rest) /\ (IF 1 <= k THEN k - 1 + 1 ELSE 0) = k
      BY <2>6, <2>7, <2>8, <2>9
    <2>12. From(d, offset) /\ Len(d) = k
      <3>1. /\ From(SubSeq(rest, 1, k), offset + 1 - 1)
            /\ Len(SubSeq(rest, 1, k)) = IF 1 <= k THEN k - 1 + 1 ELSE 0
        BY <2>7, <2>8, <2>11, PartInPlace
      <3>2. offset + 1 - 1 = offset
        OBVIOUS
      <3> QED
        BY <2>10, <2>11, <3>1, <3>2
    <2>13. ASSUME ~(n < Len(whole))
           PROVE  /\ Len(d) = Answered(a, offset, s)
                  /\ Len(d) < s => offset + Len(d) = Length[a]
      <3>1. n = e - offset
        BY <2>4, <2>5, <2>6, <2>13
      <3>2. k = IF s <= Length[a] - offset THEN s ELSE Length[a] - offset
        BY <1>1, <2>1, <2>3, <2>4, <2>9, <3>1
      <3>3. Answered(a, offset, s) = IF s <= Length[a] - offset THEN s ELSE Length[a] - offset
        BY <1>1, MinOfTwo DEF Answered
      <3> QED
        BY <1>1, <2>12, <3>2, <3>3
    <2> QED
      BY <2>12, <2>13 DEF d, rest, body, whole
  <1>4. CASE a \notin Honours
    <2>1. whole = c
      BY <1>4 DEF Body, c
    <2> HIDE DEF whole
    <2>2. n \in Nat /\ n <= Length[a]
      BY <1>1, <2>1 DEF whole
    <2>3. From(body, 0) /\ Len(body) = n
      <3>1. /\ From(SubSeq(c, 1, n), 0 + 1 - 1)
            /\ Len(SubSeq(c, 1, n)) = IF 1 <= n THEN n - 1 + 1 ELSE 0
        BY <1>1, <2>2, PartInPlace
      <3>2. 0 + 1 - 1 = 0 /\ (IF 1 <= n THEN n - 1 + 1 ELSE 0) = n
        BY <2>2
      <3> QED
        BY <2>1, <3>1, <3>2
    <2>4. CanSkip(a, body, offset)
      BY DEF whole
    <2> HIDE DEF body
    <2>5. offset <= n
      BY <1>4, <2>3, <2>4 DEF CanSkip
    <2>6. rest = SubSeq(body, offset + 1, n)
      BY <1>4, <2>3 DEF Skip
    <2> HIDE DEF rest
    <2>7. From(rest, offset) /\ Len(rest) = n - offset
      <3>1. /\ From(SubSeq(body, offset + 1, n), 0 + (offset + 1) - 1)
            /\ Len(SubSeq(body, offset + 1, n)) = IF offset + 1 <= n THEN n - (offset + 1) + 1 ELSE 0
        BY <1>1, <2>2, <2>3, PartInPlace
      <3>2. /\ 0 + (offset + 1) - 1 = offset
            /\ (IF offset + 1 <= n THEN n - (offset + 1) + 1 ELSE 0) = n - offset
        BY <2>2, <2>5
      <3> QED
        BY <2>6, <3>1, <3>2
    <2> DEFINE k == Min({s, Len(rest)})
    <2>8. k = IF s <= n - offset THEN s ELSE n - offset
      BY <2>2, <2>7, MinOfTwo
    <2>9. d = SubSeq(rest, 1, k)
      BY DEF ReadFull
    <2> HIDE DEF k, d
    <2>10. k \in Nat /\ k <= Len(rest) /\ (IF 1 <= k THEN k - 1 + 1 ELSE 0) = k
      BY <2>2, <2>5, <2>7, <2>8
    <2>11. From(d, offset) /\ Len(d) = k
      <3>1. /\ From(SubSeq(rest, 1, k), offset + 1 - 1)
            /\ Len(SubSeq(rest, 1, k)) = IF 1 <= k THEN k - 1 + 1 ELSE 0
        BY <2>7, <2>10, PartInPlace
      <3>2. offset + 1 - 1 = offset
        OBVIOUS
      <3> QED
        BY <2>9, <2>10, <3>1, <3>2
    <2>12. ASSUME ~(n < Len(whole))
           PROVE  /\ Len(d) = Answered(a, offset, s)
                  /\ Len(d) < s => offset + Len(d) = Length[a]
      <3>1. n = Length[a]
        BY <1>1, <2>1, <2>2, <2>12
      <3>2. Answered(a, offset, s) = IF s <= Length[a] - offset THEN s ELSE Length[a] - offset
        BY <1>1, MinOfTwo DEF Answered
      <3> QED
        BY <1>1, <2>5, <2>8, <2>11, <3>1, <3>2
    <2> QED
      BY <2>11, <2>12 DEF d, rest, body, whole
  <1> QED
    BY <1>3, <1>4

-----------------------------------------------------------------------------
(* The invariant holds at the start and is kept.                           *)

LEMMA InitInv == MetaInit => MetaInv
  <1> SUFFICES ASSUME MetaInit
               PROVE  MetaInv
    OBVIOUS
  <1> USE SourceFacts, WordFacts DEF MetaInit
  <1>1. MetaTypeOK
    <2>1. FailoverTypeOK
      BY DEF FailoverTypeOK
    <2>2. size \in 0 .. Word - 1 /\ ksize \in 0 .. MaxSize
      OBVIOUS
    <2>3. fresh \in BOOLEAN /\ cut \in BOOLEAN
      OBVIOUS
    <2>4. shown \in [Readers -> 0 .. MaxSize] /\ asked \in [Readers -> Nat]
      BY <2>2
    <2>5. state \in [Readers -> {"idle", "loop", "sent", "eof", "EIO"}]
      OBVIOUS
    <2>6. buf \in [Readers -> Seq(Nat)] /\ got \in [Readers -> Seq(Nat)]
      OBVIOUS
    <2> QED
      BY <2>1, <2>2, <2>3, <2>4, <2>5, <2>6 DEF MetaTypeOK
  <1>2. FileInv
    BY DEF FileInv, KernelSizeReal, SizeKnown, Settled
  <1>3. ASSUME NEW r \in Readers
        PROVE  ReaderInv(r)
    <2>1. state[r] = "idle" /\ shown[r] = 0 /\ buf[r] = << >> /\ got[r] = << >>
      OBVIOUS
    <2>2. Len(got[r]) = 0 /\ DOMAIN got[r] = {} /\ DOMAIN buf[r] = {}
      BY <2>1
    <2> QED
      BY <2>1, <2>2 DEF ReaderInv, InPlace, Whole, BufFollows, EndsThere, Within, Full
  <1> QED
    BY <1>1, <1>2, <1>3 DEF MetaInv

(* A program whose own state is left alone keeps its invariant, unless the *)
(* kernel loses a size that is right.                                      *)
LEMMA ReaderKept ==
    ASSUME NEW s \in Readers, ReaderInv(s),
           state'[s] = state[s], shown'[s] = shown[s], asked'[s] = asked[s],
           buf'[s] = buf[s], got'[s] = got[s], by'[s] = by[s],
           cut => cut',
           Replicas /\ ~cut /\ ksize # 0 => ksize' # 0
    PROVE  ReaderInv(s)'
  <1>1. InPlace(s)' /\ Whole(s)' /\ BufFollows(s)' /\ Within(s)'
    BY DEF ReaderInv, InPlace, Whole, BufFollows, Within, Replicas
  <1>2. EndsThere(s)'
    BY DEF ReaderInv, EndsThere
  <1>3. Full(s)'
    BY DEF ReaderInv, Full, Replicas, Answered
  <1> QED
    BY <1>1, <1>2, <1>3 DEF ReaderInv

(* The kernel's size is at most some source's.                             *)
LEMMA SizeBounded ==
    ASSUME KernelSizeReal, ksize \in Nat
    PROVE  \E a \in Adapters : ksize <= Length[a]
  <1>1. Length[1] \in Nat /\ 1 \in Adapters /\ \A a \in Adapters : Length[a] \in Nat
    BY SourceFacts, WordFacts
  <1> QED
    BY <1>1 DEF KernelSizeReal

LEMMA FileKept ==
    ASSUME FileInv, size' = size, ksize' = ksize, by'[Meta] = by[Meta],
           ksize \in Nat, cut => cut'
    PROVE  FileInv'
  <1>1. KernelSizeReal'
    BY SizeBounded DEF FileInv, KernelSizeReal
  <1> QED
    BY <1>1 DEF FileInv, SizeKnown, Settled, Replicas

LEMMA KernelSizeNat == MetaInv => ksize \in Nat
  BY WordFacts DEF MetaInv, MetaTypeOK

(* The steps of tryOperation keep its types.                               *)
LEMMA FailoverKept ==
    ASSUME NEW t \in Threads, NEW a \in Adapters, FailoverTypeOK,
           Begin(t) \/ Fails(t, a) \/ Succeeds(t, a) \/ Returns(t)
    PROVE  /\ FailoverTypeOK'
           /\ \A s \in Threads \ {t} : by'[s] = by[s]
  <1>1. CASE Begin(t)
    BY <1>1 DEF FailoverTypeOK, Begin
  <1>2. CASE Fails(t, a)
    BY <1>2 DEF FailoverTypeOK, Fails
  <1>3. CASE Succeeds(t, a)
    BY <1>3 DEF FailoverTypeOK, Succeeds
  <1>4. CASE Returns(t)
    <2>1. PICK o \in Outcomes(t) : result' = [result EXCEPT ![t] = o]
      BY <1>4 DEF Returns
    <2>2. o \in {"none", "ok", "err", "cancelled"}
      BY DEF Outcomes
    <2> QED
      BY <1>4, <2>1, <2>2 DEF FailoverTypeOK, Returns
  <1> QED
    BY <1>1, <1>2, <1>3, <1>4

-----------------------------------------------------------------------------
(* RefreshMeta.                                                            *)

LEMMA MetaStepInv ==
    ASSUME MetaInv, NEW a \in Adapters,
           MetaFails(a) \/ MetaSucceeds(a) \/ MetaReturns
    PROVE  MetaInv'
  <1> USE SourceFacts DEF MetaInv
  <1>1. FailoverTypeOK' /\ \A s \in Readers : by'[s] = by[s]
    BY MetaAssumption, FailoverKept
       DEF MetaTypeOK, MetaFails, MetaSucceeds, MetaReturns
  <1>2. UNCHANGED <<ksize, fresh, state, shown, asked, buf, got, cut>>
    BY DEF MetaFails, MetaSucceeds, MetaReturns, fileVars, readerVars
  <1>3. size' \in 0 .. Word - 1 /\ FileInv'
    <2>1. CASE MetaFails(a) \/ MetaReturns
      <3>1. size' = size /\ by' = by
        BY <2>1 DEF MetaFails, MetaReturns, Fails, Returns, fileVars
      <3> QED
        BY <3>1, <1>2, KernelSizeNat, FileKept DEF MetaTypeOK
    <2>2. CASE MetaSucceeds(a)
      <3>1. /\ size' = ContentLength(a)
            /\ by[Meta] = 0 /\ by'[Meta] = a
        BY <2>2, MetaAssumption
           DEF MetaSucceeds, Succeeds, Due, MetaTypeOK, FailoverTypeOK
      <3>2. KernelSizeReal' /\ SizeKnown'
        BY <3>1, <1>2, ContentLengthFacts DEF FileInv, KernelSizeReal, SizeKnown
      <3>3. Settled'
        BY <3>1, <1>2 DEF FileInv, Settled, Replicas
      <3> QED
        BY <3>1, <3>2, <3>3, ContentLengthFacts DEF FileInv
    <2> QED
      BY <2>1, <2>2
  <1>4. MetaTypeOK'
    BY <1>1, <1>2, <1>3 DEF MetaTypeOK
  <1>5. \A s \in Readers : ReaderInv(s)'
    BY <1>1, <1>2, ReaderKept
  <1> QED
    BY <1>3, <1>4, <1>5

-----------------------------------------------------------------------------
(* The kernel and the programs.                                            *)

LEMMA ExpireInv ==
    ASSUME MetaInv, Expire
    PROVE  MetaInv'
  <1>1. UNCHANGED <<busy, tried, by, result, size, ksize, state, shown, asked, buf, got, cut>>
        /\ fresh' = FALSE
    BY DEF Expire, failoverVars, readerVars
  <1>2. MetaTypeOK'
    BY <1>1 DEF MetaInv, MetaTypeOK, FailoverTypeOK
  <1> QED
    BY <1>1, <1>2, KernelSizeNat, FileKept, ReaderKept DEF MetaInv

LEMMA StatInv ==
    ASSUME MetaInv, NEW r \in Readers, Stat(r)
    PROVE  MetaInv'
  <1> USE SourceFacts, WordFacts DEF MetaInv
  <1>1. UNCHANGED <<busy, tried, by, result, size, shown, asked, buf, got, cut>>
    BY DEF Stat, failoverVars
  <1>2. CASE size <= MaxSize
    <2>1. ksize' = size /\ fresh' = TRUE /\ UNCHANGED state
      BY <1>2 DEF Stat, MetaTypeOK
    <2>2. MetaTypeOK'
      BY <1>1, <1>2, <2>1 DEF MetaTypeOK, FailoverTypeOK
    <2>3. size = 0 \/ \E a \in Adapters : size = Length[a]
      BY <1>2 DEF FileInv, SizeKnown
    <2>4. KernelSizeReal' /\ SizeKnown'
      BY <1>1, <2>1, <2>3 DEF FileInv, KernelSizeReal, SizeKnown
    <2>5. Settled'
      BY <1>1, <2>1, <2>3 DEF FileInv, Settled, SizeKnown, Replicas
    <2>6. Replicas /\ ~cut /\ ksize # 0 => ksize' # 0
      BY <2>1 DEF FileInv, Settled
    <2>7. \A s \in Readers : ReaderInv(s)'
      BY <1>1, <2>1, <2>6, ReaderKept
    <2> QED
      BY <2>2, <2>4, <2>5, <2>7 DEF FileInv
  <1>3. CASE ~(size <= MaxSize)
    <2>1. /\ UNCHANGED <<ksize, fresh>>
          /\ state' = [state EXCEPT ![r] = "EIO"]
          /\ state[r] # "sent"
      BY <1>3 DEF Stat, Move
    <2>2. MetaTypeOK'
      BY <1>1, <2>1 DEF MetaTypeOK, FailoverTypeOK
    <2>3. FileInv'
      BY <1>1, <2>1, KernelSizeNat, FileKept
    <2>4. state'[r] = "EIO" /\ \A s \in Readers \ {r} : state'[s] = state[s]
      BY <2>1 DEF MetaTypeOK
    <2>5. ReaderInv(r)'
      BY <1>1, <2>1, <2>4
         DEF ReaderInv, InPlace, Whole, BufFollows, EndsThere, Within, Full, Replicas
    <2>6. \A s \in Readers \ {r} : ReaderInv(s)'
      BY <1>1, <2>1, <2>4, ReaderKept
    <2> QED
      BY <2>2, <2>3, <2>5, <2>6
  <1> QED
    BY <1>2, <1>3

LEMMA OpenInv ==
    ASSUME MetaInv, NEW r \in Readers, Open(r)
    PROVE  MetaInv'
  <1> USE DEF MetaInv
  <1>1. UNCHANGED <<busy, tried, by, result, size, ksize, fresh, asked, buf, got, cut>>
    BY DEF Open, failoverVars, fileVars
  <1>2. /\ state' = [state EXCEPT ![r] = "loop"] /\ state[r] = "idle"
        /\ shown' = [shown EXCEPT ![r] = ksize]
    BY DEF Open, Move
  <1>3. MetaTypeOK'
    BY <1>1, <1>2 DEF MetaTypeOK, FailoverTypeOK
  <1>4. FileInv'
    BY <1>1, KernelSizeNat, FileKept
  <1>5. /\ state'[r] = "loop" /\ shown'[r] = ksize
        /\ \A s \in Readers \ {r} : state'[s] = state[s] /\ shown'[s] = shown[s]
    BY <1>2 DEF MetaTypeOK
  <1>6. ReaderInv(r)'
    BY <1>1, <1>2, <1>5
       DEF ReaderInv, InPlace, Whole, BufFollows, EndsThere, Within, Full, Replicas
  <1>7. \A s \in Readers \ {r} : ReaderInv(s)'
    BY <1>1, <1>5, ReaderKept
  <1> QED
    BY <1>3, <1>4, <1>6, <1>7

LEMMA CloseInv ==
    ASSUME MetaInv, NEW r \in Readers, Close(r)
    PROVE  MetaInv'
  <1> USE DEF MetaInv
  <1>1. UNCHANGED <<busy, tried, by, result, size, ksize, fresh, asked, buf, cut>>
    BY DEF Close, failoverVars, fileVars
  <1>2. /\ state' = [state EXCEPT ![r] = "idle"] /\ state[r] \in {"eof", "EIO"}
        /\ shown' = [shown EXCEPT ![r] = 0]
        /\ got' = [got EXCEPT ![r] = << >>]
    BY DEF Close, Move
  <1>3. MetaTypeOK'
    BY <1>1, <1>2, WordFacts DEF MetaTypeOK, FailoverTypeOK
  <1>4. FileInv'
    BY <1>1, KernelSizeNat, FileKept
  <1>5. /\ state'[r] = "idle" /\ shown'[r] = 0 /\ got'[r] = << >>
        /\ \A s \in Readers \ {r} :
              state'[s] = state[s] /\ shown'[s] = shown[s] /\ got'[s] = got[s]
    BY <1>2 DEF MetaTypeOK
  <1>6. Len(got'[r]) = 0 /\ DOMAIN got'[r] = {}
    BY <1>5
  <1>7. buf'[r] = << >> /\ DOMAIN buf'[r] = {}
    BY <1>1, <1>2 DEF ReaderInv, BufFollows
  <1>8. ReaderInv(r)'
    BY <1>5, <1>6, <1>7, SourceFacts, WordFacts
       DEF ReaderInv, InPlace, Whole, BufFollows, EndsThere, Within, Full, Replicas
  <1>9. \A s \in Readers \ {r} : ReaderInv(s)'
    BY <1>1, <1>5, ReaderKept
  <1> QED
    BY <1>3, <1>4, <1>8, <1>9

LEMMA AtEndInv ==
    ASSUME MetaInv, NEW r \in Readers, AtEnd(r)
    PROVE  MetaInv'
  <1> USE DEF MetaInv
  <1>1. UNCHANGED <<busy, tried, by, result, size, ksize, fresh, shown, asked, buf, got, cut>>
    BY DEF AtEnd, failoverVars, fileVars
  <1>2. /\ state' = [state EXCEPT ![r] = "eof"] /\ state[r] = "loop"
        /\ Len(got[r]) >= ksize
    BY DEF AtEnd, Move
  <1>3. MetaTypeOK'
    BY <1>1, <1>2 DEF MetaTypeOK, FailoverTypeOK
  <1>4. FileInv'
    BY <1>1, KernelSizeNat, FileKept
  <1>5. state'[r] = "eof" /\ \A s \in Readers \ {r} : state'[s] = state[s]
    BY <1>2 DEF MetaTypeOK
  <1>6. Len(got[r]) \in Nat /\ ksize \in Nat /\ shown[r] \in Nat
    BY WordFacts DEF MetaTypeOK
  <1>7. Whole(r)'
    <2> SUFFICES ASSUME Replicas, ~cut, shown[r] # 0, NEW a \in Adapters
                 PROVE  Len(got[r]) = Length[a]
      BY <1>1, <1>6 DEF Whole, Replicas
    <2>1. ksize = Length[a] /\ Len(got[r]) <= Length[a]
      BY DEF FileInv, Settled, ReaderInv, Full, Within
    <2> QED
      BY <2>1, <1>2, <1>6
  <1>8. ReaderInv(r)'
    BY <1>1, <1>2, <1>5, <1>7
       DEF ReaderInv, InPlace, BufFollows, EndsThere, Within, Full, Replicas
  <1>9. \A s \in Readers \ {r} : ReaderInv(s)'
    BY <1>1, <1>5, ReaderKept
  <1> QED
    BY <1>3, <1>4, <1>8, <1>9

LEMMA SendInv ==
    ASSUME MetaInv, NEW r \in Readers, Send(r)
    PROVE  MetaInv'
  <1> USE SourceFacts, WordFacts DEF MetaInv
  <1>1. UNCHANGED <<size, ksize, fresh, shown, buf, got, cut>>
    BY DEF Send, fileVars
  <1>2. /\ state' = [state EXCEPT ![r] = "sent"] /\ state[r] = "loop"
        /\ Len(got[r]) < ksize
        /\ Begin(r)
    BY DEF Send, Move
  <1>3. PICK n \in Sizes : asked' = [asked EXCEPT ![r] = n]
    BY DEF Send
  <1>4. n \in Nat /\ n # 0
    BY MetaAssumption
  <1>5. FailoverTypeOK' /\ \A s \in Threads \ {r} : by'[s] = by[s]
    BY <1>2, FailoverKept DEF MetaTypeOK
  <1>6. MetaTypeOK'
    BY <1>1, <1>2, <1>3, <1>4, <1>5 DEF MetaTypeOK
  <1>7. FileInv'
    BY <1>1, <1>5, KernelSizeNat, FileKept, MetaAssumption
  <1>8. /\ state'[r] = "sent" /\ asked'[r] = n /\ by'[r] = 0
        /\ \A s \in Readers \ {r} : state'[s] = state[s] /\ asked'[s] = asked[s]
    BY <1>2, <1>3 DEF MetaTypeOK, FailoverTypeOK, Begin
  <1>9. buf'[r] = << >> /\ DOMAIN buf'[r] = {}
    BY <1>1, <1>2 DEF ReaderInv, BufFollows
  <1>10. Within(r)'
    <2> SUFFICES ASSUME Replicas, NEW a \in Adapters
                 PROVE  Len(got[r]) < Length[a]
      BY <1>1 DEF Within, Replicas, MetaTypeOK
    <2>1. ksize <= Length[a]
      BY KernelSizeNat, SizeBounded DEF FileInv, Replicas
    <2>2. Len(got[r]) \in Nat /\ ksize \in Nat /\ Length[a] \in Nat
      BY DEF MetaTypeOK
    <2> QED
      BY <1>2, <2>1, <2>2
  <1>11. ReaderInv(r)'
    BY <1>1, <1>4, <1>8, <1>9, <1>10
       DEF ReaderInv, InPlace, Whole, BufFollows, EndsThere, Full, Replicas
  <1>12. \A s \in Readers \ {r} : ReaderInv(s)'
    BY <1>1, <1>5, <1>8, ReaderKept
  <1> QED
    BY <1>6, <1>7, <1>11, <1>12

LEMMA FetchFailsInv ==
    ASSUME MetaInv, NEW r \in Readers, NEW a \in Adapters, FetchFails(r, a)
    PROVE  MetaInv'
  <1> USE SourceFacts DEF MetaInv
  <1>1. UNCHANGED <<size, ksize, fresh, state, shown, asked, buf, got, cut, by>>
    BY DEF FetchFails, Fails, fileVars, readerVars
  <1>2. FailoverTypeOK'
    BY FailoverKept DEF MetaTypeOK, FetchFails
  <1>3. MetaTypeOK'
    BY <1>1, <1>2 DEF MetaTypeOK
  <1> QED
    BY <1>1, <1>3, KernelSizeNat, FileKept, ReaderKept

(* What an adapter puts into the buffer follows what the program has, and  *)
(* is all there is to answer if the answer has not broken off.             *)
LEMMA FetchInv ==
    ASSUME MetaInv, NEW r \in Readers, NEW a \in Adapters, FetchSucceeds(r, a)
    PROVE  MetaInv'
  <1> USE SourceFacts, WordFacts DEF MetaInv
  <1> DEFINE offset == Len(got[r])
             range  == RangeHeader(offset, asked[r])
             whole  == Body(a, range)
  <1>1. UNCHANGED <<size, ksize, fresh, state, shown, asked, got>>
        /\ state[r] = "sent" /\ ~Unsatisfiable(a, range) /\ Succeeds(r, a)
    BY DEF FetchSucceeds, fileVars
  <1>2. PICK n \in 0 .. Len(whole) :
           /\ CanSkip(a, SubSeq(whole, 1, n), offset)
           /\ buf' = [buf EXCEPT ![r] =
                         ReadFull(Skip(a, SubSeq(whole, 1, n), offset), asked[r])]
           /\ cut' = (cut \/ n < Len(whole))
    BY DEF FetchSucceeds
  <1>3. offset \in Nat /\ asked[r] \in Nat \ {0}
    BY <1>1 DEF MetaTypeOK, ReaderInv
  <1> DEFINE d == ReadFull(Skip(a, SubSeq(whole, 1, n), offset), asked[r])
  <1>4. /\ From(d, offset)
        /\ ~(n < Len(whole)) => /\ Len(d) = Answered(a, offset, asked[r])
                                /\ Len(d) < asked[r] => offset + Len(d) = Length[a]
    BY <1>1, <1>2, <1>3, DataInPlace
  <1>5. /\ d \in Seq(Nat)
        /\ \A i \in DOMAIN d : d[i] = offset + i - 1
    BY <1>4, FromDomain
  <1>6. FailoverTypeOK' /\ \A s \in Threads \ {r} : by'[s] = by[s]
    BY <1>1, FailoverKept DEF MetaTypeOK
  <1> HIDE DEF d, whole
  <1>7. MetaTypeOK'
    <2>1. buf' \in [Readers -> Seq(Nat)]
      BY <1>2, <1>5 DEF MetaTypeOK, d
    <2>2. cut' \in BOOLEAN
      BY <1>2 DEF MetaTypeOK
    <2> QED
      BY <1>1, <1>6, <2>1, <2>2 DEF MetaTypeOK
  <1>8. cut => cut'
    BY <1>2
  <1>9. FileInv'
    BY <1>1, <1>6, <1>8, KernelSizeNat, FileKept, MetaAssumption
  <1>10. buf'[r] = d /\ \A s \in Readers \ {r} : buf'[s] = buf[s]
    BY <1>2 DEF MetaTypeOK, d
  <1>11. BufFollows(r)'
    BY <1>1, <1>5, <1>10 DEF BufFollows
  <1>12. ~cut' => ~(n < Len(whole))
    BY <1>2, Zenon
  <1>13. EndsThere(r)'
    BY <1>1, <1>4, <1>10, <1>12 DEF EndsThere
  <1>14. Full(r)'
    <2>1. ASSUME Replicas, ~cut', NEW b \in Adapters
          PROVE  Len(d) = Answered(b, offset, asked[r])
      <3>1. Length[b] = Length[a]
        BY <2>1 DEF Replicas
      <3> QED
        BY <1>4, <1>12, <2>1, <3>1 DEF Answered
    <2>2. Replicas /\ ~cut' /\ shown[r] # 0 => ksize # 0
      BY <1>8 DEF ReaderInv, Full
    <2> QED
      BY <1>1, <1>10, <2>1, <2>2 DEF Full, Replicas, Answered
  <1>15. ReaderInv(r)'
    BY <1>1, <1>8, <1>11, <1>13, <1>14 DEF ReaderInv, InPlace, Whole, Within, Replicas
  <1>16. \A s \in Readers \ {r} : ReaderInv(s)'
    BY <1>1, <1>6, <1>8, <1>10, ReaderKept
  <1> QED
    BY <1>7, <1>9, <1>15, <1>16

-----------------------------------------------------------------------------
(* Read's reply: the program has more, all of it in place.                 *)

LEMMA KeptLength ==
    ASSUME NEW p \in Nat, NEW q \in Nat, NEW k \in Nat
    PROVE  LET m == Max({p, Min({p + q, k})})
           IN  m \in Nat /\ m <= p + q /\ (m <= p \/ m <= k)
  <1> DEFINE e == Min({p + q, k})
  <1>1. p + q \in Int /\ k \in Int /\ p \in Int
    OBVIOUS
  <1>2. e = IF p + q <= k THEN p + q ELSE k
    BY <1>1, MinOfTwo
  <1>3. e \in Int
    BY <1>1, <1>2
  <1> HIDE DEF e
  <1>4. Max({p, e}) = IF p >= e THEN p ELSE e
    BY <1>1, <1>3, MaxOfTwo
  <1>5. Max({p, e}) \in Nat /\ Max({p, e}) <= p + q
        /\ (Max({p, e}) <= p \/ Max({p, e}) <= k)
    BY <1>2, <1>4
  <1> QED
    BY <1>5 DEF e

LEMMA ReplyData ==
    ASSUME NEW g \in Seq(Nat), NEW d \in Seq(Nat), NEW k \in Nat,
           \A i \in DOMAIN g : g[i] = i - 1,
           \A i \in DOMAIN d : d[i] = Len(g) + i - 1
    PROVE  LET h == SubSeq(g \o d, 1, Max({Len(g), Min({Len(g) + Len(d), k})}))
           IN  /\ h \in Seq(Nat)
               /\ Len(h) <= Len(g) \/ Len(h) <= k
               /\ \A i \in DOMAIN h : h[i] = i - 1
  <1> DEFINE m == Max({Len(g), Min({Len(g) + Len(d), k})})
             c == g \o d
             h == SubSeq(c, 1, m)
  <1>1. Len(g) \in Nat /\ Len(d) \in Nat /\ Len(g) + Len(d) \in Nat
    OBVIOUS
  <1>2. m \in Nat /\ m <= Len(g) + Len(d) /\ (m <= Len(g) \/ m <= k)
    BY <1>1, KeptLength
  <1> HIDE DEF m
  <1>3. /\ c \in Seq(Nat)
        /\ \A i \in 1 .. Len(g) + Len(d) :
              c[i] = IF i <= Len(g) THEN g[i] ELSE d[i - Len(g)]
    BY ConcatProperties
  <1>4. DOMAIN g = 1 .. Len(g) /\ DOMAIN d = 1 .. Len(d)
    BY LenProperties
  <1>5. \A i \in 1 .. Len(g) + Len(d) : c[i] = i - 1
    <2> SUFFICES ASSUME NEW i \in 1 .. Len(g) + Len(d)
                 PROVE  c[i] = i - 1
      OBVIOUS
    <2>1. CASE i <= Len(g)
      <3>1. i \in DOMAIN g
        BY <1>1, <1>4, <2>1
      <3> QED
        BY <1>3, <2>1, <3>1
    <2>2. CASE i > Len(g)
      <3>1. i - Len(g) \in 1 .. Len(d)
        BY <1>1, <2>2
      <3>2. d[i - Len(g)] = Len(g) + (i - Len(g)) - 1
        BY <1>4, <3>1
      <3>3. c[i] = d[i - Len(g)]
        BY <1>1, <1>3, <2>2
      <3> QED
        BY <1>1, <3>2, <3>3
    <2> QED
      BY <1>1, <2>1, <2>2
  <1> HIDE DEF c
  <1>6. \A i \in 1 .. m : c[i] = i - 1 /\ c[i] \in Nat
    BY <1>1, <1>2, <1>5
  <1>7. /\ h \in Seq(Nat)
        /\ Len(h) = IF 1 <= m THEN m - 1 + 1 ELSE 0
        /\ \A i \in 1 .. m - 1 + 1 : h[i] = c[1 + i - 1]
    BY <1>2, <1>6, SubSeqProperties
  <1>8. Len(h) = m
    BY <1>2, <1>7
  <1> HIDE DEF h
  <1>9. DOMAIN h = 1 .. m
    BY <1>7, <1>8
  <1>10. ASSUME NEW i \in 1 .. m
         PROVE  h[i] = i - 1
    <2>1. i \in 1 .. m - 1 + 1 /\ 1 + i - 1 = i
      BY <1>2
    <2> QED
      BY <1>6, <1>7, <2>1
  <1> QED
    BY <1>2, <1>7, <1>8, <1>9, <1>10 DEF h, c, m

LEMMA ReplyInv ==
    ASSUME MetaInv, NEW r \in Readers, Reply(r)
    PROVE  MetaInv'
  <1> USE SourceFacts, WordFacts DEF MetaInv
  <1> DEFINE g == got[r]
             d == buf[r]
             end == Len(g) + Len(d)
  <1>1. /\ UNCHANGED <<size, fresh, shown, cut>>
        /\ asked' = [asked EXCEPT ![r] = 0]
        /\ buf' = [buf EXCEPT ![r] = << >>]
        /\ state[r] = "sent" /\ Returns(r)
    BY DEF Reply
  <1>2. FailoverTypeOK' /\ by' = by
    BY <1>1, FailoverKept DEF MetaTypeOK, Returns
  <1>3. /\ asked' \in [Readers -> Nat] /\ buf' \in [Readers -> Seq(Nat)]
        /\ buf'[r] = << >> /\ asked'[r] = 0
        /\ \A s \in Readers \ {r} : buf'[s] = buf[s] /\ asked'[s] = asked[s]
    BY <1>1 DEF MetaTypeOK
  <1>4. DOMAIN buf'[r] = {}
    BY <1>3
  <1>5. CASE result'[r] # "ok"
    <2>1. state' = [state EXCEPT ![r] = "EIO"] /\ UNCHANGED <<ksize, got>>
      BY <1>5 DEF Reply, Move
    <2>2. MetaTypeOK'
      BY <1>1, <1>2, <1>3, <2>1 DEF MetaTypeOK
    <2>3. FileInv'
      BY <1>1, <1>2, <2>1, KernelSizeNat, FileKept
    <2>4. state'[r] = "EIO" /\ \A s \in Readers \ {r} : state'[s] = state[s]
      BY <2>1 DEF MetaTypeOK
    <2>5. ReaderInv(r)'
      BY <1>1, <1>3, <1>4, <2>1, <2>4
         DEF ReaderInv, InPlace, Whole, BufFollows, EndsThere, Within, Full, Replicas
    <2>6. \A s \in Readers \ {r} : ReaderInv(s)'
      BY <1>1, <1>2, <1>3, <2>1, <2>4, ReaderKept
    <2> QED
      BY <2>2, <2>3, <2>5, <2>6
  <1>6. CASE result'[r] = "ok"
    <2> DEFINE h == SubSeq(g \o d, 1, Max({Len(g), Min({end, ksize})}))
               label == IF d = << >> \/ Len(g) >= ksize THEN "eof" ELSE "loop"
    <2>1. /\ ksize' = IF Len(d) < asked[r] THEN Min({ksize, end}) ELSE ksize
          /\ got' = [got EXCEPT ![r] = h]
          /\ state' = [state EXCEPT ![r] = label]
      BY <1>6 DEF Reply, Move, MetaTypeOK
    <2>2. by[r] # 0
      BY <1>1, <1>6 DEF Returns, Outcomes, MetaTypeOK, FailoverTypeOK
    <2>3. /\ g \in Seq(Nat) /\ d \in Seq(Nat) /\ asked[r] \in Nat /\ shown[r] \in Nat
          /\ ksize \in Nat /\ ksize <= MaxSize
          /\ Len(g) \in Nat /\ Len(d) \in Nat /\ end \in Nat
      BY DEF MetaTypeOK
    <2>4. /\ Min({ksize, end}) = IF ksize <= end THEN ksize ELSE end
          /\ ksize' \in Nat /\ ksize' <= ksize
      <3> HIDE DEF g, d, end, h, label
      <3>1. ksize \in Int /\ end \in Int
        BY <2>3
      <3>2. Min({ksize, end}) = IF ksize <= end THEN ksize ELSE end
        BY <3>1, MinOfTwo
      <3> QED
        BY <2>1, <2>3, <3>2
    <2>5. /\ h \in Seq(Nat)
          /\ Len(h) <= Len(g) \/ Len(h) <= ksize
          /\ \A i \in DOMAIN h : h[i] = i - 1
      <3>1. /\ \A i \in DOMAIN g : g[i] = i - 1
            /\ \A i \in DOMAIN d : d[i] = Len(g) + i - 1
        BY DEF ReaderInv, InPlace, BufFollows
      <3> QED
        BY <2>3, <3>1, ReplyData
    <2> HIDE DEF h
    \* Sources of one length, no answer cut short, and a size: the answer is
    \* not empty, and if it is short it ends where the file does.
    <2>6. ASSUME Replicas, ~cut, ksize # 0
          PROVE  ksize' = ksize /\ Len(g) < ksize /\ d # << >>
      <3>1. /\ ksize = Length[1] /\ Len(g) < Length[1]
            /\ Len(d) = Answered(1, Len(g), asked[r])
            /\ asked[r] # 0
        BY <1>1, <2>2, <2>6
           DEF FileInv, Settled, ReaderInv, Within, Full
      <3>2. Answered(1, Len(g), asked[r])
               = IF asked[r] <= ksize - Len(g) THEN asked[r] ELSE ksize - Len(g)
        <4>1. asked[r] \in Int /\ ksize - Len(g) \in Int
          BY <2>3
        <4> QED
          BY <3>1, <4>1, MinOfTwo DEF Answered
      <3>3. Len(d) > 0
        BY <2>3, <3>1, <3>2
      <3>4. ksize' = ksize
        <4> HIDE DEF g, d
        <4> QED
          BY <2>1, <2>3, <2>4, <3>1, <3>2
      <3>5. Len(<< >>) = 0
        OBVIOUS
      <3> QED
        BY <3>1, <3>3, <3>4, <3>5
    <2>7. MetaTypeOK'
      <3>1. ksize' \in 0 .. MaxSize
        BY <2>3, <2>4
      <3>2. state' \in [Readers -> {"idle", "loop", "sent", "eof", "EIO"}]
        BY <2>1 DEF MetaTypeOK
      <3>3. got' \in [Readers -> Seq(Nat)]
        BY <2>1, <2>5 DEF MetaTypeOK
      <3> QED
        BY <1>1, <1>2, <1>3, <3>1, <3>2, <3>3 DEF MetaTypeOK
    <2>8. KernelSizeReal'
      <3>1. CASE cut
        <4>1. PICK a \in Adapters : ksize <= Length[a]
          BY <2>3, SizeBounded DEF FileInv
        <4>2. Length[a] \in Nat
          OBVIOUS
        <4> QED
          BY <1>1, <2>3, <2>4, <3>1, <4>1, <4>2 DEF KernelSizeReal
      <3>2. CASE ~cut /\ ksize' = ksize
        BY <1>1, <3>2 DEF FileInv, KernelSizeReal
      <3>3. CASE ~cut /\ ksize' # ksize
        <4>1. Len(d) < asked[r] /\ ksize' = end
          BY <2>1, <2>4, <3>3
        <4>2. \E a \in Adapters : end = Length[a]
          BY <1>1, <2>2, <3>3, <4>1 DEF ReaderInv, EndsThere
        <4> QED
          BY <1>1, <3>3, <4>1, <4>2 DEF KernelSizeReal
      <3> QED
        BY <3>1, <3>2, <3>3 DEF MetaTypeOK
    <2>9. SizeKnown'
      BY <1>1, <1>2 DEF FileInv, SizeKnown
    <2>10. Settled'
      <3>1. ksize' # 0 => ksize # 0
        BY <2>3, <2>4
      <3> QED
        BY <1>1, <1>2, <2>6, <3>1 DEF FileInv, Settled, Replicas
    <2>11. /\ state'[r] = label /\ got'[r] = h
           /\ \A s \in Readers \ {r} : state'[s] = state[s] /\ got'[s] = got[s]
      BY <2>1 DEF MetaTypeOK
    <2>12. InPlace(r)' /\ BufFollows(r)' /\ EndsThere(r)'
      BY <1>3, <1>4, <2>5, <2>11 DEF InPlace, BufFollows, EndsThere
    <2>13. Within(r)'
      <3> SUFFICES ASSUME Replicas, NEW a \in Adapters
                   PROVE  Len(h) <= Length[a]
        BY <2>11 DEF Within, Replicas
      <3>1. ksize <= Length[a]
        BY <2>3, SizeBounded DEF FileInv, Replicas
      <3>2. Len(g) <= Length[a]
        BY DEF ReaderInv, Within
      <3>3. Length[a] \in Nat /\ Len(h) \in Nat
        BY <2>5
      <3> QED
        BY <2>3, <2>5, <3>1, <3>2, <3>3
    <2>14. Whole(r)' /\ Full(r)'
      <3>1. ASSUME Replicas, ~cut, shown[r] # 0
            PROVE  ksize' # 0 /\ label = "loop"
        <4>1. ksize # 0
          BY <3>1 DEF ReaderInv, Full
        <4>2. ksize' = ksize /\ Len(g) < ksize /\ d # << >>
          BY <2>6, <3>1, <4>1
        <4> QED
          BY <2>3, <4>1, <4>2
      <3> QED
        BY <1>1, <2>3, <2>11, <3>1 DEF Whole, Full, Replicas
    <2>15. ReaderInv(r)'
      BY <2>11, <2>12, <2>13, <2>14 DEF ReaderInv
    <2>16. \A s \in Readers \ {r} : ReaderInv(s)'
      BY <1>1, <1>2, <1>3, <2>6, <2>11, ReaderKept
    <2> QED
      BY <2>7, <2>8, <2>9, <2>10, <2>15, <2>16 DEF FileInv
  <1> QED
    BY <1>5, <1>6

-----------------------------------------------------------------------------
LEMMA NextInv == MetaInv /\ [MetaNext]_vars => MetaInv'
  <1> SUFFICES ASSUME MetaInv, [MetaNext]_vars
               PROVE  MetaInv'
    OBVIOUS
  <1>1. CASE UNCHANGED vars
    <2>1. UNCHANGED <<busy, tried, by, result, size, ksize, fresh, state, shown,
                      asked, buf, got, cut>>
      BY <1>1 DEF vars, failoverVars, fileVars, readerVars
    <2>2. MetaTypeOK'
      BY <2>1 DEF MetaInv, MetaTypeOK, FailoverTypeOK
    <2> QED
      BY <2>1, <2>2, KernelSizeNat, FileKept, ReaderKept DEF MetaInv
  <1>2. CASE MetaReturns
    BY <1>2, MetaStepInv, SourceFacts
  <1>3. ASSUME NEW a \in Adapters, MetaFails(a) \/ MetaSucceeds(a)
        PROVE  MetaInv'
    BY <1>3, MetaStepInv
  <1>4. CASE Expire
    BY <1>4, ExpireInv
  <1>5. ASSUME NEW r \in Readers,
               \/ Stat(r) \/ Open(r) \/ Close(r) \/ AtEnd(r) \/ Send(r) \/ Reply(r)
        PROVE  MetaInv'
    BY <1>5, StatInv, OpenInv, CloseInv, AtEndInv, SendInv, ReplyInv
  <1>6. ASSUME NEW r \in Readers, NEW a \in Adapters,
               FetchFails(r, a) \/ FetchSucceeds(r, a)
        PROVE  MetaInv'
    BY <1>6, FetchFailsInv, FetchInv
  <1> QED
    BY <1>1, <1>2, <1>3, <1>4, <1>5, <1>6 DEF MetaNext

(* The inductive invariant holds in every reachable state.                 *)
THEOREM Invariance == MetaSpec => []MetaInv
  BY InitInv, NextInv, PTL DEF MetaSpec

(* The state has its types: the size in the kernel is always one that the  *)
(* signed range holds, whatever GetMeta's conversion makes of a length.    *)
THEOREM MetaTypeCorrect == MetaSpec => []MetaTypeOK
  <1>1. MetaInv => MetaTypeOK
    BY DEF MetaInv
  <1> QED
    BY <1>1, Invariance, PTL

(* What a program reads of a file is in its place, however many adapters   *)
(* its chunks came from: those that serve ranges and those whose bodies    *)
(* HTTPAdapter.Read skips through (GotInPlace).                            *)
THEOREM DataIsInPlace == MetaSpec => []GotInPlace
  <1>1. MetaInv => GotInPlace
    BY DEF MetaInv, ReaderInv, InPlace, GotInPlace
  <1> QED
    BY <1>1, Invariance, PTL

(* Programs that find a size, read to the end and meet no error have the   *)
(* whole file, if the sources agree on its length and no answer broke off. *)
THEOREM ReadsAreWhole == MetaSpec => []WholeFile
  <1>1. MetaInv => WholeFile
    BY DEF MetaInv, ReaderInv, Whole, WholeFile
  <1> QED
    BY <1>1, Invariance, PTL

(* No source that agrees with the others on the length is asked for bytes  *)
(* behind its end (which it would be counted as failed for).               *)
THEOREM RequestsAreWithin == MetaSpec => []AskedWithinSource
  <1>1. MetaInv => AskedWithinSource
    <2> SUFFICES ASSUME MetaInv, NEW r \in Readers, NEW a \in Adapters,
                        Replicas, state[r] = "sent"
                 PROVE  ~Refused(a, Len(got[r]))
      BY DEF AskedWithinSource
    <2>1. Len(got[r]) < Length[a]
      BY DEF MetaInv, ReaderInv, Within
    <2>2. Len(got[r]) \in Nat /\ Length[a] \in Nat
      BY SourceFacts, WordFacts DEF MetaInv, MetaTypeOK
    <2>3. RangeHeader(Len(got[r]), 1).first = Len(got[r])
      BY DEF RangeHeader
    <2>4. Len(Content(a)) = Length[a]
      BY ContentInPlace
    <2> QED
      BY <2>1, <2>2, <2>3, <2>4 DEF Refused, Unsatisfiable, CanSkip
  <1> QED
    BY <1>1, Invariance, PTL

(* The size that programs see is 0 or the length of a source, and at most  *)
(* that once an answer has broken off.  That uint64 of a length that was   *)
(* not sent never becomes it rests on the kernel, which refuses it.        *)
THEOREM SizesAreReal == MetaSpec => []KernelSizeReal
  <1>1. MetaInv => KernelSizeReal
    BY DEF MetaInv, FileInv
  <1> QED
    BY <1>1, Invariance, PTL
=============================================================================
